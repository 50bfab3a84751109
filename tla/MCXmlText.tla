----------------------------- MODULE MCXmlText -----------------------------
EXTENDS XmlText

(* ASCII: an ordinary letter, markup, a control character and a newline;    *)
(* first and last continuation bytes, and those around the limits of E0,    *)
(* ED, F0 and F4; each kind of lead byte, and bytes that occur nowhere.     *)
MCByte == {1, 10, 38, 65, 128, 143, 144, 160, 191,
           193, 195, 224, 237, 239, 240, 244, 248}
=============================================================================
