------------------------- MODULE MCAdapterValidation -------------------------
EXTENDS AdapterValidation

\* Two hex digits (one of them upper case) and one character that is not.
MCChars == {"0", "F", "g"}
MCHexDigits == {"0", "F"}
MCAbiStrings == {"1.0", "9.9", ""}

====
