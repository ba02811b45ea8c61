---------------------------- MODULE MCPureFunctions ----------------------------
(***************************************************************************)
(* Texts over the percent sign, digits and letters, a letter that is no    *)
(* digit, both spaces, a slash and a byte above 127. Addresses over the    *)
(* colon, the slash, two digits, a letter and a line break. Cookies over   *)
(* the bytes that separate them, a blank, a percent sign and a letter.     *)
(***************************************************************************)
EXTENDS PureFunctions

SomeBytes == {37, 52, 65, 97, 103, 43, 32, 47, 200}
SomeUrlBytes == {58, 47, 54, 57, 97, 10}
SomeCookieBytes == {61, 59, 32, 37, 97}
=============================================================================
