---------------------------- MODULE MCReporting ----------------------------
(***************************************************************************)
(* Two requests and two responses, with attributes of most kinds.          *)
(***************************************************************************)
EXTENDS Reporting

Avp(attr, type, bytes) == [attr |-> attr, type |-> type, encrypt |-> FALSE,
                           bytes |-> bytes]

UserName  == Avp(1, "string", <<65, 0, 66>>)
VendorOne == Avp(1, "octets", <<7, 7>>)        \* a vendor's attribute 1
Password  == [Avp(2, "string", <<9, 0>>) EXCEPT !.encrypt = TRUE]
BadAddr   == Avp(4, "ipv4", <<10, 0>>)
Address6  == Avp(95, "ipv6", <<1, 2>>)         \* a type without converter
Timeout   == Avp(27, "integer", <<60, 0, 0, 0>>)
Extended  == Avp(244, "octets", <<5>>)         \* a number above 127
Internal  == Avp(65563, "integer", <<1, 0, 0, 0>>)    \* 27 modulo 2^16

MCRequests  == {<<UserName, Password, BadAddr>>,
                <<UserName, Address6, VendorOne, Extended>>}
MCResponses == {<<>>, <<Timeout, Extended, Internal>>}
=============================================================================
