-------------------------- MODULE RadiusAttributes --------------------------
(***************************************************************************)
(* From the attributes of a RADIUS packet to a line of the log: what       *)
(* RadiusMessage makes of a packet, ThriftResultLogger of two messages,    *)
(* the generated Thrift code of a request on the wire, and the log server  *)
(* of what it reads. Everything here is a function of its arguments;       *)
(* Reporting.tla has the processes.                                        *)
(*                                                                         *)
(* An attribute is a record [attr, type, encrypt, bytes]: its number in    *)
(* the dictionary, its type, whether the dictionary marks it as encrypted, *)
(* and its value in memory. Its vendor is not a field, as nobody reads it. *)
(***************************************************************************)
EXTENDS Integers, Sequences, FiniteSets

Avps == [attr : Nat, type : STRING, encrypt : BOOLEAN, bytes : Seq(0..255)]

\* What becomes of x in a signed integer that has span values.
Signed(x, span) == LET m == x % span
                   IN IF m < span \div 2 THEN m ELSE m - span
Int8(x)  == Signed(x, 256)
Short(x) == Signed(x, 65536)

-----------------------------------------------------------------------------
(* RadiusAttributeBuilder *)

Converters == {"octets", "string", "integer", "date", "ipv4", "byte", "short",
               "integer64", "signed", "boolean"}

\* std::string of a pointer to characters ends at the first zero.
UpToZero(s) == LET Ends == {n \in 0..Len(s) : n < Len(s) => s[n + 1] = 0}
               IN SubSeq(s, 1, CHOOSE n \in Ends : \A k \in Ends : n <= k)

\* A text is how a value is written, and what is written.
AttrToString(bytes, type) ==
    CASE type \notin Converters             -> <<"octets", bytes>>
      [] type = "string"                    -> <<"string", UpToZero(bytes)>>
      [] type = "ipv4" /\ Len(bytes) < 4    -> <<"incorrect addr", <<>> >>
      [] OTHER                              -> <<type, bytes>>

-----------------------------------------------------------------------------
(* RadiusMessage *)

\* An encrypted string is written as octets.
TypeOf(a) == IF a.encrypt /\ a.type = "string" THEN "octets" ELSE a.type

NoAttrs == [c \in {} |-> <<>>]

\* Bug for comparison: an attribute that is there already is kept.
SetOnce(attrs, a) ==
    [c \in DOMAIN attrs \cup {Short(a.attr)} |->
        IF c \in DOMAIN attrs THEN attrs[c] ELSE AttrToString(a.bytes, TypeOf(a))]

\* attrs_[number] = text: the number is cut to a short, a later attribute
\* replaces an earlier one.
SetAttr(attrs, a) ==
    [c \in DOMAIN attrs \cup {Short(a.attr)} |->
        IF c = Short(a.attr) THEN AttrToString(a.bytes, TypeOf(a)) ELSE attrs[c]]

\* The loop over the attributes of a packet.
BuildAttrs(packet) ==
    LET attrs[i \in 0..Len(packet)] ==
            IF i = 0 THEN NoAttrs ELSE SetAttr(attrs[i - 1], packet[i])
    IN attrs[Len(packet)]

-----------------------------------------------------------------------------
(* ThriftResultLogger *)

\* The n-th number, counted from the least.
Nth(codes, n) == CHOOSE c \in codes : Cardinality({d \in codes : d <= c}) = n

\* The elements of the map in the order of their keys; a type is one byte.
MapToAvpList(attrs) ==
    [n \in 1..Cardinality(DOMAIN attrs) |->
        LET c == Nth(DOMAIN attrs, n)
        IN [type |-> Int8(c), value |-> attrs[c]]]

\* RadiusRequest: two numbers, two lists, and which of the lists are set. app
\* fits in 31 bits, so that it stays the same as a signed number. The
\* time of the report is left out.
NewRequest == [sourceId |-> 0, avpRequestList |-> <<>>,
               avpResponseList |-> <<>>, isset |-> {}]

\* Bug for comparison: the response list is filled and not marked as set.
MarkOneList(app, req, rsp) ==
    [sourceId        |-> app,
     avpRequestList  |-> MapToAvpList(BuildAttrs(req)),
     avpResponseList |-> MapToAvpList(BuildAttrs(rsp)),
     isset           |-> {"avpRequestList"}]

MakeRequest(app, req, rsp) ==
    [sourceId        |-> app,
     avpRequestList  |-> MapToAvpList(BuildAttrs(req)),
     avpResponseList |-> MapToAvpList(BuildAttrs(rsp)),
     isset           |-> {"avpRequestList", "avpResponseList"}]

-----------------------------------------------------------------------------
(* The Thrift code *)

\* The fields that are written: a list only if it is set.
Write(r) == [f \in {"sourceId"} \cup r.isset |-> r[f]]

\* A field that does not come keeps its default.
Read(fields) ==
    [f \in DOMAIN NewRequest |->
        CASE f = "isset"          -> DOMAIN fields \ {"sourceId"}
          [] f \in DOMAIN fields  -> fields[f]
          [] OTHER                -> NewRequest[f]]

-----------------------------------------------------------------------------
(* The log server *)

\* A type is printed as if it had no sign, in two bytes.
PrintAvps(list) == [i \in 1..Len(list) |-> [type |-> list[i].type % 65536,
                                            value |-> list[i].value]]

\* A list that is not set is printed as <null>: here, as no list.
PrintList(r, f) == IF f \in r.isset THEN <<PrintAvps(r[f])>> ELSE <<>>

PrintTo(r) == [source   |-> r.sourceId,
               request  |-> PrintList(r, "avpRequestList"),
               response |-> PrintList(r, "avpResponseList")]
=============================================================================
