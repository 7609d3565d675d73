-------------------------------- MODULE Wire --------------------------------
(***************************************************************************)
(* The life of one JSON value in package protocol: the peer sends it, the  *)
(* SDK decodes it into a union or a struct, and a caller encodes what it   *)
(* got and decodes that again (a raw item kept in a TurnResult, a          *)
(* configuration read and written back).  The payloads range over the      *)
(* instances of every variant with and without optional and unknown keys,  *)
(* and over the near misses: a required key left out, one value of the     *)
(* wrong type, a literal no variant has, a value of another kind.          *)
(***************************************************************************)
EXTENDS Decoder

CONSTANTS
    Unions,   \* the generated unions: name -> sequence of variants
    Structs,  \* the structs with an UnmarshalJSON of their own: name -> variant
    FreeKeys  \* keys whose Go type accepts every JSON value

\* A key and a literal that no variant of the schema has.
Stranger == "x-future"

\* What every table taken from the generated code satisfies: only objects have
\* keys, and what names a variant is one of them.
WellFormed(v) ==
    /\ v \in Variants
    /\ v.strict \subseteq v.req /\ Stranger \notin Known(v)
    /\ v.by # "" => v.by \in Known(v)
    /\ v.shape # "object" => v.by = "" /\ v.req = {} /\ v.opt = {}

ASSUME WireAssumption ==
    /\ \A n \in DOMAIN Unions :
          Unions[n] \in Seq(Variants) /\ \A i \in DOMAIN Unions[n] : WellFormed(Unions[n][i])
    /\ \A n \in DOMAIN Structs : WellFormed(Structs[n]) /\ Structs[n].shape = "object"

VARIABLES
    step,  \* what was done last: "sent", "decoded", "encoded", "again" or "idle"
    name,  \* the Go type decoded into
    sent,  \* the payload
    got,   \* the result of decoding it
    wire,  \* the encoding of that result
    back   \* the result of decoding the encoding

vars == <<step, name, sent, got, wire, back>>

None == Refused(JSON("null", "", {}, {}))

(***************************************************************************)
(* The payloads of a variant.                                              *)
(***************************************************************************)
Rejectable(v) == (v.req \cup (v.opt \ {"params"})) \ FreeKeys

ObjectPayloads(v) ==
    LET text(missing) == IF v.by \in missing THEN "" ELSE v.tag
    IN  {JSON("object", t, v.req \cup o \cup x, {}) :
             t \in {v.tag, Stranger}, o \in {{}, v.opt}, x \in {{}, {Stranger}}}
        \cup {JSON("object", text({k}), v.req \ {k}, {}) : k \in v.req}
        \cup {JSON("object", text({k}), v.req \cup {k}, {k}) : k \in Rejectable(v)}

Payloads(v) ==
    IF v.shape = "object" THEN ObjectPayloads(v)
    ELSE {JSON("string", t, {}, {}) : t \in v.texts \cup {Stranger}}

OtherKinds == {JSON(k, "", {}, {}) : k \in Kinds \ {"string", "object"}}

Types == DOMAIN Unions \cup DOMAIN Structs

PayloadsOf(n) ==
    OtherKinds \cup
    (IF n \in DOMAIN Unions
     THEN UNION {Payloads(Unions[n][i]) : i \in DOMAIN Unions[n]}
     ELSE Payloads(Structs[n]))

DecodeAs(n, j) == IF n \in DOMAIN Unions THEN Decode(Unions[n], j)
                                         ELSE DecodeStruct(Structs[n], j)

(***************************************************************************)
(* The specification.                                                      *)
(***************************************************************************)
Init ==
    /\ step = "idle" /\ name \in Types
    /\ sent = None.json /\ got = None /\ wire = None.json /\ back = None

\* The peer sends a value where the protocol has type n.
Send(n) ==
    /\ step \in {"idle", "again"}
    /\ step' = "sent" /\ name' = n
    /\ sent' \in PayloadsOf(n)
    /\ got' = None /\ wire' = None.json /\ back' = None

UnmarshalJSON ==
    /\ step = "sent"
    /\ step' = "decoded" /\ got' = DecodeAs(name, sent)
    /\ UNCHANGED <<name, sent, wire, back>>

\* A struct that was not decoded is dropped; a union still has its Raw, and
\* MarshalJSON writes that.
Drop ==
    /\ step = "decoded" /\ got.got = "error" /\ name \notin DOMAIN Unions
    /\ step' = "idle"
    /\ UNCHANGED <<name, sent, got, wire, back>>

MarshalJSON ==
    /\ step = "decoded" /\ (got.got = "error" => name \in DOMAIN Unions)
    /\ step' = "encoded" /\ wire' = got.json
    /\ UNCHANGED <<name, sent, got, back>>

UnmarshalAgain ==
    /\ step = "encoded"
    /\ step' = "again" /\ back' = DecodeAs(name, wire)
    /\ UNCHANGED <<name, sent, got, wire>>

Next == (\E n \in Types : Send(n)) \/ UnmarshalJSON \/ Drop \/ MarshalJSON \/ UnmarshalAgain

Spec == Init /\ [][Next]_vars

(***************************************************************************)
(* Properties.                                                             *)
(***************************************************************************)
Decoded == step \in {"decoded", "encoded", "again"}

Encoded == step \in {"encoded", "again"}

\* The variants of the union the payload is an instance of.
Meant == IF name \in DOMAIN Unions
         THEN {i \in DOMAIN Unions[name] : InstanceOf(Unions[name][i], sent, {Stranger})}
         ELSE {}

\* In a union whose variants the generated code can tell apart, a payload the
\* schema describes is decoded to the variant it describes, whatever the order
\* of the cases and with or without keys this version does not know (kept raw
\* where the variant is raw): the switch and the shape checks of UnmarshalJSON
\* never take a value of one variant for another's.
DecodesOwn ==
    (Decoded /\ name \in DOMAIN Unions /\ Distinguishable(Unions[name])) =>
        \A i \in Meant : got = Parse(Unions[name][i], i, sent) /\ got.got # "error"

\* Decoding what was encoded gives the decoded value back, for every payload
\* that decodes, the near misses included: nothing a Go value holds is lost or
\* reinterpreted on the way out and in.
RoundTrip == (step = "again" /\ got.got # "error") => back = got

\* What is not, by the literal that names it and by its required keys, a value
\* of some variant (an unknown method, item type or enum string, a known one
\* without a required key, another JSON kind) is kept and written back unchanged,
\* never taken for a variant and never an error; a union is refused only for a
\* value of the wrong type.
UnknownKept ==
    (Decoded /\ name \in DOMAIN Unions /\ Distinguishable(Unions[name])) =>
        /\ (\A i \in DOMAIN Unions[name] : ~Recognises(Unions[name][i], sent)) =>
               got.got = "unknown" /\ (Encoded => wire = sent)
        /\ got.got = "error" => sent.bad # {}

\* A payload the schema describes comes out of a successful decoding and
\* encoding with every key it was sent with that its own variant has
\* (acceptance-test-spec.md, PROTO-006: "without ... data loss after
\* successful round-trip").
NoDataLoss ==
    (Encoded /\ got.got # "error") =>
        \A i \in Meant : sent.keys \cap Known(Unions[name][i]) \subseteq wire.keys
=============================================================================
