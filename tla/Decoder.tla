------------------------------ MODULE Decoder ------------------------------
(***************************************************************************)
(* The JSON decoders of package protocol: what the generator of            *)
(* cmd/codex-sdk-gen (protocolgen.go) makes of a oneOf/anyOf of the schema,*)
(* and what the generated UnmarshalJSON and MarshalJSON do with a value.   *)
(*                                                                         *)
(* A schema union is a sequence of variants; a variant is a record         *)
(*   shape   what the schema node is: "object", "string", "array",         *)
(*           "integer" or "ref" (a bare $ref)                              *)
(*   by, tag the property whose one-element enum names the variant, and    *)
(*           that element ("" where the schema has none)                   *)
(*   texts   the enum of a string variant ({}: any string)                 *)
(*   req,opt the required and the optional properties of an object         *)
(*   strict  the required properties that may be null                      *)
(*   extras  additionalProperties are kept                                 *)
(*                                                                         *)
(* A JSON value is abstracted to its kind; its text, which of an object is *)
(* the string held by the property that names its variant ("" when that is *)
(* no string); the keys of an object; and the keys whose value the Go type *)
(* of the field does not accept.                                           *)
(***************************************************************************)
EXTENDS Naturals, Sequences

Shapes == {"object", "string", "array", "integer", "ref"}

Kinds == {"object", "string", "array", "number", "bool", "null"}

Variant(shape, by, tag, texts, req, opt, strict, extras) ==
    [shape |-> shape, by |-> by, tag |-> tag, texts |-> texts, req |-> req,
     opt |-> opt, strict |-> strict, extras |-> extras]

Variants == [shape : Shapes, by : STRING, tag : STRING,
             texts : SUBSET STRING, req : SUBSET STRING, opt : SUBSET STRING,
             strict : SUBSET STRING, extras : BOOLEAN]

JSON(kind, text, keys, bad) ==
    [kind |-> kind, text |-> text, keys |-> keys, bad |-> bad]

Values == [kind : Kinds, text : STRING, keys : SUBSET STRING, bad : SUBSET STRING]

Known(v) == v.req \cup v.opt

(***************************************************************************)
(* protocolgen.go.  Only "type" and "method" are looked at as              *)
(* discriminators, and only when every variant has the same one.           *)
(***************************************************************************)
variantDiscriminator(v) == IF v.by \in {"type", "method"} THEN v.by ELSE ""

detectDiscriminator(u) ==
    CASE \A i \in DOMAIN u : variantDiscriminator(u[i]) = "type" -> "type"
      [] \A i \in DOMAIN u : variantDiscriminator(u[i]) = "method" -> "method"
      [] OTHER -> ""

\* Mutant: an object is told by its kind alone, without its required keys.
KindOnly(v, j) ==
    \/ v.shape = "object" /\ j.kind = "object"
    \/ v.shape = "string" /\ j.kind = "string" /\ (v.texts = {} \/ j.text \in v.texts)
    \/ v.shape = "array" /\ j.kind = "array"
    \/ v.shape = "integer" /\ j.kind = "number"

\* The condition unionCheck writes for a variant; a $ref gets none.
unionCheck(v, j) ==
    \/ v.shape = "object" /\ j.kind = "object" /\ v.req \subseteq j.keys
    \/ v.shape = "string" /\ j.kind = "string" /\ (v.texts = {} \/ j.text \in v.texts)
    \/ v.shape = "array" /\ j.kind = "array"
    \/ v.shape = "integer" /\ j.kind = "number"

(***************************************************************************)
(* The results of UnmarshalJSON: the union's Value and Raw (kept in json,  *)
(* what MarshalJSON writes), or an error, which leaves Value nil and Raw   *)
(* set.                                                                    *)
(***************************************************************************)
Unknown(j) == [got |-> "unknown", at |-> 0, json |-> j]

Refused(j) == [got |-> "error", at |-> 0, json |-> j]

\* variantInfo: a string without enum, an array and a number are kept raw.
Raw(v) == v.shape \in {"array", "integer"} \/ (v.shape = "string" /\ v.texts = {})

\* Mutant: required-nullable fields are tagged omitempty, so a null is not
\* written.
OmitNull(v, j) ==
    IF v.shape = "object"
    THEN JSON("object", j.text,
              (v.req \ v.strict) \cup (IF v.extras THEN j.keys ELSE j.keys \cap v.opt), {})
    ELSE j

\* What a decoded Go value holds: a struct has all its required fields, the
\* optional ones that were sent and, in Extras, the keys it does not know.
Holds(v, j) ==
    IF v.shape = "object"
    THEN JSON("object", j.text,
              v.req \cup (IF v.extras THEN j.keys ELSE j.keys \cap v.opt), {})
    ELSE j

\* json.Unmarshal(data, &v) for variant i, and the generated UnmarshalJSON of
\* structs with required-nullable fields.
Parse(v, i, j) ==
    IF Raw(v) THEN Unknown(j)
    ELSE IF j.bad \cap Known(v) # {} \/ ~(v.strict \subseteq j.keys) THEN Refused(j)
    ELSE [got |-> "value", at |-> i, json |-> Holds(v, j)]

\* The generated UnmarshalJSON of a union (emitUnionType).
Tagged(u, j) == {i \in DOMAIN u : u[i].tag = j.text /\ u[i].tag # "" /\ unionCheck(u[i], j)}

Shaped(u, j) == {i \in DOMAIN u : unionCheck(u[i], j)}

First(S) == CHOOSE i \in S : \A k \in S : i <= k

HasField(j, f) == f # "" /\ j.kind = "object" /\ f \in j.keys

\* Mutant: a discriminator that names no variant falls through to the shapes.
FallThrough(u, j) ==
    LET f == detectDiscriminator(u)
        S == IF HasField(j, f) /\ Tagged(u, j) # {} THEN Tagged(u, j) ELSE Shaped(u, j)
    IN  IF S = {} THEN Unknown(j) ELSE Parse(u[First(S)], First(S), j)

Decode(u, j) ==
    LET f == detectDiscriminator(u)
        S == IF HasField(j, f) THEN Tagged(u, j) ELSE Shaped(u, j)
    IN  IF S = {} THEN Unknown(j) ELSE Parse(u[First(S)], First(S), j)

\* Decoding into one struct: a JSON null leaves it empty.
DecodeStruct(v, j) ==
    IF j.kind \in {"object", "null"}
    THEN Parse(v, 1, JSON("object", j.text, j.keys, j.bad))
    ELSE Refused(j)

(***************************************************************************)
(* Which variant the schema means, and when the decoders can tell.         *)
(***************************************************************************)
\* j is a value of variant v as the schema describes it, with possibly keys
\* that are in no variant (strangers).
InstanceOf(v, j, strangers) ==
    CASE v.shape = "object" ->
           /\ j.kind = "object" /\ v.req \subseteq j.keys
           /\ j.keys \subseteq Known(v) \cup strangers
           /\ j.text = v.tag /\ j.bad = {}
      [] v.shape = "string" ->
           /\ j.kind = "string" /\ j.bad = {}
           /\ v.texts = {} \/ j.text \in v.texts
      [] v.shape = "array" -> j.kind = "array" /\ j.bad = {}
      [] v.shape = "integer" -> j.kind = "number" /\ j.bad = {}
      [] OTHER -> FALSE

\* j has the shape of variant v and the literal that names it.
Recognises(v, j) == unionCheck(v, j) /\ (v.by # "" => j.text = v.tag)

\* A value of a later variant is never taken by an earlier one.
Apart(v, w) ==
    \/ v.shape # w.shape \/ v.shape = "ref"
    \/ v.shape = "object" /\ ~(v.req \subseteq Known(w))
    \/ v.shape = "string" /\ v.texts # {} /\ w.texts # {} /\ v.texts \cap w.texts = {}

Distinguishable(u) ==
    \/ /\ detectDiscriminator(u) # ""
       /\ \A i \in DOMAIN u : u[i].shape = "object" /\ u[i].tag # "" /\ u[i].by \in u[i].req
       /\ \A i, k \in DOMAIN u : u[i].tag = u[k].tag => i = k
    \/ /\ detectDiscriminator(u) = ""
       /\ \A i \in DOMAIN u : u[i].by = ""
       /\ \A i, k \in DOMAIN u : i < k => Apart(u[i], u[k])
=============================================================================
