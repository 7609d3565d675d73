----------------------------- MODULE WireProofs -----------------------------
(***************************************************************************)
(* Proofs about module Wire, for every table of unions and structs that    *)
(* satisfies WireAssumption: decoding an encoded value gives it back,      *)
(* unions whose variants can be told apart decode every instance as its    *)
(* own variant, and keep what they do not recognise.                       *)
(***************************************************************************)
EXTENDS Wire, WellFoundedInduction, TLAPS

(***************************************************************************)
(* The first case that matches.                                            *)
(***************************************************************************)
\* The least element of a set of positions is First of it.
LEMMA FirstIs ==
    ASSUME NEW S \in SUBSET Nat, NEW i \in S, \A k \in S : i <= k
    PROVE  First(S) = i
<1>1. \A k \in S : (\A l \in S : k <= l) => k = i
  OBVIOUS
<1>2. \E k \in S : \A l \in S : k <= l
  OBVIOUS
<1> QED
  BY <1>1, <1>2 DEF First

\* A non-empty set of positions has a least element, and First is it.
LEMMA FirstLeast ==
    ASSUME NEW S \in SUBSET Nat, S # {}
    PROVE  First(S) \in S /\ \A k \in S : First(S) <= k
<1>1. PICK i \in S : \A k \in S : ~(<<k, i>> \in OpToRel(<, Nat))
  BY NatLessThanWellFounded, WFMin, Zenon
<1>2. \A k \in S : ~(k < i)
  BY <1>1 DEF OpToRel
<1>3. \A k \in S : i <= k
  BY <1>2
<1> QED
  BY <1>3, FirstIs

(***************************************************************************)
(* Decoding what was encoded.                                              *)
(***************************************************************************)
\* The cases that may match a payload.
Matches(u, j) == IF HasField(j, detectDiscriminator(u)) THEN Tagged(u, j) ELSE Shaped(u, j)

\* What matches is a position of the union, a natural number.
LEMMA MatchesType ==
    ASSUME NEW u \in Seq(Variants), NEW j
    PROVE  /\ Matches(u, j) \in SUBSET Nat
           /\ \A i \in Matches(u, j) : i \in DOMAIN u /\ unionCheck(u[i], j)
<1>1. DOMAIN u \subseteq Nat
  OBVIOUS
<1> QED
  BY <1>1 DEF Matches, Tagged, Shaped

\* Decode by its matches.
LEMMA DecodeCases ==
    ASSUME NEW u, NEW j
    PROVE  /\ Matches(u, j) = {} => Decode(u, j) = Unknown(j)
           /\ Matches(u, j) # {} =>
                Decode(u, j) = Parse(u[First(Matches(u, j))], First(Matches(u, j)), j)
BY DEF Decode, Matches

\* A discriminator that was found names every variant.
LEMMA DiscriminatorNames ==
    ASSUME NEW u, NEW i \in DOMAIN u, detectDiscriminator(u) # ""
    PROVE  u[i].by = detectDiscriminator(u)
BY DEF detectDiscriminator, variantDiscriminator

\* The payload that a decoded struct is written as passes the checks of the
\* variant it was decoded as, and of no variant that the original did not pass.
LEMMA HeldMatches ==
    ASSUME NEW u \in Seq(Variants), \A i \in DOMAIN u : WellFormed(u[i]), NEW j,
           NEW i \in Matches(u, j), u[i].shape = "object"
    PROVE  /\ i \in Matches(u, Holds(u[i], j))
           /\ Matches(u, Holds(u[i], j)) \subseteq Matches(u, j)
<1> DEFINE h == Holds(u[i], j)
           f == detectDiscriminator(u)
<1>1. i \in DOMAIN u /\ unionCheck(u[i], j)
  BY MatchesType
<1>2. j.kind = "object" /\ u[i].req \subseteq j.keys
  BY <1>1 DEF unionCheck
<1>3. /\ h.kind = "object" /\ h.text = j.text
      /\ u[i].req \subseteq h.keys /\ h.keys \subseteq j.keys
      /\ h.keys = u[i].req \cup (IF u[i].extras THEN j.keys ELSE j.keys \cap u[i].opt)
  BY <1>2 DEF Holds, JSON
<1>4. f # "" => (f \in h.keys <=> f \in j.keys)
  <2> SUFFICES ASSUME f # "", f \in j.keys PROVE f \in h.keys
    BY <1>3
  <2>1. u[i].by = f
    BY <1>1, DiscriminatorNames
  <2>2. f \in Known(u[i])
    BY <2>1, <1>1 DEF WellFormed
  <2> QED
    BY <1>3, <2>2 DEF Known
<1>5. HasField(h, f) <=> HasField(j, f)
  BY <1>2, <1>3, <1>4 DEF HasField
<1>6. \A k \in DOMAIN u : unionCheck(u[k], h) => unionCheck(u[k], j)
  BY <1>2, <1>3 DEF unionCheck
<1>7. unionCheck(u[i], h)
  BY <1>3 DEF unionCheck
<1> HIDE DEF h, f
<1>8. i \in Matches(u, h)
  <2>1. CASE HasField(j, f)
    BY <1>1, <1>3, <1>5, <1>7, <2>1 DEF Matches, Tagged, f
  <2>2. CASE ~HasField(j, f)
    BY <1>1, <1>5, <1>7, <2>2 DEF Matches, Shaped, f
  <2> QED
    BY <2>1, <2>2
<1>9. Matches(u, h) \subseteq Matches(u, j)
  <2>1. CASE HasField(j, f)
    BY <1>3, <1>5, <1>6, <2>1 DEF Matches, Tagged, f
  <2>2. CASE ~HasField(j, f)
    BY <1>5, <1>6, <2>2 DEF Matches, Shaped, f
  <2> QED
    BY <2>1, <2>2
<1> QED
  BY <1>8, <1>9 DEF h

\* A struct that holds what it was parsed from parses back to itself.
LEMMA ParseHeld ==
    ASSUME NEW v, WellFormed(v), v.shape = "object", NEW i, NEW j,
           Parse(v, i, j).got # "error"
    PROVE  /\ Parse(v, i, j) = [got |-> "value", at |-> i, json |-> Holds(v, j)]
           /\ Parse(v, i, Holds(v, j)) = Parse(v, i, j)
<1>1. ~Raw(v)
  BY DEF Raw
<1>2. Parse(v, i, j) = [got |-> "value", at |-> i, json |-> Holds(v, j)]
  BY <1>1 DEF Parse, Refused
<1> DEFINE h == Holds(v, j)
<1>3. /\ h = JSON("object", j.text, h.keys, {}) /\ h.bad = {} /\ h.text = j.text
      /\ h.keys = v.req \cup (IF v.extras THEN j.keys ELSE j.keys \cap v.opt)
  BY DEF Holds, JSON
<1>4. v.strict \subseteq h.keys
  BY <1>3 DEF WellFormed
<1>5. v.req \cup (IF v.extras THEN h.keys ELSE h.keys \cap v.opt) = h.keys
  BY <1>3
<1>6. Holds(v, h) = h
  BY <1>3, <1>5 DEF Holds
<1> HIDE DEF h
<1>7. Parse(v, i, h) = [got |-> "value", at |-> i, json |-> h]
  BY <1>1, <1>3, <1>4, <1>6 DEF Parse
<1> QED
  BY <1>2, <1>7 DEF h

\* Decode gives an encoded value back.
LEMMA DecodeEncoded ==
    ASSUME NEW u \in Seq(Variants), \A i \in DOMAIN u : WellFormed(u[i]), NEW j,
           Decode(u, j).got # "error"
    PROVE  Decode(u, Decode(u, j).json) = Decode(u, j)
<1>1. CASE Matches(u, j) = {}
  BY <1>1, DecodeCases DEF Unknown
<1>2. CASE Matches(u, j) # {}
  <2> DEFINE i == First(Matches(u, j))
  <2>1. i \in Matches(u, j) /\ \A k \in Matches(u, j) : i <= k
    BY <1>2, MatchesType, FirstLeast
  <2>2. i \in DOMAIN u /\ unionCheck(u[i], j)
    BY <2>1, MatchesType
  <2>3. Decode(u, j) = Parse(u[i], i, j)
    BY <1>2, DecodeCases
  <2> HIDE DEF i
  <2>4. CASE u[i].shape # "object"
    <3>1. Holds(u[i], j) = j
      BY <2>4 DEF Holds
    <3>2. Decode(u, j).json = j
      BY <2>3, <3>1 DEF Parse, Unknown, Refused
    <3> QED
      BY <3>2
  <2>5. CASE u[i].shape = "object"
    <3> DEFINE h == Holds(u[i], j)
    <3>1. /\ Decode(u, j).json = h
          /\ Parse(u[i], i, h) = Decode(u, j)
      BY <2>2, <2>3, <2>5, ParseHeld
    <3>2. i \in Matches(u, h) /\ Matches(u, h) \subseteq Matches(u, j)
      BY <2>1, <2>5, HeldMatches
    <3>3. Matches(u, h) \in SUBSET Nat /\ \A k \in Matches(u, h) : i <= k
      BY <2>1, <3>2, MatchesType
    <3> HIDE DEF h
    <3>4. First(Matches(u, h)) = i
      BY <3>2, <3>3, FirstIs
    <3>5. Decode(u, h) = Parse(u[i], i, h)
      BY <3>2, <3>4, DecodeCases
    <3> QED
      BY <3>1, <3>5
  <2> QED
    BY <2>4, <2>5
<1> QED
  BY <1>1, <1>2

\* DecodeStruct does too.
LEMMA DecodeStructEncoded ==
    ASSUME NEW v, WellFormed(v), v.shape = "object", NEW j,
           DecodeStruct(v, j).got # "error"
    PROVE  DecodeStruct(v, DecodeStruct(v, j).json) = DecodeStruct(v, j)
<1> DEFINE o == JSON("object", j.text, j.keys, j.bad)
           h == Holds(v, o)
<1>1. DecodeStruct(v, j) = Parse(v, 1, o)
  BY DEF DecodeStruct, Refused
<1>2. /\ DecodeStruct(v, j).json = h
      /\ Parse(v, 1, h) = DecodeStruct(v, j)
  BY <1>1, ParseHeld
<1>3. h.kind = "object" /\ h = JSON("object", h.text, h.keys, h.bad)
  BY DEF Holds, JSON
<1> HIDE DEF h
<1>4. DecodeStruct(v, h) = Parse(v, 1, h)
  BY <1>3 DEF DecodeStruct
<1> QED
  BY <1>2, <1>4

(***************************************************************************)
(* Unions whose variants can be told apart.                                *)
(***************************************************************************)
\* In a union switched on a discriminator, every object that passes a check has
\* the discriminator, and nothing else passes.
LEMMA Discriminated ==
    ASSUME NEW u \in Seq(Variants), detectDiscriminator(u) # "", Distinguishable(u),
           NEW j, NEW k \in DOMAIN u, unionCheck(u[k], j)
    PROVE  HasField(j, detectDiscriminator(u))
<1>1. u[k].shape = "object" /\ u[k].by \in u[k].req
  BY DEF Distinguishable
<1>2. u[k].by = detectDiscriminator(u)
  BY DiscriminatorNames
<1> QED
  BY <1>1, <1>2 DEF unionCheck, HasField

\* An earlier variant never takes a later one's payload.
LEMMA ApartChecks ==
    ASSUME NEW v, NEW w, WellFormed(v), WellFormed(w), Apart(v, w), NEW j,
           InstanceOf(w, j, {Stranger})
    PROVE  ~unionCheck(v, j)
<1>1. w.shape \in Shapes /\ v.shape \in Shapes
  BY DEF WellFormed, Variants
<1>2. CASE w.shape = "object"
  <2>1. j.kind = "object" /\ j.keys \subseteq Known(w) \cup {Stranger}
    BY <1>2 DEF InstanceOf
  <2>2. Stranger \notin v.req
    BY DEF WellFormed, Known
  <2> QED
    BY <1>2, <2>1, <2>2 DEF Apart, unionCheck
<1>3. CASE w.shape = "string"
  <2>1. j.kind = "string" /\ (w.texts = {} \/ j.text \in w.texts)
    BY <1>3 DEF InstanceOf
  <2> QED
    BY <1>3, <2>1 DEF Apart, unionCheck
<1>4. CASE w.shape = "array"
  <2>1. j.kind = "array"
    BY <1>4 DEF InstanceOf
  <2> QED
    BY <1>4, <2>1 DEF Apart, unionCheck
<1>5. CASE w.shape = "integer"
  <2>1. j.kind = "number"
    BY <1>5 DEF InstanceOf
  <2> QED
    BY <1>5, <2>1 DEF Apart, unionCheck
<1>6. CASE w.shape = "ref"
  BY <1>6 DEF InstanceOf
<1> QED
  BY <1>1, <1>2, <1>3, <1>4, <1>5, <1>6 DEF Shapes

\* What an instance of a variant is.
LEMMA InstancePasses ==
    ASSUME NEW v, WellFormed(v), NEW j, InstanceOf(v, j, {Stranger})
    PROVE  /\ unionCheck(v, j) /\ j.bad = {} /\ v.strict \subseteq j.keys
           /\ v.shape = "object" => j.text = v.tag
<1>1. v.shape \in Shapes /\ (v.shape # "object" => v.strict = {})
  BY DEF WellFormed, Variants
<1>2. CASE v.shape = "object"
  <2>1. /\ j.kind = "object" /\ v.req \subseteq j.keys
        /\ j.text = v.tag /\ j.bad = {}
    BY <1>2 DEF InstanceOf
  <2> QED
    BY <1>2, <2>1 DEF unionCheck, WellFormed
<1>3. CASE v.shape = "string"
  BY <1>1, <1>3 DEF InstanceOf, unionCheck
<1>4. CASE v.shape = "array"
  BY <1>1, <1>4 DEF InstanceOf, unionCheck
<1>5. CASE v.shape = "integer"
  BY <1>1, <1>5 DEF InstanceOf, unionCheck
<1>6. CASE v.shape = "ref"
  BY <1>6 DEF InstanceOf
<1> QED
  BY <1>1, <1>2, <1>3, <1>4, <1>5, <1>6 DEF Shapes

\* An instance of a variant is decoded as that variant.
LEMMA DecodeInstance ==
    ASSUME NEW u \in Seq(Variants), \A i \in DOMAIN u : WellFormed(u[i]),
           Distinguishable(u), NEW j, NEW i \in DOMAIN u,
           InstanceOf(u[i], j, {Stranger})
    PROVE  Decode(u, j) = Parse(u[i], i, j) /\ Decode(u, j).got # "error"
<1>1. /\ unionCheck(u[i], j) /\ j.bad = {} /\ u[i].strict \subseteq j.keys
      /\ u[i].shape = "object" => j.text = u[i].tag
  BY InstancePasses
<1>2. i \in Matches(u, j) /\ \A k \in Matches(u, j) : i <= k
  <2>1. CASE detectDiscriminator(u) # ""
    <3>1. HasField(j, detectDiscriminator(u))
      BY <1>1, <2>1, Discriminated
    <3>2. /\ u[i].shape = "object" /\ u[i].tag # ""
          /\ \A k \in DOMAIN u : u[k].tag = u[i].tag => k = i
      BY <2>1 DEF Distinguishable
    <3>3. Tagged(u, j) = {i}
      BY <1>1, <3>2 DEF Tagged
    <3>4. i <= i
      OBVIOUS
    <3> QED
      BY <3>1, <3>3, <3>4 DEF Matches
  <2>2. CASE detectDiscriminator(u) = ""
    <3>1. Matches(u, j) = Shaped(u, j)
      BY <2>2 DEF Matches, HasField
    <3>2. \A k \in DOMAIN u : k < i => ~unionCheck(u[k], j)
      <4> SUFFICES ASSUME NEW k \in DOMAIN u, k < i PROVE ~unionCheck(u[k], j)
        OBVIOUS
      <4>1. Apart(u[k], u[i])
        BY <2>2 DEF Distinguishable
      <4> QED
        BY <4>1, ApartChecks
    <3>3. DOMAIN u \subseteq Nat
      OBVIOUS
    <3> QED
      BY <1>1, <3>1, <3>2, <3>3 DEF Shaped
  <2> QED
    BY <2>1, <2>2
<1>3. First(Matches(u, j)) = i
  BY <1>2, FirstIs, MatchesType
<1>4. Decode(u, j) = Parse(u[i], i, j)
  BY <1>2, <1>3, DecodeCases
<1>5. Parse(u[i], i, j).got # "error"
  BY <1>1 DEF Parse, Unknown
<1> QED
  BY <1>4, <1>5

\* What no variant recognises stays unknown, and only a value of the wrong type
\* is an error.
LEMMA DecodeUnknown ==
    ASSUME NEW u \in Seq(Variants), \A i \in DOMAIN u : WellFormed(u[i]),
           Distinguishable(u), NEW j
    PROVE  /\ (\A i \in DOMAIN u : ~Recognises(u[i], j)) => Decode(u, j) = Unknown(j)
           /\ Decode(u, j).got = "error" => j.bad # {}
<1>1. ASSUME \A i \in DOMAIN u : ~Recognises(u[i], j)
      PROVE  Decode(u, j) = Unknown(j)
  <2> SUFFICES Matches(u, j) = {}
    BY DecodeCases
  <2>1. CASE detectDiscriminator(u) # ""
    <3>1. ASSUME ~HasField(j, detectDiscriminator(u)) PROVE Shaped(u, j) = {}
      BY <2>1, <3>1, Discriminated DEF Shaped
    <3>2. Tagged(u, j) = {}
      BY <1>1 DEF Tagged, Recognises
    <3> QED
      BY <3>1, <3>2 DEF Matches
  <2>2. CASE detectDiscriminator(u) = ""
    <3>1. \A i \in DOMAIN u : u[i].by = ""
      BY <2>2 DEF Distinguishable
    <3> QED
      BY <1>1, <2>2, <3>1 DEF Matches, HasField, Shaped, Recognises
  <2> QED
    BY <2>1, <2>2
<1>2. ASSUME Decode(u, j).got = "error" PROVE j.bad # {}
  <2>1. Matches(u, j) # {}
    BY <1>2, DecodeCases DEF Unknown
  <2>2. PICK i \in Matches(u, j) : Decode(u, j) = Parse(u[i], i, j)
    BY <2>1, DecodeCases, FirstLeast, MatchesType
  <2>3. i \in DOMAIN u /\ unionCheck(u[i], j)
    BY MatchesType
  <2>4. u[i].strict \subseteq j.keys
    BY <2>3 DEF WellFormed, unionCheck
  <2> QED
    BY <1>2, <2>2, <2>4 DEF Parse, Unknown
<1> QED
  BY <1>1, <1>2

(***************************************************************************)
(* The specification.                                                      *)
(***************************************************************************)
\* What the variables hold after each step.
WireInv ==
    /\ Decoded => name \in Types /\ got = DecodeAs(name, sent)
    /\ Encoded => wire = got.json
    /\ step = "again" => back = DecodeAs(name, wire)

LEMMA WireInvariant == Spec => []WireInv
<1>1. Init => WireInv
  BY DEF Init, WireInv, Decoded, Encoded
<1>2. name \in Types /\ WireInv /\ [Next]_vars => WireInv'
  <2> SUFFICES ASSUME name \in Types, WireInv, [Next]_vars PROVE WireInv'
    OBVIOUS
  <2> USE DEF WireInv, Decoded, Encoded
  <2>1. ASSUME NEW n \in Types, Send(n) PROVE WireInv'
    BY <2>1 DEF Send
  <2>2. CASE UnmarshalJSON
    BY <2>2 DEF UnmarshalJSON
  <2>3. CASE Drop
    BY <2>3 DEF Drop
  <2>4. CASE MarshalJSON
    BY <2>4 DEF MarshalJSON
  <2>5. CASE UnmarshalAgain
    BY <2>5 DEF UnmarshalAgain
  <2>6. CASE UNCHANGED vars
    BY <2>6 DEF vars
  <2> QED
    BY <2>1, <2>2, <2>3, <2>4, <2>5, <2>6 DEF Next
<1>3. Init => name \in Types
  BY DEF Init
<1>4. name \in Types /\ [Next]_vars => (name \in Types)'
  BY DEF Next, Send, UnmarshalJSON, Drop, MarshalJSON, UnmarshalAgain, vars
<1> QED
  BY <1>1, <1>2, <1>3, <1>4, PTL DEF Spec

\* RoundTrip for every table: decoding what MarshalJSON wrote gives back the
\* value it was written from.
THEOREM RoundTripCorrect == Spec => []RoundTrip
<1>1. WireInv => RoundTrip
  <2> SUFFICES ASSUME WireInv, step = "again", got.got # "error" PROVE back = got
    BY DEF RoundTrip
  <2>1. /\ name \in Types /\ got = DecodeAs(name, sent)
        /\ back = DecodeAs(name, got.json)
    BY DEF WireInv, Decoded, Encoded
  <2>2. CASE name \in DOMAIN Unions
    BY <2>1, <2>2, WireAssumption, DecodeEncoded DEF DecodeAs
  <2>3. CASE name \notin DOMAIN Unions
    BY <2>1, <2>3, WireAssumption, DecodeStructEncoded DEF DecodeAs, Types
  <2> QED
    BY <2>2, <2>3
<1> QED
  BY <1>1, WireInvariant, PTL

\* DecodesOwn for every table: where variants can be told apart, UnmarshalJSON
\* takes an instance of each for what it is.
THEOREM DecodesOwnCorrect == Spec => []DecodesOwn
<1>1. WireInv => DecodesOwn
  <2> SUFFICES ASSUME WireInv, Decoded, name \in DOMAIN Unions,
                      Distinguishable(Unions[name]), NEW i \in Meant
               PROVE  got = Parse(Unions[name][i], i, sent) /\ got.got # "error"
    BY DEF DecodesOwn
  <2>1. got = Decode(Unions[name], sent)
    BY DEF WireInv, DecodeAs
  <2>2. i \in DOMAIN Unions[name] /\ InstanceOf(Unions[name][i], sent, {Stranger})
    BY DEF Meant
  <2> QED
    BY <2>1, <2>2, WireAssumption, DecodeInstance
<1> QED
  BY <1>1, WireInvariant, PTL

\* UnknownKept for every table: what UnmarshalJSON does not recognise is kept
\* raw and written back as it came.
THEOREM UnknownKeptCorrect == Spec => []UnknownKept
<1>1. WireInv => UnknownKept
  <2> SUFFICES ASSUME WireInv, Decoded, name \in DOMAIN Unions, Distinguishable(Unions[name])
               PROVE  /\ (\A i \in DOMAIN Unions[name] : ~Recognises(Unions[name][i], sent)) =>
                            got.got = "unknown" /\ (Encoded => wire = sent)
                      /\ got.got = "error" => sent.bad # {}
    BY DEF UnknownKept
  <2>1. got = Decode(Unions[name], sent) /\ (Encoded => wire = got.json)
    BY DEF WireInv, DecodeAs
  <2>2. /\ (\A i \in DOMAIN Unions[name] : ~Recognises(Unions[name][i], sent)) =>
             Decode(Unions[name], sent) = Unknown(sent)
        /\ Decode(Unions[name], sent).got = "error" => sent.bad # {}
    BY WireAssumption, DecodeUnknown
  <2> QED
    BY <2>1, <2>2 DEF Unknown
<1> QED
  BY <1>1, WireInvariant, PTL
=============================================================================
