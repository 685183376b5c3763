---------------------------- MODULE CedarRequest ----------------------------
(***************************************************************************
 build_cedar_request (engine/src/cedar.rs): the policy input becomes the
 principal, action, resource and context of a Cedar request.

 A JSON value is a record whose t is its type.  A float is written in halves
 of the last decimal place, so that every tie is a number here; what the code
 computes with is the binary float next to it.
 ***************************************************************************)
EXTENDS Integers, Sequences

CONSTANTS
    LongMax,        \* i64::MAX, which also bounds a decimal's scaled value
    DecimalScale,   \* 10^4: a decimal's fractional digits, as a factor
    Precision,      \* 53: the bits of a float's significand
    Exponents       \* of the last of those bits, wide enough for every float at hand

ASSUME WidthAssumption ==
    LongMax \in Nat /\ DecimalScale \in Nat \ {0} /\ Precision \in Nat \ {0} /\ Exponents \subseteq Int

CEDAR_RESERVED_KEYS == {"__entity", "__extn", "__expr"}

Null == [t |-> "null"]
Str(s) == [t |-> "str", s |-> s]
Obj(members) == [t |-> "obj", members |-> members]
Arr(items) == [t |-> "arr", items |-> items]
\* What serde_json makes of a number: an integer of 64 bits, or a float.
Whole(n) == IF n < -LongMax - 1 THEN [t |-> "float", halves |-> 2 * DecimalScale * n]
          ELSE IF n <= LongMax THEN [t |-> "int", n |-> n] ELSE [t |-> "uint", n |-> n]
Float(halves) == [t |-> "float", halves |-> halves]

Failed == [ok |-> FALSE]
Ok(value) == [ok |-> TRUE, value |-> value]
Get(object, key) == IF key \in DOMAIN object THEN object[key] ELSE Null
NoMembers == [key \in {} |-> Null]
Members(value) == IF value.t = "obj" THEN value.members ELSE NoMembers

-----------------------------------------------------------------------------
Abs(n) == IF n < 0 THEN -n ELSE n

\* Floats are fractions.
Fractions == [n : Int, d : Nat \ {0}]
Fraction(n, d) == [n |-> n, d |-> d]

\* f64::round_ties_even: the nearest integer, and of two as near the even one.
round_ties_even[x \in Fractions] ==
    LET below == x.n \div x.d
        twice == 2 * (x.n % x.d)
    IN  IF twice < x.d \/ (twice = x.d /\ below % 2 = 0) THEN below ELSE below + 1

\* The float next to a fraction keeps Precision bits of it, the last worth 2^e.
Scaled[x \in Fractions, e \in Int] ==
    IF e < 0 THEN Fraction(x.n, x.d * 2^(-e)) ELSE Fraction(x.n * 2^e, x.d)
Magnitude[x \in Fractions] == Abs(x.n) \div x.d
LastPlace[x \in Fractions] ==
    CHOOSE e \in Exponents : Magnitude[Scaled[x, -e]] \in 2^(Precision - 1)..(2^Precision - 1)
RoundedAt[x \in Fractions, e \in Int] == Scaled[Fraction(round_ties_even[Scaled[x, -e]], 1), e]
NearestFloat[x \in Fractions] == IF x.n = 0 THEN x ELSE RoundedAt[x, LastPlace[x]]

\* The f64 that a number's text is read as, and its product with DECIMAL_SCALE.
as_f64(halves) == NearestFloat[Fraction(halves, 2 * DecimalScale)]
scale(value) == NearestFloat[Fraction(value.n * DecimalScale, value.d)]

\* The literal: sign, integer part and a fraction of fixed width.
Literal[scaled \in Int] ==
    IF Abs(scaled) >= LongMax + 1 THEN Failed
    ELSE Ok([minus |-> scaled < 0, whole |-> Abs(scaled) \div DecimalScale,
             fraction |-> Abs(scaled) % DecimalScale])

\* Mutant: the sign is left to the integer part, which is 0 for a small fraction.
SignedPart[scaled \in Int] ==
    IF ~Literal[scaled].ok THEN Failed
    ELSE LET literal == Literal[scaled].value
         IN  Ok([literal EXCEPT !.minus = @ /\ literal.whole # 0])
float_to_decimal_signed_part(value) == SignedPart[round_ties_even[scale(value)]]

float_to_decimal(value) == Literal[round_ties_even[scale(value)]]

\* A decimal travels as {"__extn": {"fn": "decimal", "arg": literal}}.
Extension(literal) == Obj([__extn |-> [t |-> "decimal_call", literal |-> literal]])

number_to_cedar(number) ==
    CASE number.t = "int" -> Ok(number)
      [] number.t = "uint" -> Failed
      [] OTHER -> LET decimal == float_to_decimal(as_f64(number.halves))
                  IN  IF decimal.ok THEN Ok(Extension(decimal.value)) ELSE Failed

RECURSIVE to_cedar_value(_, _)

\* A null member is dropped: it comes back as Null.
translate_record(members) ==
    LET out == [key \in DOMAIN members |-> to_cedar_value(members[key], key)]
    IN  IF \E key \in DOMAIN out : ~out[key].ok THEN Failed
        ELSE Ok([key \in {k \in DOMAIN out : out[k].value # Null} |-> out[key].value])

to_cedar_value(value, key) ==
    IF key \in CEDAR_RESERVED_KEYS THEN Failed
    ELSE CASE value.t \in {"int", "uint", "float"} -> number_to_cedar(value)
           [] value.t = "arr" ->
                LET out == [i \in DOMAIN value.items |-> to_cedar_value(value.items[i], "")]
                IN  IF \E i \in DOMAIN out : ~out[i].ok \/ out[i].value = Null THEN Failed
                    ELSE Ok(Arr([i \in DOMAIN out |-> out[i].value]))
           [] value.t = "obj" ->
                LET out == translate_record(value.members)
                IN  IF out.ok THEN Ok(Obj(out.value)) ELSE Failed
           [] OTHER -> Ok(value)

\* The snapshot with the annotations nested under a key of their own.
build_cedar_context(snapshot, annotations) ==
    IF "annotations" \in DOMAIN snapshot \/ annotations.t \notin {"null", "obj"} THEN Failed
    ELSE LET context == translate_record(snapshot)
             nested == translate_record(Members(annotations))
         IN  IF ~context.ok \/ ~nested.ok THEN Failed
             ELSE Ok([key \in DOMAIN context.value \cup {"annotations"} |->
                        IF key = "annotations" THEN Obj(nested.value) ELSE context.value[key]])

-----------------------------------------------------------------------------
agent_id(object) == Get(Members(Get(object, "agent")), "id")

\* agent.id of the wire shape, else envelope.agent.id; Null when neither is a string.
principal_id(snapshot) ==
    IF agent_id(snapshot).t = "str" THEN agent_id(snapshot)
    ELSE LET legacy == agent_id(Members(Get(snapshot, "envelope")))
         IN  IF legacy.t = "str" THEN legacy ELSE Null

\* The projected tool names the resource, else the kind of the policy target.
resource_entity(input) ==
    IF input.tool # "none" THEN <<"Tool", input.tool>> ELSE <<"PolicyTarget", input.kind>>

\* entity_uid takes the two parts of an entity as they are.
build_cedar_request(input) ==
    LET id == principal_id(input.snapshot)
        context == build_cedar_context(input.snapshot, input.annotations)
    IN  IF id = Null \/ ~context.ok THEN Failed
        ELSE Ok([principal |-> <<"Agent", id.s>>, action |-> <<"Action", input.point>>,
                 resource |-> resource_entity(input), context |-> context.value])

-----------------------------------------------------------------------------
(***************************************************************************)
(* Cedar's JSON format, external: a record whose key is an escape is an    *)
(* entity reference, an extension value or an expression, never a record.  *)
(***************************************************************************)
RECURSIVE CedarReads(_)
CedarReads(value) ==
    CASE value.t = "obj" /\ DOMAIN value.members \cap CEDAR_RESERVED_KEYS = {} ->
           [t |-> "record",
            members |-> [key \in DOMAIN value.members |-> CedarReads(value.members[key])]]
      [] value.t = "obj" /\ DOMAIN value.members = {"__extn"}
                         /\ value.members["__extn"].t = "decimal_call" ->
           LET literal == value.members["__extn"].literal
               units == literal.whole * DecimalScale + literal.fraction
           IN  [t |-> "decimal", units |-> IF literal.minus THEN -units ELSE units]
      [] value.t = "obj" -> [t |-> "escape"]
      [] value.t = "arr" ->
           [t |-> "set", items |-> [i \in DOMAIN value.items |-> CedarReads(value.items[i])]]
      [] OTHER -> value

\* A decimal nearest to the number as it is written, but for what two roundings
\* to a float may add: up to 2^Precision / 3 halves of the last decimal place only
\* a tie can be off, by going to the odd one of its two neighbours.
Near(halves, units) ==
    /\ Abs(units) <= LongMax
    /\ (Abs(2 * units - halves) - 1) * 2^Precision <= 3 * Abs(halves)

\* The decimal the specification asks for: no other is nearer, and of two as near
\* the even one is taken (SPECIFICATION.md, 12.4).
Nearest(halves, units) ==
    /\ Abs(2 * units - halves) <= 1
    /\ halves % 2 = 1 => units % 2 = 0

\* What a policy is to find in the context for one value of the policy input.
RECURSIVE Means(_, _)
Means(value, found) ==
    CASE value.t = "obj" ->
           /\ found.t = "record"
           /\ DOMAIN found.members = {k \in DOMAIN value.members : value.members[k] # Null}
           /\ \A key \in DOMAIN found.members : Means(value.members[key], found.members[key])
      [] value.t = "arr" ->
           /\ found.t = "set" /\ Len(found.items) = Len(value.items)
           /\ \A i \in DOMAIN found.items : Means(value.items[i], found.items[i])
      [] value.t = "float" -> found.t = "decimal" /\ Near(value.halves, found.units)
      [] OTHER -> found = value
=============================================================================
