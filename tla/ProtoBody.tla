------------------------------- MODULE ProtoBody -------------------------------
(***************************************************************************)
(* Reading one protobuf body: every decoder of internal/codec is the same     *)
(* loop over consumeProtoTag, with a case per known number (one of the        *)
(* consumeProto functions), a default that skips, and a check of what is      *)
(* missing at the end.  A nested message is read by its own loop, whose error *)
(* is the error of the loop around it.                                        *)
(*                                                                            *)
(* A body is a sequence of fields [num, wire, good, value, body]: good is     *)
(* FALSE when the bytes end before the value does, value is the attribute the *)
(* sender wrote there, body is the content of a nested message.               *)
(* reading.stack holds the loops at work, the innermost last; a     *)
(* loop is named by the path from the message ID to its decoder.              *)
(***************************************************************************)
EXTENDS ProtoRequests, Sequences, SequencesExt

VARIABLE reading

protoVars == <<reading>>

\* The decoder at a path: a message ID, then the attributes that nest.
DecoderAt(path) ==
    FoldLeft(LAMBDA d, attr : CHOOSE s \in UNION {f.sub : f \in {g \in d.fields : g.attr = attr}} : TRUE,
             inboundProtobufDecoders[Head(path)], Tail(path))

Known(path, number) == {f \in DecoderAt(path).fields : f.num = number}

Loop(path, body) == [at |-> path, body |-> body, got |-> {}]
Top == Last(reading.stack)

-----------------------------------------------------------------------------
(* Bodies.                                                                    *)

Item(number, wire, good, value, body) ==
    [num |-> number, wire |-> wire, good |-> good, value |-> value, body |-> body]
Sent(f) == Item(f.num, f.wire, TRUE, f.attr, <<>>)

\* One field for each attribute the decoder needs.
NeededItems(path) ==
    LET d == DecoderAt(path)
    IN  {Sent(CHOOSE f \in d.fields : f.attr = a) : a \in d.needs}

\* Numbers no decoder knows: what a newer server adds.
UnknownNumber == 1000

\* A known field as it should be, cut short or of another wire type; or an unknown one.
Extras(path) ==
    UNION {{Sent(f), Item(f.num, f.wire, FALSE, f.attr, <<>>)}
             \cup {Item(f.num, w, TRUE, f.attr, <<>>) : w \in {"varint", "fixed64", "bytes"} \ {g.wire : g \in Known(path, f.num)}}
           : f \in DecoderAt(path).fields}
    \cup {Item(UnknownNumber, "varint", good, "new", <<>>) : good \in BOOLEAN}

\* The needed fields in any order, at most one of them missing, and one more anywhere.
Bodies(path) ==
    LET needed == NeededItems(path)
        kept == {needed} \cup {needed \ {i} : i \in needed}
    IN  UNION {{InsertAt(s, i, x) : i \in 1..(Len(s) + 1), x \in Extras(path)}
               : s \in UNION {SetToSeqs(k) : k \in kept}}

\* The body of the message around a nested body: everything it needs, then the nested message.
Around(path, body) ==
    LET outer == Front(path)
        f == CHOOSE g \in DecoderAt(outer).fields : g.attr = Last(path)
        others == {i \in NeededItems(outer) : i.num # f.num}
    IN  Append(SetToSeq(others), Item(f.num, f.wire, TRUE, f.attr, body))

Message(path, body) ==
    FoldLeft(LAMBDA b, n : Around(SubSeq(path, 1, n), b), body, Reverse([i \in 1..(Len(path) - 1) |-> i + 1]))

Reading(path, body, sent) ==
    [stack |-> <<Loop(<<Head(path)>>, Message(path, body))>>, verdict |-> "none", seen |-> {},
     plan |-> [path |-> path, body |-> body, sent |-> sent]]

-----------------------------------------------------------------------------
(* What this client sent and the server echoes in an open order.              *)

Echoes ==
    {[path |-> <<"OpenOrder", "Contract">>, layout |-> encodeOrderContractProto],
     [path |-> <<"OpenOrder", "Order">>, layout |-> encodeOrderProto],
     [path |-> <<"OpenOrder", "Contract", "DeltaNeutral">>, layout |-> encodeDeltaNeutralContractProto],
     [path |-> <<"OpenOrder", "Contract", "ComboLegs">>, layout |-> encodeComboLegProto],
     [path |-> <<"OpenOrder", "Order", "AlgoParams">>, layout |-> appendProtoMap],
     [path |-> <<"OpenOrder", "Order", "SmartComboRouting">>, layout |-> appendProtoMap]}
    \cup {[path |-> <<"OpenOrder", "Order", "Conditions">>, layout |-> encodeOrderConditionProto(t)]
          : t \in {1, 3, 4, 5, 6, 7}}

\* Two names for one attribute.
Alias ==
    [TotalQuantity |-> "Quantity", DiscretionaryAmt |-> "DiscretionAmt", IsOmsContainer |-> "IsOMSContainer",
     SmartComboRoutingParams |-> "SmartComboRouting"]
ReadAs(attr) == IF attr \in DOMAIN Alias THEN Alias[attr] ELSE attr

\* Attributes of a request that no open-order attribute carries back.
WriteOnly ==
    {"BlockOrder", "OverridePercentageConstraints", "OptOutSmartRouting", "AlgoID", "ExtOperator",
     "Mifid2DecisionMaker", "Mifid2DecisionAlgo", "Mifid2ExecutionTrader", "Mifid2ExecutionAlgo",
     "DiscretionaryUpToLimitPrice", "Duration", "PostToAts", "ManualOrderIndicator", "SoftDollar"}

\* canonicalProtoFields: by number.
InOrder(fields, Content(_)) == [i \in 1..Cardinality(fields) |->
    LET f == CHOOSE g \in fields : Cardinality({h \in fields : h.num < g.num}) = i - 1
    IN  Item(f.num, f.wire, TRUE, f.attr, Content(f))]
\* A nested message carries what it always does.
Canonical(fields) ==
    InOrder(fields, LAMBDA f : IF f.sub = {} THEN <<>>
                               ELSE InOrder((CHOOSE e \in f.sub : TRUE).always, LAMBDA g : <<>>))

EchoReadings ==
    UNION {{Reading(e.path, Canonical(e.layout.always \cup set), {f.attr : f \in e.layout.always \cup set})
            : set \in {{}} \cup {{f} : f \in e.layout.optional}} : e \in Echoes}

-----------------------------------------------------------------------------
\* Every decoder, by every path that reaches it.
Nests(paths) ==
    UNION {{Append(p, f.attr) : f \in {g \in DecoderAt(p).fields : g.sub # {}}} : p \in paths}
Paths ==
    LET one == {<<m>> : m \in DOMAIN inboundProtobufDecoders}
        two == Nests(one)
        three == Nests(two)
    IN  one \cup two \cup three \cup Nests(three)

Foreign == UNION {{Reading(p, b, {}) : b \in Bodies(p)} : p \in Paths}
ProtoInit == reading \in Foreign \cup EchoReadings

Ends(verdict) == reading' = [reading EXCEPT !.verdict = verdict, !.stack = <<>>]

\* A number no case of the switch names: skipProtoField.
Skips(f) == f.good

\* One of the consumeProto functions: the wire type first, then the value.
Consumes(f, known) == f.good /\ \E g \in known : g.wire = f.wire

\* The attribute a consumed field assigns.
Assigns(f, known) == (CHOOSE g \in known : g.wire = f.wire).attr

\* consumeProtoTag, then the switch on the number.
ReadField ==
    /\ reading.verdict = "none"
    /\ Top.body # <<>>
    /\ LET f == Head(Top.body)
           known == Known(Top.at, f.num)
           here == Len(reading.stack)
           moved == [reading EXCEPT !.stack[here].body = Tail(Top.body)]
       IN  IF known = {}
           THEN IF Skips(f) THEN reading' = moved ELSE Ends("malformed")
           ELSE IF ~Consumes(f, known) THEN Ends("malformed")
           ELSE LET attr == Assigns(f, known)
                    assigned == [moved EXCEPT !.stack[here].got = @ \cup {attr},
                                              !.seen = @ \cup {[at |-> Append(Top.at, attr), value |-> f.value]}]
                    nested == {g \in known : g.sub # {}}
                IN  reading' = IF nested = {} THEN assigned
                               ELSE [assigned EXCEPT !.stack = Append(@, Loop(Append(Top.at, attr), f.body))]

\* Mutant: nothing is needed.
CompleteAnyway(path, got) == TRUE

\* The body is empty: a decoder that misses what it needs refuses it.
Complete(path, got) == DecoderAt(path).needs \subseteq got

Finish ==
    /\ reading.verdict = "none"
    /\ Top.body = <<>>
    /\ IF Complete(Top.at, Top.got)
       THEN IF Len(reading.stack) = 1 THEN Ends("delivered")
            ELSE reading' = [reading EXCEPT !.stack = Front(@)]
       ELSE Ends(IF Len(reading.stack) = 1 THEN DecoderAt(Top.at).absent ELSE "malformed")

ProtoNext == ReadField \/ Finish
ProtoSpec == ProtoInit /\ [][ProtoNext]_protoVars

-----------------------------------------------------------------------------
(* The verdict of a reader that looks at the whole body at once.              *)

Wellformed(path, f) ==
    /\ f.good
    /\ LET known == Known(path, f.num)
       IN  known = {} \/ \E g \in known : g.wire = f.wire /\ (f.body = <<>> => \A d \in g.sub : d.needs = {})

Attributes(path, body) ==
    UNION {{g.attr : g \in {h \in Known(path, f.num) : h.wire = f.wire}} : f \in Range(body)}

Verdict(path, body) ==
    IF \E f \in Range(body) : ~Wellformed(path, f) THEN "malformed"
    ELSE IF DecoderAt(path).needs \subseteq Attributes(path, body) THEN "delivered"
    ELSE IF Len(path) = 1 THEN DecoderAt(path).absent ELSE "malformed"

\* A body is delivered only whole: one field of the wrong type or cut short, or
\* one needed field missing, at any depth and in any order of fields, refuses
\* the message; a number added by a newer server does not; and every attribute
\* in a delivered body was assigned.  Covers every decoder of internal/codec.
DecodedIsWhole ==
    LET p == reading.plan
    IN  reading.verdict # "none" =>
            /\ reading.verdict = Verdict(p.path, p.body)
            /\ reading.verdict = "delivered" =>
                   \A a \in Attributes(p.path, p.body) : \E r \in reading.seen : r.at = Append(p.path, a)

\* An order the server echoes reads back as it was written: encodeOrderProto,
\* encodeOrderContractProto and the messages in them use for every attribute
\* the number and wire type the open-order decoders expect.
EchoFaithful ==
    LET p == reading.plan
    IN  reading.verdict # "none" =>
            {[at |-> Append(p.path, ReadAs(a)), value |-> a] : a \in p.sent \ WriteOnly} \subseteq reading.seen

\* A protobuf body is delivered whole or refused, and what the client's own
\* encoders write is what the decoders of the same message read.
ProtoFaithful == DecodedIsWhole /\ EchoFaithful
==============================================================================
