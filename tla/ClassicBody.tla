------------------------------ MODULE ClassicBody ------------------------------
(***************************************************************************)
(* Reading one classic body with fieldReader (internal/codec/decoder.go).     *)
(* A field is [kind, n]: an integer, other text, or empty.  The first error   *)
(* is kept and the decoder goes on reading zero values to its end; only a bad *)
(* count stops it at once, because the count sizes an allocation.             *)
(***************************************************************************)
EXTENDS ClassicMessages, Integers, SequencesExt

VARIABLE frame

classicVars == <<frame>>

Number(n) == [kind |-> "int", n |-> n]
Word == [kind |-> "word", n |-> 0]
Empty == [kind |-> "empty", n |-> 0]

-----------------------------------------------------------------------------
(* Frames: a body as its layout writes it with n entries in every list, and   *)
(* the same with one thing wrong.                                             *)

Times(n, s) == FlattenSeq([i \in 1..n |-> s])

\* What each field is for; lists nest at most twice.
Roles0(items, n) == [i \in DOMAIN items |-> items[i].kind]
RolesOf(items, n, Entry(_, _)) ==
    FlattenSeq([i \in DOMAIN items |->
        IF items[i].kind = "list" THEN <<"count">> \o Times(n, Entry(items[i].entry, n))
        ELSE <<items[i].kind>>])
Roles1(items, n) == RolesOf(items, n, Roles0)
Roles(items, n) == RolesOf(items, n, Roles1)

Written(role, n) ==
    IF role = "count" THEN Number(n) ELSE IF role \in {"string", "skip"} THEN Word ELSE Number(1)

\* expect: what becomes of the frame.
Frame(msg, fields, ended, expect) ==
    [msg |-> msg, fields |-> fields, ended |-> ended, left |-> inboundDecoders[msg], pos |-> 0, err |-> FALSE,
     rows |-> 0, verdict |-> "none", expect |-> expect]

\* ReadInt takes an empty field for zero; ReadBool takes 0 and 1; ReadCount takes neither
\* an empty field nor a number the frame cannot hold.
Spoils(role, field) ==
    \/ role \in {"int", "bool", "count"} /\ field.kind = "word"
    \/ role = "bool" /\ field.kind = "int" /\ field.n \notin {0, 1}
    \/ role = "count" /\ (field.kind = "empty" \/ field.n < 0 \/ field.n > 50)

Frames(msg, n) ==
    LET roles == Roles(inboundDecoders[msg], n)
        whole == [i \in DOMAIN roles |-> Written(roles[i], n)]
    IN  {Frame(msg, whole, TRUE, "delivered"), Frame(msg, Append(whole, Word), TRUE, "delivered"),
         Frame(msg, whole, FALSE, "malformed")}
        \cup {Frame(msg, SubSeq(whole, 1, i), TRUE, "malformed") : i \in 0..(Len(whole) - 1)}
        \cup UNION {{Frame(msg, [whole EXCEPT ![i] = f], TRUE, IF Spoils(roles[i], f) THEN "malformed" ELSE "delivered")
                     : f \in {Word, Empty, Number(-1), Number(99)}} : i \in DOMAIN whole}

ClassicInit == \E msg \in DOMAIN inboundDecoders, n \in 0..2 : frame \in Frames(msg, n)

-----------------------------------------------------------------------------
(* fieldReader.                                                               *)

Remaining(f) == Len(f.fields) - f.pos
Item1(f) == Head(f.left)
Field1(f) == f.fields[f.pos + 1]

Refuse == frame' = [frame EXCEPT !.verdict = "malformed", !.left = <<>>]

\* DecodeBatch looks at the last byte first.
Unterminated ==
    /\ frame.verdict = "none" /\ frame.pos = 0 /\ ~frame.ended
    /\ Refuse

Parses(kind, field) ==
    CASE kind = "int" -> field.kind # "word"
      [] kind = "bool" -> field.kind = "empty" \/ (field.kind = "int" /\ field.n \in {0, 1})
      [] OTHER -> TRUE

\* ReadInt, ReadInt64, ReadBool, ReadString, Skip: a missing field does not move the reader.
ReadScalar ==
    /\ frame.verdict = "none" /\ frame.ended /\ frame.left # <<>>
    /\ Item1(frame).kind # "list"
    /\ frame' =
         IF Remaining(frame) = 0
         THEN [frame EXCEPT !.left = Tail(@), !.err = TRUE]
         ELSE [frame EXCEPT !.left = Tail(@), !.pos = @ + 1,
                            !.err = @ \/ ~Parses(Item1(frame).kind, Field1(frame))]

\* Mutant: the count is believed.
CountFitsAnyway(n, width, remaining) == TRUE

\* ReadCount, then RequireFixedEntryFields or the check in its place.
CountFits(n, width, remaining) == n <= remaining /\ n * width <= remaining

ReadList ==
    /\ frame.verdict = "none" /\ frame.ended /\ frame.left # <<>>
    /\ Item1(frame).kind = "list"
    /\ IF Remaining(frame) = 0 THEN Refuse
       ELSE LET c == Field1(frame)
                item == Item1(frame)
            IN  IF c.kind # "int" \/ c.n < 0 \/ ~CountFits(c.n, item.width, Remaining(frame) - 1) THEN Refuse
                ELSE frame' = [frame EXCEPT !.left = Times(c.n, item.entry) \o Tail(@), !.pos = @ + 1,
                                            !.rows = @ + c.n]

\* decodeByMsgID: the message counts only if no read failed.
Deliver(err) == ~err

decodeByMsgID ==
    /\ frame.verdict = "none" /\ frame.ended /\ frame.left = <<>>
    /\ frame' = [frame EXCEPT !.verdict = IF Deliver(frame.err) THEN "delivered" ELSE "malformed"]

ClassicNext == Unterminated \/ ReadScalar \/ ReadList \/ decodeByMsgID
ClassicSpec == ClassicInit /\ [][ClassicNext]_classicVars

-----------------------------------------------------------------------------
\* A classic frame that ends early, has text for a number or a count it cannot
\* hold is refused, wherever in the frame that is; empty numbers and fields
\* after the last one are not an error (DecodeBatch, fieldReader.setErr).
ClassicVerdict == frame.verdict # "none" => frame.verdict = frame.expect

\* However large the counts a frame announces, the decoder allocates no more
\* rows than the frame has fields (ReadCount, RequireFixedEntryFields).
RowsBounded == frame.rows <= Len(frame.fields)

\* A classic frame is delivered only when every field of it could be read, and
\* a count in it never makes the reader go past the frame.
ClassicFaithful == ClassicVerdict /\ RowsBounded
==============================================================================
