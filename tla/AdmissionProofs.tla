---------------------------- MODULE AdmissionProofs ----------------------------
(***************************************************************************)
(* Proofs about Admission: every remote operation has an owner, every call    *)
(* is answered at most once and no loss is reported as success, for any       *)
(* number of calls of any mix of kinds and any capacities.                    *)
(*                                                                         *)
(* The invariant is one statement about a call (CallOK), with what the queues *)
(* hold for it as Booleans, and one about the queues (SetupsOnce): the setup  *)
(* of a call is in one place only, which is why it cannot be answered twice.  *)
(* A turn of the actor is a sequence of operators on the state it owns; TurnOK *)
(* holds between any two of them, with the setups the actor has taken out of  *)
(* a queue and not yet run in its hand.  flushReadySetups is a loop with that  *)
(* invariant.                                                              *)
(***************************************************************************)
EXTENDS Admission, SequenceTheorems, TLAPS

(* The inductive invariant.                                                *)

Kinds == {"stream", "snapshot", "query", "command"}
Places == {"idle", "enqueue", "await", "abandon", "collect", "wait", "held", "returned"}
Responses == {"empty", "zero", "error", "ok", "handle", "interrupted", "rejected", "closed"}
Errs == {"none", "clean", "uncertain", "context", "slow", "interrupted", "rejected", "closed"}
Results == {"none", "rows"} \cup Errs \cup Responses
Threads == [Cancellers -> {"off", "armed", "once", "enqueue", "end"}]
Subs == [once : {"free", "held", "spent"}, cause : {"none", "context", "slow"}, err : Errs,
         done : BOOLEAN, queued : Nat, lost : BOOLEAN, rows : Nat, kept : Nat, complete : BOOLEAN]
Jobs == {"setup", "unpark", "cancel", "abandon"}
Commands == [do : Jobs, c : Calls]
Links == {"down", "ready", "retiring"}

\* What the actor owns.
Worlds == [resp : [Calls -> Responses], replies : [Calls -> Nat], parked : Seq(Calls),
           route : [Calls -> BOOLEAN], sub : [Calls -> Subs], link : Links, actor : {"free"}]

\* A command for c is queued.
Queued(q, job, c) == \E i \in DOMAIN q : q[i] = [do |-> job, c |-> c]

Within(s, c) == \E i \in DOMAIN s : s[i] = c

\* The setup of a call is queued once or parked once or in the actor's hand.
SetupsOnce(q, s, hand) ==
    /\ \A c \in Calls : \A i, j \in DOMAIN q :
         q[i] = [do |-> "setup", c |-> c] /\ q[j] = [do |-> "setup", c |-> c] => i = j
    /\ \A i, j \in DOMAIN s : s[i] = s[j] => i = j
    /\ \A c \in Calls : Within(s, c) => ~Queued(q, "setup", c)
    /\ \A c \in hand : ~Within(s, c) /\ ~Queued(q, "setup", c)

\* A subscription: closed with an error, a loss never closed as clean.
SubOK(k, s) ==
    /\ s.done = (s.err # "none")
    /\ s.queued <= EventCap
    /\ s.lost => s.err \notin {"none", "clean"}
    /\ k = "snapshot" => s.kept = s.rows

\* Before the caller closed it, only a recorded cause cancels a subscription.
CauseOK(s, h, cancelling) ==
    h["user"] = "off" =>
      /\ cancelling \/ h["watch"] \in {"once", "enqueue"} => s.cause # "none"
      /\ s.err # "clean"

\* One call, by its kind k, its place p, the end x of its context, response rp,
\* number n of responses, result, setup waiting w, route rt, subscription s,
\* threads h, queued release ab and cancellation cq, and the engine's end e.
CallOK(k, p, x, rp, n, result_, w, rt, s, h, ab, cq, e) ==
    /\ n \in {0, 1}
    /\ p \in {"idle", "enqueue"} => ~w /\ ~rt /\ n = 0 /\ ~s.done
    /\ w => n = 0 /\ ~rt /\ ~s.done
    /\ rp # "empty" => n = 1
    /\ e => ~rt
    /\ k = "query" =>
         /\ p \in {"idle", "enqueue", "await", "abandon", "returned"} /\ rp # "handle"
         /\ rt => n = 0 /\ (p \in {"await", "abandon"} \/ ab)
         /\ p = "abandon" => x
         /\ p = "returned" => n = 1 \/ x \/ e
    /\ k # "query" =>
         /\ w /\ ~e => p = "await"
         /\ rt => (p = "await" /\ rp = "handle") \/ p \in {"held", "collect", "wait"}
         /\ rt => ~s.done /\ k # "command"
    /\ SubOK(k, s)
    /\ p \in {"idle", "enqueue", "await", "collect"} => h["user"] = "off"
    /\ CauseOK(s, h, cq)
    /\ k = "snapshot" /\ result_ = "rows" => s.complete

Waits(q, s, hand, c) == Queued(q, "setup", c) \/ Within(s, c) \/ c \in hand

\* The state the actor may be in between two steps of a turn, w, with q still to
\* come and the calls in its hand.
TurnOK(w, q, hand, e) ==
    /\ w \in Worlds
    /\ q \in Seq(Commands)
    /\ SetupsOnce(q, w.parked, hand)
    /\ \A c \in Calls :
         CallOK(kind[c], pc[c], ctx[c], w.resp[c], w.replies[c], result[c], Waits(q, w.parked, hand, c),
                w.route[c], w.sub[c], helper[c], Queued(q, "abandon", c), Queued(q, "cancel", c), e)

\* The callers' side.
CallersOK ==
    /\ kind \in [Calls -> Kinds] /\ pc \in [Calls -> Places] /\ ctx \in [Calls -> BOOLEAN]
    /\ result \in [Calls -> Results] /\ helper \in [Calls -> Threads] /\ done \in BOOLEAN

IInv == CallersOK /\ Len(cmds) <= QueueCap /\ TurnOK(World, cmds, {}, done)

------------------------------------------------------------------------------
(* One call.                                                               *)

\* A call may lose what waits for it, gain a release, and see its context or the
\* engine end.
LEMMA CallMono ==
  ASSUME NEW k, NEW p, NEW x, NEW rp, NEW n, NEW res, NEW w, NEW rt, NEW s, NEW h, NEW ab, NEW cq, NEW e,
         NEW x2, NEW w2, NEW ab2, NEW cq2, NEW e2,
         CallOK(k, p, x, rp, n, res, w, rt, s, h, ab, cq, e),
         x => x2, w2 => w, ab => ab2, cq2 => cq, e => e2, e2 => ~rt
  PROVE  CallOK(k, p, x2, rp, n, res, w2, rt, s, h, ab2, cq2, e2)
  BY DEF CallOK, CauseOK

\* recordCancelCause keeps a subscription sound.
LEMMA RecordIs ==
  ASSUME NEW s \in Subs, NEW cause \in {"context", "slow"}
  PROVE  LET t == recordCancelCause(s, cause)
         IN  /\ t \in Subs /\ t.cause # "none"
             /\ t.once = s.once /\ t.err = s.err /\ t.done = s.done /\ t.queued = s.queued /\ t.lost = s.lost
             /\ t.rows = s.rows /\ t.kept = s.kept /\ t.complete = s.complete
  <1> DEFINE u == [s EXCEPT !.cause = cause]
  <1>1. u \in Subs /\ u.cause = cause /\ u.once = s.once /\ u.err = s.err /\ u.done = s.done
        /\ u.queued = s.queued /\ u.lost = s.lost /\ u.rows = s.rows /\ u.kept = s.kept /\ u.complete = s.complete
    BY DEF Subs
  <1>2. cause # "none"
    OBVIOUS
  <1>3. recordCancelCause(s, cause) = IF s.cause = "none" THEN u ELSE s
    BY <1>2 DEF recordCancelCause
  <1> HIDE DEF u
  <1> QED BY <1>1, <1>2, <1>3

\* closeWithErr: a subscription closes once, and a recorded cause wins over a
\* clean end.
LEMMA CloseIs ==
  ASSUME NEW s \in Subs, NEW err \in Errs, err # "none"
  PROVE  LET t == closeWithErr(s, err)
         IN  /\ t \in Subs /\ t.done = TRUE
             /\ t.err = IF s.done THEN s.err ELSE IF s.cause # "none" /\ err # "uncertain" THEN s.cause ELSE err
             /\ t.once = s.once /\ t.cause = s.cause /\ t.queued = s.queued /\ t.lost = s.lost
             /\ t.rows = s.rows /\ t.kept = s.kept /\ t.complete = s.complete
  <1> DEFINE x == IF s.cause # "none" /\ err # "uncertain" THEN s.cause ELSE err
             u == [s EXCEPT !.done = TRUE, !.err = x]
  <1>1. s.cause \in {"none", "context", "slow"} /\ s.done \in BOOLEAN
    BY DEF Subs
  <1>2. x \in Errs
    BY <1>1 DEF Errs
  <1>3. closeWithErr(s, err) = IF s.done THEN s ELSE u
    BY DEF closeWithErr
  <1> HIDE DEF x
  <1>4. u \in Subs /\ u.done = TRUE /\ u.err = x /\ u.once = s.once /\ u.cause = s.cause
        /\ u.queued = s.queued /\ u.lost = s.lost /\ u.rows = s.rows /\ u.kept = s.kept /\ u.complete = s.complete
    BY <1>2 DEF Subs
  <1> HIDE DEF u
  <1>5. CASE s.done
    BY <1>1, <1>3, <1>5
  <1>6. CASE ~s.done
    BY <1>3, <1>4, <1>6 DEF x
  <1> QED BY <1>5, <1>6

------------------------------------------------------------------------------
(* The queues.                                                             *)

\* A command at the end of the queue.
LEMMA QueuedAppend ==
  ASSUME NEW q \in Seq(Commands), NEW job \in Jobs, NEW c \in Calls
  PROVE  /\ Append(q, [do |-> job, c |-> c]) \in Seq(Commands)
         /\ Len(Append(q, [do |-> job, c |-> c])) = Len(q) + 1
         /\ \A j \in Jobs, d \in Calls :
              Queued(Append(q, [do |-> job, c |-> c]), j, d) = (Queued(q, j, d) \/ (j = job /\ d = c))
  <1> DEFINE x == [do |-> job, c |-> c]
             a == Append(q, x)
  <1>1. x \in Commands /\ x.do = job /\ x.c = c
    BY DEF Commands
  <1>2. \A j \in Jobs, d \in Calls : x = [do |-> j, c |-> d] <=> j = job /\ d = c
    OBVIOUS
  <1> HIDE DEF x
  <1>3. /\ a \in Seq(Commands) /\ Len(a) = Len(q) + 1 /\ Len(q) \in Nat /\ a[Len(q) + 1] = x
        /\ \A i \in 1 .. Len(q) : a[i] = q[i]
        /\ DOMAIN a = 1 .. Len(q) + 1 /\ DOMAIN q = 1 .. Len(q)
    BY <1>1, AppendProperties
  <1> HIDE DEF a
  <1>4. ASSUME NEW j \in Jobs, NEW d \in Calls
        PROVE  Queued(a, j, d) = (Queued(q, j, d) \/ (j = job /\ d = c))
    <2>1. ASSUME Queued(a, j, d) PROVE Queued(q, j, d) \/ (j = job /\ d = c)
      <3>1. PICK i \in DOMAIN a : a[i] = [do |-> j, c |-> d]
        BY <2>1 DEF Queued
      <3>2. i = Len(q) + 1 \/ i \in 1 .. Len(q)
        BY <1>3
      <3> QED BY <1>2, <1>3, <3>1, <3>2 DEF Queued
    <2>2. ASSUME Queued(q, j, d) PROVE Queued(a, j, d)
      <3>1. PICK i \in DOMAIN q : q[i] = [do |-> j, c |-> d]
        BY <2>2 DEF Queued
      <3>2. i \in DOMAIN a /\ a[i] = q[i]
        BY <1>3
      <3> QED BY <3>1, <3>2 DEF Queued
    <2>3. ASSUME j = job, d = c PROVE Queued(a, j, d)
      <3>1. Len(q) + 1 \in DOMAIN a
        BY <1>3
      <3> QED BY <1>2, <1>3, <2>3, <3>1 DEF Queued
    <2> QED BY <2>1, <2>2, <2>3 DEF Queued
  <1> QED BY <1>3, <1>4 DEF a, x

\* A new command keeps every setup in one place, a setup when it is nowhere.
LEMMA OnceAppend ==
  ASSUME NEW q \in Seq(Commands), NEW s, NEW hand, NEW job \in Jobs, NEW c \in Calls,
         SetupsOnce(q, s, hand), hand \subseteq Calls,
         job = "setup" => ~Queued(q, "setup", c) /\ ~Within(s, c) /\ c \notin hand
  PROVE  SetupsOnce(Append(q, [do |-> job, c |-> c]), s, hand)
  <1> DEFINE x == [do |-> job, c |-> c]
             a == Append(q, x)
  <1>1. x \in Commands /\ x.do = job /\ x.c = c
    BY DEF Commands
  <1>2. \A d \in Calls : x = [do |-> "setup", c |-> d] => job = "setup" /\ d = c
    OBVIOUS
  <1>3. /\ Len(q) \in Nat /\ a[Len(q) + 1] = x
        /\ \A i \in 1 .. Len(q) : a[i] = q[i]
        /\ DOMAIN a = 1 .. Len(q) + 1 /\ DOMAIN q = 1 .. Len(q)
    BY <1>1, AppendProperties
  <1>4. "setup" \in Jobs
    BY DEF Jobs
  <1>5. \A d \in Calls : Queued(a, "setup", d) = (Queued(q, "setup", d) \/ ("setup" = job /\ d = c))
    BY <1>4, QueuedAppend
  <1> HIDE DEF x, a
  <1>6. ASSUME NEW d \in Calls, NEW i \in DOMAIN a, NEW j \in DOMAIN a,
               a[i] = [do |-> "setup", c |-> d], a[j] = [do |-> "setup", c |-> d]
        PROVE  i = j
    <2>1. (i = Len(q) + 1 \/ i \in 1 .. Len(q)) /\ (j = Len(q) + 1 \/ j \in 1 .. Len(q))
      BY <1>3
    <2>2. CASE i \in 1 .. Len(q) /\ j \in 1 .. Len(q)
      BY <1>3, <1>6, <2>2 DEF SetupsOnce
    <2>3. CASE i = Len(q) + 1 /\ j \in 1 .. Len(q)
      BY <1>2, <1>3, <1>6, <2>3 DEF Queued
    <2>4. CASE j = Len(q) + 1 /\ i \in 1 .. Len(q)
      BY <1>2, <1>3, <1>6, <2>4 DEF Queued
    <2> QED BY <2>1, <2>2, <2>3, <2>4
  <1>7. \A d \in Calls : Within(s, d) => ~Queued(a, "setup", d)
    BY <1>5 DEF SetupsOnce
  <1>8. \A d \in hand : ~Within(s, d) /\ ~Queued(a, "setup", d)
    BY <1>5 DEF SetupsOnce
  <1>9. \A i, j \in DOMAIN s : s[i] = s[j] => i = j
    BY DEF SetupsOnce
  <1> QED BY <1>6, <1>7, <1>8, <1>9 DEF SetupsOnce, a, x

\* The actor takes the first command; a setup is then in its hand.
LEMMA TakeHead ==
  ASSUME NEW q \in Seq(Commands), q # <<>>, NEW s, SetupsOnce(q, s, {})
  PROVE  /\ Head(q) \in Commands /\ Tail(q) \in Seq(Commands) /\ Len(Tail(q)) <= Len(q)
         /\ Queued(q, Head(q).do, Head(q).c)
         /\ \A j \in Jobs, d \in Calls :
              Queued(q, j, d) = (Queued(Tail(q), j, d) \/ (j = Head(q).do /\ d = Head(q).c))
         /\ SetupsOnce(Tail(q), s, IF Head(q).do = "setup" THEN {Head(q).c} ELSE {})
  <1> DEFINE x == Head(q)
             t == Tail(q)
  <1>1. /\ x \in Commands /\ t \in Seq(Commands) /\ Len(q) \in Nat /\ Len(q) >= 1 /\ Len(t) = Len(q) - 1
        /\ x = q[1] /\ \A i \in 1 .. Len(t) : t[i] = q[i + 1]
        /\ DOMAIN q = 1 .. Len(q) /\ DOMAIN t = 1 .. Len(t)
    <2>1. Len(q) \in Nat /\ Len(q) # 0
      BY EmptySeq
    <2>2. x = q[1] /\ 1 \in 1 .. Len(q)
      BY <2>1, HeadTailProperties
    <2>3. x \in Commands
      BY <2>2, ElementOfSeq
    <2> QED BY <2>1, <2>2, <2>3, HeadTailProperties
  <1>2. x = [do |-> x.do, c |-> x.c] /\ x.do \in Jobs /\ x.c \in Calls
    BY <1>1 DEF Commands
  <1> HIDE DEF x, t
  <1>3. \A i \in DOMAIN q : i = 1 \/ \E j \in DOMAIN t : i = j + 1 /\ q[i] = t[j]
    <2> SUFFICES ASSUME NEW i \in DOMAIN q, i # 1 PROVE \E j \in DOMAIN t : i = j + 1 /\ q[i] = t[j]
      OBVIOUS
    <2>1. i - 1 \in DOMAIN t /\ (i - 1) + 1 = i
      BY <1>1
    <2> QED BY <1>1, <2>1
  <1>4. \A j \in DOMAIN t : j + 1 \in DOMAIN q /\ q[j + 1] = t[j] /\ j + 1 # 1
    BY <1>1
  <1>5. ASSUME NEW j \in Jobs, NEW d \in Calls
        PROVE  Queued(q, j, d) = (Queued(t, j, d) \/ (j = x.do /\ d = x.c))
    <2>1. ASSUME Queued(q, j, d) PROVE Queued(t, j, d) \/ (j = x.do /\ d = x.c)
      <3>1. PICK i \in DOMAIN q : q[i] = [do |-> j, c |-> d]
        BY <2>1 DEF Queued
      <3>2. CASE i = 1
        BY <1>1, <3>1, <3>2
      <3>3. CASE i # 1
        BY <1>3, <3>1, <3>3 DEF Queued
      <3> QED BY <3>2, <3>3
    <2>2. ASSUME Queued(t, j, d) PROVE Queued(q, j, d)
      BY <1>4, <2>2 DEF Queued
    <2>3. ASSUME j = x.do, d = x.c PROVE Queued(q, j, d)
      BY <1>1, <1>2, <2>3 DEF Queued
    <2> QED BY <2>1, <2>2, <2>3 DEF Queued
  <1>6. Queued(q, x.do, x.c)
    BY <1>2, <1>5
  <1> DEFINE hand == IF x.do = "setup" THEN {x.c} ELSE {}
  <1>7. \A d \in Calls : Queued(t, "setup", d) => Queued(q, "setup", d)
    BY <1>5 DEF Jobs
  <1>8. ASSUME NEW d \in Calls, NEW i \in DOMAIN t, NEW j \in DOMAIN t,
               t[i] = [do |-> "setup", c |-> d], t[j] = [do |-> "setup", c |-> d]
        PROVE  i = j
    <2>1. i + 1 = j + 1
      BY <1>4, <1>8 DEF SetupsOnce
    <2> QED BY <1>1, <2>1
  <1>9. ASSUME NEW d \in hand PROVE ~Within(s, d) /\ ~Queued(t, "setup", d)
    <2>1. d = x.c /\ x.do = "setup" /\ d \in Calls
      BY <1>2
    <2>2. Queued(q, "setup", d)
      BY <1>6, <2>1
    <2>3. ~Within(s, d)
      BY <2>1, <2>2 DEF SetupsOnce
    <2>4. ASSUME NEW i \in DOMAIN t, t[i] = [do |-> "setup", c |-> d] PROVE FALSE
      <3>1. i + 1 \in DOMAIN q /\ q[i + 1] = [do |-> "setup", c |-> d] /\ i + 1 # 1
        BY <1>4, <2>4
      <3>2. 1 \in DOMAIN q /\ q[1] = [do |-> "setup", c |-> d]
        BY <1>1, <1>2, <2>1
      <3> QED BY <2>1, <3>1, <3>2 DEF SetupsOnce
    <2> QED BY <2>3, <2>4 DEF Queued
  <1>10. SetupsOnce(t, s, hand)
    BY <1>7, <1>8, <1>9 DEF SetupsOnce
  <1> QED BY <1>1, <1>5, <1>6, <1>10 DEF x, t

------------------------------------------------------------------------------
(* Turns of the actor.                                                     *)

\* The part of a call the actor owns.
SameCall(v, w, d) ==
    v.resp[d] = w.resp[d] /\ v.replies[d] = w.replies[d] /\ v.route[d] = w.route[d] /\ v.sub[d] = w.sub[d]

\* The same for one call, with what the queues q and the hand hold for it.
CallIn(v, q, hand, e, c) ==
    CallOK(kind[c], pc[c], ctx[c], v.resp[c], v.replies[c], result[c], Waits(q, v.parked, hand, c),
           v.route[c], v.sub[c], helper[c], Queued(q, "abandon", c), Queued(q, "cancel", c), e)

\* An operator that touches one call and its places in the queues.
LEMMA TurnTo ==
  ASSUME NEW w, NEW q, NEW hand, NEW e, TurnOK(w, q, hand, e),
         NEW c \in Calls, NEW v \in Worlds, NEW q2 \in Seq(Commands), NEW hand2,
         SetupsOnce(q2, v.parked, hand2),
         \A d \in Calls \ {c} :
           /\ SameCall(v, w, d)
           /\ Waits(q2, v.parked, hand2, d) => Waits(q, w.parked, hand, d)
           /\ Queued(q, "abandon", d) => Queued(q2, "abandon", d)
           /\ Queued(q2, "cancel", d) => Queued(q, "cancel", d),
         CallIn(v, q2, hand2, e, c)
  PROVE  TurnOK(v, q2, hand2, e)
  <1>1. ASSUME NEW d \in Calls \ {c} PROVE CallIn(v, q2, hand2, e, d)
    <2>1. CallIn(w, q, hand, e, d)
      BY DEF TurnOK, CallIn
    <2>2. e => ~w.route[d]
      BY <2>1 DEF CallIn, CallOK
    <2>3. SameCall(v, w, d)
      OBVIOUS
    <2>4. CallOK(kind[d], pc[d], ctx[d], w.resp[d], w.replies[d], result[d], Waits(q2, v.parked, hand2, d),
                 w.route[d], w.sub[d], helper[d], Queued(q2, "abandon", d), Queued(q2, "cancel", d), e)
      BY <2>1, <2>2, CallMono DEF CallIn
    <2> QED BY <2>3, <2>4 DEF CallIn, SameCall
  <1> QED BY <1>1 DEF TurnOK, CallIn

\* Nothing waits that did not: a command leaves the queue, or parked setups do.
LEMMA TurnDrops ==
  ASSUME NEW w, NEW q, NEW hand, NEW e, TurnOK(w, q, hand, e),
         NEW v \in Worlds, NEW q2 \in Seq(Commands), NEW hand2,
         SetupsOnce(q2, v.parked, hand2),
         \A d \in Calls :
           /\ SameCall(v, w, d)
           /\ Waits(q2, v.parked, hand2, d) => Waits(q, w.parked, hand, d)
           /\ Queued(q, "abandon", d) => Queued(q2, "abandon", d)
           /\ Queued(q2, "cancel", d) => Queued(q, "cancel", d)
  PROVE  TurnOK(v, q2, hand2, e)
  <1>1. ASSUME NEW d \in Calls PROVE CallIn(v, q2, hand2, e, d)
    <2>1. CallIn(w, q, hand, e, d)
      BY DEF TurnOK, CallIn
    <2>2. e => ~w.route[d]
      BY <2>1 DEF CallIn, CallOK
    <2>3. SameCall(v, w, d)
      OBVIOUS
    <2>4. CallOK(kind[d], pc[d], ctx[d], w.resp[d], w.replies[d], result[d], Waits(q2, v.parked, hand2, d),
                 w.route[d], w.sub[d], helper[d], Queued(q2, "abandon", d), Queued(q2, "cancel", d), e)
      BY <2>1, <2>2, CallMono DEF CallIn
    <2> QED BY <2>3, <2>4 DEF CallIn, SameCall
  <1> QED BY <1>1 DEF TurnOK, CallIn

\* A response changes the response channel of its call only.
LEMMA RespondIs ==
  ASSUME NEW w \in Worlds, NEW c \in Calls, NEW r \in Responses
  PROVE  LET v == Respond(w, c, r)
         IN  /\ v \in Worlds /\ v.parked = w.parked /\ v.link = w.link
             /\ v.resp[c] = r /\ v.replies[c] = w.replies[c] + 1 /\ v.route[c] = w.route[c] /\ v.sub[c] = w.sub[c]
             /\ \A d \in Calls \ {c} : SameCall(v, w, d)
  <1> DEFINE v == Respond(w, c, r)
             rs == [w.resp EXCEPT ![c] = r]
             n == w.replies[c] + 1
             rp == [w.replies EXCEPT ![c] = n]
  <1>1. w.resp \in [Calls -> Responses] /\ w.replies \in [Calls -> Nat]
    BY DEF Worlds
  <1>2. n \in Nat
    BY <1>1
  <1>3. v = [w EXCEPT !.resp = rs, !.replies = rp]
    BY DEF Respond, Worlds
  <1> HIDE DEF v, n
  <1>4. rs \in [Calls -> Responses] /\ rp \in [Calls -> Nat]
    BY <1>1, <1>2
  <1>5. rs[c] = r /\ rp[c] = n /\ \A d \in Calls \ {c} : rs[d] = w.resp[d] /\ rp[d] = w.replies[d]
    BY <1>1
  <1> HIDE DEF rs, rp
  <1>6. v \in Worlds
    BY <1>3, <1>4 DEF Worlds
  <1>7. v.parked = w.parked /\ v.link = w.link /\ v.resp = rs /\ v.replies = rp /\ v.route = w.route /\ v.sub = w.sub
    BY <1>3 DEF Worlds
  <1> QED BY <1>5, <1>6, <1>7 DEF SameCall, v, n

\* A route is installed, with the subscription behind it.
RouteOn(w, c, s, l) ==
    [w EXCEPT !.route = [w.route EXCEPT ![c] = TRUE], !.sub = [w.sub EXCEPT ![c] = s], !.link = l]

\* Installing a route touches its call only.
LEMMA RouteOnIs ==
  ASSUME NEW w \in Worlds, NEW c \in Calls, NEW s \in Subs, NEW l \in Links
  PROVE  LET v == RouteOn(w, c, s, l) IN
         /\ v \in Worlds /\ v.parked = w.parked /\ v.link = l
         /\ v.resp[c] = w.resp[c] /\ v.replies[c] = w.replies[c] /\ v.route[c] /\ v.sub[c] = s
         /\ \A d \in Calls \ {c} : SameCall(v, w, d)
  <1> DEFINE rt == [w.route EXCEPT ![c] = TRUE]
             sb == [w.sub EXCEPT ![c] = s]
             v == RouteOn(w, c, s, l)
  <1>1. w.route \in [Calls -> BOOLEAN] /\ w.sub \in [Calls -> Subs]
    BY DEF Worlds
  <1>2. rt \in [Calls -> BOOLEAN] /\ sb \in [Calls -> Subs]
    BY <1>1
  <1>3. rt[c] = TRUE /\ sb[c] = s /\ \A d \in Calls \ {c} : rt[d] = w.route[d] /\ sb[d] = w.sub[d]
    BY <1>1
  <1> HIDE DEF rt, sb
  <1>4. v = [w EXCEPT !.route = rt, !.sub = sb, !.link = l]
    BY DEF rt, sb, RouteOn
  <1> HIDE DEF v
  <1>5. v \in Worlds
    BY <1>2, <1>4 DEF Worlds
  <1>6. v.parked = w.parked /\ v.link = l /\ v.resp = w.resp /\ v.replies = w.replies /\ v.route = rt /\ v.sub = sb
    BY <1>4 DEF Worlds
  <1> QED BY <1>3, <1>5, <1>6 DEF SameCall, v

\* A route is removed, with the subscription behind it.
RouteOff(w, c, s, l) ==
    [w EXCEPT !.route = [w.route EXCEPT ![c] = FALSE], !.sub = [w.sub EXCEPT ![c] = s], !.link = l]

\* Removing a route touches its call only.
LEMMA RouteOffIs ==
  ASSUME NEW w \in Worlds, NEW c \in Calls, NEW s \in Subs, NEW l \in Links
  PROVE  LET v == RouteOff(w, c, s, l) IN
         /\ v \in Worlds /\ v.parked = w.parked /\ v.link = l
         /\ v.resp[c] = w.resp[c] /\ v.replies[c] = w.replies[c] /\ ~v.route[c] /\ v.sub[c] = s
         /\ \A d \in Calls \ {c} : SameCall(v, w, d)
  <1> DEFINE rt == [w.route EXCEPT ![c] = FALSE]
             sb == [w.sub EXCEPT ![c] = s]
             v == RouteOff(w, c, s, l)
  <1>1. w.route \in [Calls -> BOOLEAN] /\ w.sub \in [Calls -> Subs]
    BY DEF Worlds
  <1>2. rt \in [Calls -> BOOLEAN] /\ sb \in [Calls -> Subs]
    BY <1>1
  <1>3. rt[c] = FALSE /\ sb[c] = s /\ \A d \in Calls \ {c} : rt[d] = w.route[d] /\ sb[d] = w.sub[d]
    BY <1>1
  <1> HIDE DEF rt, sb
  <1>4. v = [w EXCEPT !.route = rt, !.sub = sb, !.link = l]
    BY DEF rt, sb, RouteOff
  <1> HIDE DEF v
  <1>5. v \in Worlds
    BY <1>2, <1>4 DEF Worlds
  <1>6. v.parked = w.parked /\ v.link = l /\ v.resp = w.resp /\ v.replies = w.replies /\ v.route = rt /\ v.sub = sb
    BY <1>4 DEF Worlds
  <1> QED BY <1>3, <1>5, <1>6 DEF SameCall, v

\* The parked setups and the link.
WithParked(w, s, l) == [w EXCEPT !.parked = s, !.link = l]

\* Parking touches no call.
LEMMA ParkedIs ==
  ASSUME NEW w \in Worlds, NEW s \in Seq(Calls), NEW l \in Links
  PROVE  LET v == WithParked(w, s, l) IN
         /\ v \in Worlds /\ v.parked = s /\ v.link = l
         /\ \A d \in Calls : SameCall(v, w, d)
  BY DEF Worlds, SameCall, WithParked

\* The setup in hand is run and is nowhere any more.
LEMMA HandDone ==
  ASSUME NEW q, NEW s, NEW hand, NEW c \in hand, SetupsOnce(q, s, hand)
  PROVE  /\ SetupsOnce(q, s, hand \ {c})
         /\ ~Waits(q, s, hand \ {c}, c)
         /\ \A d \in Calls : Waits(q, s, hand \ {c}, d) => Waits(q, s, hand, d)
  BY DEF SetupsOnce, Waits

\* The caller whose context ended gets an empty response, a query none.
LEMMA CanceledTurn ==
  ASSUME NEW w, NEW q, NEW hand, TurnOK(w, q, hand, FALSE), NEW c \in hand, hand \subseteq Calls
  PROVE  TurnOK(Canceled(w, c), q, hand \ {c}, FALSE)
  <1>1. w \in Worlds /\ q \in Seq(Commands) /\ SetupsOnce(q, w.parked, hand) /\ c \in Calls
    BY DEF TurnOK
  <1>2. CallIn(w, q, hand, FALSE, c) /\ Waits(q, w.parked, hand, c)
    BY <1>1 DEF TurnOK, CallIn, Waits
  <1>3. /\ SetupsOnce(q, w.parked, hand \ {c})
        /\ ~Waits(q, w.parked, hand \ {c}, c)
        /\ \A d \in Calls : Waits(q, w.parked, hand \ {c}, d) => Waits(q, w.parked, hand, d)
    BY <1>1, HandDone
  <1>4. CASE kind[c] = "query"
    <2>1. Canceled(w, c) = w
      BY <1>4 DEF Canceled
    <2>2. \A d \in Calls : SameCall(w, w, d)
      BY DEF SameCall
    <2>3. TurnOK(w, q, hand \ {c}, FALSE)
      BY <1>1, <1>3, <2>2, TurnDrops
    <2> QED BY <2>1, <2>3
  <1>5. CASE kind[c] # "query"
    <2> DEFINE v == Respond(w, c, "zero")
    <2>1. Canceled(w, c) = v
      BY <1>5 DEF Canceled
    <2>2. "zero" \in Responses
      BY DEF Responses
    <2>3. /\ v \in Worlds /\ v.parked = w.parked
          /\ v.resp[c] = "zero" /\ v.replies[c] = w.replies[c] + 1 /\ v.route[c] = w.route[c] /\ v.sub[c] = w.sub[c]
          /\ \A d \in Calls \ {c} : SameCall(v, w, d)
      BY <1>1, <2>2, RespondIs
    <2> HIDE DEF v
    <2>4. w.replies[c] = 0 /\ ~w.route[c]
      BY <1>2 DEF CallIn, CallOK
    <2>5. CallIn(v, q, hand \ {c}, FALSE, c)
      BY <1>2, <1>3, <1>5, <2>3, <2>4 DEF CallIn, CallOK
    <2>6. TurnOK(v, q, hand \ {c}, FALSE)
      BY <1>1, <1>3, <2>3, <2>5, TurnTo
    <2> QED BY <2>1, <2>6
  <1> QED BY <1>4, <1>5

\* The setup runs: refused, or answered, or a route with an owner.
LEMMA SetupTurn ==
  ASSUME NEW w, NEW q, NEW hand, TurnOK(w, q, hand, FALSE), NEW c \in hand, hand \subseteq Calls,
         ~ctx[c], NEW admitted \in BOOLEAN, kind[c] \in Kinds, pc[c] \in Places
  PROVE  TurnOK(Setup(w, c, admitted), q, hand \ {c}, FALSE)
  <1>1. w \in Worlds /\ q \in Seq(Commands) /\ SetupsOnce(q, w.parked, hand) /\ c \in Calls
    BY DEF TurnOK
  <1>2. CallIn(w, q, hand, FALSE, c) /\ Waits(q, w.parked, hand, c)
    BY <1>1 DEF TurnOK, CallIn, Waits
  <1>3. /\ SetupsOnce(q, w.parked, hand \ {c})
        /\ ~Waits(q, w.parked, hand \ {c}, c)
        /\ \A d \in Calls : Waits(q, w.parked, hand \ {c}, d) => Waits(q, w.parked, hand, d)
    BY <1>1, HandDone
  <1>4. w.replies[c] = 0 /\ ~w.route[c] /\ ~w.sub[c].done
    BY <1>2 DEF CallIn, CallOK
  <1>5. w.sub[c] \in Subs /\ w.link \in Links /\ w.route \in [Calls -> BOOLEAN]
    BY <1>1 DEF Worlds
  <1>6. ASSUME NEW r \in {"error", "ok"}, r = "ok" => kind[c] # "query"
        PROVE  TurnOK(Respond(w, c, r), q, hand \ {c}, FALSE)
    <2> DEFINE v == Respond(w, c, r)
    <2>1. r \in Responses /\ r # "empty" /\ r # "handle"
      BY DEF Responses
    <2>2. /\ v \in Worlds /\ v.parked = w.parked
          /\ v.resp[c] = r /\ v.replies[c] = w.replies[c] + 1 /\ v.route[c] = w.route[c] /\ v.sub[c] = w.sub[c]
          /\ \A d \in Calls \ {c} : SameCall(v, w, d)
      BY <1>1, <2>1, RespondIs
    <2> HIDE DEF v
    <2>3. CallIn(v, q, hand \ {c}, FALSE, c)
      BY <1>2, <1>3, <1>4, <2>1, <2>2 DEF CallIn, CallOK
    <2>4. TurnOK(v, q, hand \ {c}, FALSE)
      BY <1>1, <1>3, <2>2, <2>3, TurnTo
    <2> QED BY <2>4 DEF v
  <1>7. CASE ~admitted
    BY <1>6, <1>7 DEF Setup
  <1>8. CASE admitted /\ kind[c] = "command"
    <2>1. Setup(w, c, admitted) = Respond(w, c, "ok")
      BY <1>8 DEF Setup, IsStream
    <2> QED BY <1>6, <1>8, <2>1
  <1>9. CASE admitted /\ kind[c] = "query"
    <2> DEFINE v == RouteOn(w, c, w.sub[c], w.link)
    <2>1. Setup(w, c, admitted) = v
      <3>1. Setup(w, c, admitted) = [w EXCEPT !.route[c] = TRUE]
        BY <1>9 DEF Setup, IsStream
      <3>2. [w.sub EXCEPT ![c] = w.sub[c]] = w.sub
        BY <1>1 DEF Worlds
      <3> QED BY <1>1, <3>1, <3>2 DEF Worlds, RouteOn
    <2>2. /\ v \in Worlds /\ v.parked = w.parked
          /\ v.resp[c] = w.resp[c] /\ v.replies[c] = w.replies[c] /\ v.route[c] /\ v.sub[c] = w.sub[c]
          /\ \A d \in Calls \ {c} : SameCall(v, w, d)
      BY <1>1, <1>5, RouteOnIs
    <2> HIDE DEF v
    <2>3. CallIn(v, q, hand \ {c}, FALSE, c)
      BY <1>2, <1>3, <1>4, <1>9, <2>2 DEF CallIn, CallOK
    <2>4. TurnOK(v, q, hand \ {c}, FALSE)
      BY <1>1, <1>3, <2>2, <2>3, TurnTo
    <2> QED BY <2>1, <2>4
  <1>10. CASE admitted /\ kind[c] \in {"stream", "snapshot"}
    <2> DEFINE n == IF kind[c] = "stream" THEN 1 ELSE 0
               s == [w.sub[c] EXCEPT !.queued = n]
               u == RouteOn(w, c, s, w.link)
               v == Respond(u, c, "handle")
    <2>0. n \in Nat /\ n <= EventCap
      BY AdmissionAssumption
    <2> HIDE DEF n
    <2>1. s \in Subs /\ s.queued = n /\ s.done = w.sub[c].done /\ s.err = w.sub[c].err /\ s.lost = w.sub[c].lost
          /\ s.kept = w.sub[c].kept /\ s.rows = w.sub[c].rows /\ s.cause = w.sub[c].cause
          /\ s.complete = w.sub[c].complete
      BY <1>5, <2>0 DEF Subs
    <2>2. Setup(w, c, admitted) = v
      <3>1. Setup(w, c, admitted) = Respond([w EXCEPT !.route[c] = TRUE, !.sub[c].queued = n], c, "handle")
        BY <1>10 DEF Setup, IsStream, n
      <3>2. [w EXCEPT !.route[c] = TRUE, !.sub[c].queued = n] = u
        BY <1>1, <1>5 DEF Worlds, RouteOn
      <3> QED BY <3>1, <3>2
    <2> HIDE DEF s
    <2>3. /\ u \in Worlds /\ u.parked = w.parked
          /\ u.resp[c] = w.resp[c] /\ u.replies[c] = w.replies[c] /\ u.route[c] /\ u.sub[c] = s
          /\ \A d \in Calls \ {c} : SameCall(u, w, d)
      BY <1>1, <1>5, <2>1, RouteOnIs
    <2> HIDE DEF u
    <2>4. "handle" \in Responses
      BY DEF Responses
    <2>5. /\ v \in Worlds /\ v.parked = u.parked
          /\ v.resp[c] = "handle" /\ v.replies[c] = u.replies[c] + 1 /\ v.route[c] = u.route[c] /\ v.sub[c] = u.sub[c]
          /\ \A d \in Calls \ {c} : SameCall(v, u, d)
      <3>1. u \in Worlds
        BY <2>3
      <3> QED BY <1>1, <2>4, <3>1, RespondIs
    <2> HIDE DEF v
    <2>6. \A d \in Calls \ {c} : SameCall(v, w, d)
      BY <2>3, <2>5 DEF SameCall
    <2>7. SubOK(kind[c], s) /\ CauseOK(s, helper[c], Queued(q, "cancel", c))
      BY <1>2, <2>0, <2>1 DEF CallIn, CallOK, SubOK, CauseOK
    <2>8. CallIn(v, q, hand \ {c}, FALSE, c)
      <3>1. kind[c] # "query" /\ kind[c] # "command"
        BY <1>10
      <3>2. v.replies[c] = 1 /\ v.resp[c] = "handle" /\ v.route[c] /\ v.sub[c] = s
        BY <1>4, <2>3, <2>5
      <3>3. ~Waits(q, v.parked, hand \ {c}, c)
        BY <1>3, <2>3, <2>5
      <3>4. pc[c] = "await" /\ helper[c]["user"] = "off" /\ (kind[c] = "snapshot" /\ result[c] = "rows" => s.complete)
        BY <1>2, <2>1, <3>1 DEF CallIn, CallOK
      <3> QED BY <1>4, <2>1, <2>7, <3>1, <3>2, <3>3, <3>4 DEF CallIn, CallOK
    <2>9. TurnOK(v, q, hand \ {c}, FALSE)
      BY <1>1, <1>3, <2>3, <2>5, <2>6, <2>8, TurnTo
    <2> QED BY <2>2, <2>9
  <1> QED BY <1>7, <1>8, <1>9, <1>10 DEF Kinds

\* A setup of a session that is not ready moves from the hand to the parked ones.
LEMMA ParkTurn ==
  ASSUME NEW w, NEW q, NEW hand, TurnOK(w, q, hand, FALSE), NEW c \in hand, hand \subseteq Calls
  PROVE  TurnOK([w EXCEPT !.parked = Append(@, c)], q, hand \ {c}, FALSE)
  <1> DEFINE s == Append(w.parked, c)
             v == WithParked(w, s, w.link)
  <1>1. w \in Worlds /\ q \in Seq(Commands) /\ SetupsOnce(q, w.parked, hand) /\ c \in Calls
    BY DEF TurnOK
  <1>2. w.parked \in Seq(Calls) /\ w.link \in Links
    BY <1>1 DEF Worlds
  <1>3. /\ s \in Seq(Calls) /\ Len(w.parked) \in Nat /\ s[Len(w.parked) + 1] = c
        /\ \A i \in 1 .. Len(w.parked) : s[i] = w.parked[i]
        /\ DOMAIN s = 1 .. Len(w.parked) + 1 /\ DOMAIN w.parked = 1 .. Len(w.parked)
    BY <1>1, <1>2, AppendProperties
  <1>4. [w EXCEPT !.parked = Append(@, c)] = v
    BY <1>1 DEF Worlds, WithParked
  <1> HIDE DEF s
  <1>5. v \in Worlds /\ v.parked = s /\ \A d \in Calls : SameCall(v, w, d)
    BY <1>1, <1>2, <1>3, ParkedIs
  <1> HIDE DEF v
  <1>6. \A d \in Calls : Within(s, d) => Within(w.parked, d) \/ d = c
    <2> SUFFICES ASSUME NEW d \in Calls, NEW i \in DOMAIN s, s[i] = d
                 PROVE  Within(w.parked, d) \/ d = c
      BY DEF Within
    <2>1. i = Len(w.parked) + 1 \/ i \in 1 .. Len(w.parked)
      BY <1>3
    <2> QED BY <1>3, <2>1 DEF Within
  <1>7. ~Within(w.parked, c) /\ ~Queued(q, "setup", c)
    BY <1>1 DEF SetupsOnce
  <1>8. ASSUME NEW i \in DOMAIN s, NEW j \in DOMAIN s, s[i] = s[j] PROVE i = j
    <2>1. (i = Len(w.parked) + 1 \/ i \in 1 .. Len(w.parked)) /\ (j = Len(w.parked) + 1 \/ j \in 1 .. Len(w.parked))
      BY <1>3
    <2>2. \A k \in 1 .. Len(w.parked) : s[k] # c
      BY <1>3, <1>7 DEF Within
    <2>3. CASE i \in 1 .. Len(w.parked) /\ j \in 1 .. Len(w.parked)
      BY <1>1, <1>3, <1>8, <2>3 DEF SetupsOnce
    <2> QED BY <1>3, <1>8, <2>1, <2>2, <2>3
  <1>9. SetupsOnce(q, s, hand \ {c})
    BY <1>1, <1>6, <1>7, <1>8 DEF SetupsOnce
  <1>10. \A d \in Calls : Waits(q, s, hand \ {c}, d) => Waits(q, w.parked, hand, d)
    BY <1>6 DEF Waits
  <1>11. TurnOK(v, q, hand \ {c}, FALSE)
    BY <1>1, <1>5, <1>9, <1>10, TurnDrops
  <1> QED BY <1>4, <1>11

\* enqueueReadySetup runs, cancels or parks the setup in hand.
LEMMA RunSetupTurn ==
  ASSUME CallersOK, NEW w, NEW q, NEW hand, TurnOK(w, q, hand, FALSE), NEW c \in hand, hand \subseteq Calls,
         NEW admitted \in BOOLEAN
  PROVE  TurnOK(RunSetup(w, c, admitted), q, hand \ {c}, FALSE)
  <1>1. kind[c] \in Kinds /\ pc[c] \in Places
    BY DEF CallersOK
  <1> QED BY <1>1, CanceledTurn, SetupTurn, ParkTurn DEF RunSetup

------------------------------------------------------------------------------
(* The flush of the parked setups, and the removal of one.                 *)

\* After i setups of the queue the others are in the actor's hand.
Hand(seq, i) == {seq[j] : j \in i + 1 .. Len(seq)}

FlushOK(v, i, seq, par) ==
    /\ \A a, b \in 1 .. Len(seq) : seq[a] = seq[b] => a = b
    /\ TurnOK(v, cmds, Hand(seq, i), FALSE)

RunNext(v, c, admitted) == RunSetup(v, c, c \in admitted)

Flush == INSTANCE QueueTheorems WITH Op <- RunNext, Holds <- FlushOK

\* The model's fold is the one of QueueTheorems.
LEMMA FlushIsFold ==
  ASSUME NEW w, NEW s, NEW admitted
  PROVE  flushReadySetups(w, s, admitted) = Flush!Folded([w EXCEPT !.parked = <<>>], s, admitted)
  BY Zenon DEF flushReadySetups, RunNext, Flush!Folded, FoldLeft, Flush!FoldLeft,
               MapThenFoldSet, Flush!MapThenFoldSet, Max, Flush!Max

\* So is the removal of one element.
LEMMA RemoveIsWithout ==
  ASSUME NEW s, NEW e
  PROVE  RemoveFirst(s, e) = Flush!Without(s, e)
  BY Zenon DEF RemoveFirst, Flush!Without, Flush!RemoveFirst, RemoveAt, Flush!RemoveAt,
               SelectInSeq, Flush!SelectInSeq, Min, Flush!Min

\* What cancelReadySetup leaves was there, each setup once.
LEMMA RemoveKeeps ==
  ASSUME NEW S, NEW s \in Seq(S), NEW e, \A i, j \in DOMAIN s : s[i] = s[j] => i = j
  PROVE  /\ RemoveFirst(s, e) \in Seq(S)
         /\ \A i \in DOMAIN RemoveFirst(s, e) : \E j \in DOMAIN s : RemoveFirst(s, e)[i] = s[j]
         /\ \A i \in DOMAIN RemoveFirst(s, e) : RemoveFirst(s, e)[i] # e
         /\ \A i, j \in DOMAIN RemoveFirst(s, e) : RemoveFirst(s, e)[i] = RemoveFirst(s, e)[j] => i = j
  <1>1. RemoveFirst(s, e) = Flush!Without(s, e)
    BY RemoveIsWithout
  <1>2. /\ Flush!Without(s, e) \in Seq(S)
        /\ \A i \in DOMAIN Flush!Without(s, e) : \E j \in DOMAIN s : Flush!Without(s, e)[i] = s[j]
        /\ \A i \in DOMAIN Flush!Without(s, e) : Flush!Without(s, e)[i] # e
        /\ \A i, j \in DOMAIN Flush!Without(s, e) : Flush!Without(s, e)[i] = Flush!Without(s, e)[j] => i = j
    BY Flush!WithoutKeeps
  <1> QED BY <1>1, <1>2

\* The hand empties with the loop.
LEMMA HandStep ==
  ASSUME NEW seq \in Seq(Calls), NEW i \in 1 .. Len(seq),
         \A a, b \in 1 .. Len(seq) : seq[a] = seq[b] => a = b
  PROVE  /\ Hand(seq, i - 1) \subseteq Calls /\ seq[i] \in Hand(seq, i - 1)
         /\ Hand(seq, i - 1) \ {seq[i]} = Hand(seq, i)
  <1>1. i \in Nat /\ Len(seq) \in Nat /\ (i - 1) + 1 = i
    OBVIOUS
  <1>2. Hand(seq, i - 1) = {seq[j] : j \in i .. Len(seq)}
    BY <1>1 DEF Hand
  <1>3. \A j \in i .. Len(seq) : j \in 1 .. Len(seq)
    BY <1>1
  <1>4. \A j \in i .. Len(seq) : seq[j] \in Calls
    BY <1>3, ElementOfSeq
  <1>5. \A j \in i + 1 .. Len(seq) : j \in i .. Len(seq) /\ j # i
    BY <1>1
  <1>6. \A j \in i .. Len(seq) : j = i \/ j \in i + 1 .. Len(seq)
    BY <1>1
  <1>7. i \in i .. Len(seq)
    BY <1>1
  <1>8. Hand(seq, i - 1) \ {seq[i]} \subseteq Hand(seq, i)
    BY <1>2, <1>6 DEF Hand
  <1>9. Hand(seq, i) \subseteq Hand(seq, i - 1) \ {seq[i]}
    BY <1>2, <1>3, <1>5, <1>7 DEF Hand
  <1> QED BY <1>2, <1>4, <1>7, <1>8, <1>9

\* An iteration runs the next setup of the queue and takes it out of the hand.
LEMMA FlushStep ==
  ASSUME CallersOK, NEW seq \in Seq(Calls), NEW admitted
  PROVE  Flush!Preserved(seq, admitted)
  <1> SUFFICES ASSUME NEW i \in 1 .. Len(seq), NEW v, FlushOK(v, i - 1, seq, admitted)
               PROVE  FlushOK(RunSetup(v, seq[i], seq[i] \in admitted), i, seq, admitted)
    BY DEF Flush!Preserved, RunNext
  <1>1. /\ \A a, b \in 1 .. Len(seq) : seq[a] = seq[b] => a = b
        /\ TurnOK(v, cmds, Hand(seq, i - 1), FALSE)
    BY DEF FlushOK
  <1>2. /\ Hand(seq, i - 1) \subseteq Calls /\ seq[i] \in Hand(seq, i - 1)
        /\ Hand(seq, i - 1) \ {seq[i]} = Hand(seq, i)
    BY <1>1, HandStep
  <1> DEFINE c == seq[i]
             hand == Hand(seq, i - 1)
             ok == c \in admitted
  <1>3. ok \in BOOLEAN
    OBVIOUS
  <1>4. TurnOK(RunSetup(v, c, ok), cmds, Hand(seq, i), FALSE)
    <2>1. TurnOK(v, cmds, hand, FALSE) /\ c \in hand /\ hand \subseteq Calls /\ hand \ {c} = Hand(seq, i)
      BY <1>1, <1>2
    <2> HIDE DEF ok, c, hand
    <2>2. TurnOK(RunSetup(v, c, ok), cmds, hand \ {c}, FALSE)
      BY <1>3, <2>1, RunSetupTurn
    <2> QED BY <2>1, <2>2
  <1> QED BY <1>1, <1>4 DEF FlushOK

\* flushReadySetups leaves no setup in the hand.
LEMMA FlushTurn ==
  ASSUME CallersOK, NEW w, TurnOK(w, cmds, {}, FALSE), NEW admitted
  PROVE  TurnOK(flushReadySetups(WithParked(w, w.parked, "ready"), w.parked, admitted), cmds, {}, FALSE)
  <1> DEFINE seq == w.parked
             b == WithParked(w, <<>>, "ready")
             r == flushReadySetups(WithParked(w, seq, "ready"), seq, admitted)
  <1>1. w \in Worlds /\ cmds \in Seq(Commands) /\ SetupsOnce(cmds, seq, {})
    BY DEF TurnOK
  <1>2. seq \in Seq(Calls) /\ Len(seq) \in Nat /\ DOMAIN seq = 1 .. Len(seq) /\ <<>> \in Seq(Calls)
    BY <1>1 DEF Worlds
  <1>3. "ready" \in Links
    BY DEF Links
  <1>4. b \in Worlds /\ b.parked = <<>> /\ \A d \in Calls : SameCall(b, w, d)
    BY <1>1, <1>2, <1>3, ParkedIs
  <1>5. r = Flush!Folded(b, seq, admitted)
    <2>1. [WithParked(w, seq, "ready") EXCEPT !.parked = <<>>] = b
      BY <1>1 DEF WithParked, Worlds
    <2> QED BY <2>1, FlushIsFold
  <1> HIDE DEF b, r, seq
  <1>6. \A d \in Calls : d \in Hand(seq, 0) <=> Within(seq, d)
    BY <1>2 DEF Hand, Within
  <1>7. Hand(seq, 0) \subseteq Calls
    BY <1>2, ElementOfSeq DEF Hand
  <1>8. \A d : ~Within(<<>>, d)
    BY DEF Within
  <1>9. SetupsOnce(cmds, b.parked, Hand(seq, 0))
    BY <1>1, <1>4, <1>6, <1>7, <1>8 DEF SetupsOnce
  <1>10. \A d \in Calls : Waits(cmds, b.parked, Hand(seq, 0), d) => Waits(cmds, w.parked, {}, d)
    BY <1>4, <1>6, <1>8 DEF Waits, seq
  <1>11. TurnOK(b, cmds, Hand(seq, 0), FALSE)
    BY <1>1, <1>4, <1>9, <1>10, TurnDrops
  <1>12. \A i, j \in 1 .. Len(seq) : seq[i] = seq[j] => i = j
    BY <1>1, <1>2 DEF SetupsOnce
  <1>13. FlushOK(b, 0, seq, admitted)
    BY <1>11, <1>12 DEF FlushOK
  <1>14. Flush!Preserved(seq, admitted)
    BY <1>2, FlushStep
  <1>15. FlushOK(r, Len(seq), seq, admitted)
    BY <1>2, <1>5, <1>13, <1>14, Flush!FoldLeftInvariant
  <1>16. Hand(seq, Len(seq)) = {}
    BY <1>2 DEF Hand
  <1>17. TurnOK(r, cmds, {}, FALSE)
    BY <1>15, <1>16 DEF FlushOK
  <1> QED BY <1>17 DEF r, seq

\* cancelReadySetup answers a setup that is still parked, and takes it out.
LEMMA UnparkTurn ==
  ASSUME NEW w, NEW q, TurnOK(w, q, {}, FALSE), NEW c \in Calls
  PROVE  TurnOK(cancelReadySetup(w, c), q, {}, FALSE)
  <1> DEFINE s == RemoveFirst(w.parked, c)
             u == WithParked(w, s, w.link)
  <1>1. w \in Worlds /\ q \in Seq(Commands) /\ SetupsOnce(q, w.parked, {})
    BY DEF TurnOK
  <1>2. w.parked \in Seq(Calls) /\ w.link \in Links /\ \A i, j \in DOMAIN w.parked : w.parked[i] = w.parked[j] => i = j
    BY <1>1 DEF Worlds, SetupsOnce
  <1>3. CASE ~Within(w.parked, c)
    BY <1>3 DEF cancelReadySetup, Within
  <1>4. CASE Within(w.parked, c)
    <2>1. cancelReadySetup(w, c) = Canceled(u, c)
      <3>1. [w EXCEPT !.parked = RemoveFirst(@, c)] = u
        BY <1>1 DEF WithParked, Worlds
      <3> QED BY <1>4, <3>1 DEF cancelReadySetup, Within
    <2>2. /\ s \in Seq(Calls)
          /\ \A i \in DOMAIN s : \E j \in DOMAIN w.parked : s[i] = w.parked[j]
          /\ \A i \in DOMAIN s : s[i] # c
          /\ \A i, j \in DOMAIN s : s[i] = s[j] => i = j
      BY <1>2, RemoveKeeps
    <2> HIDE DEF s
    <2>3. u \in Worlds /\ u.parked = s /\ \A d \in Calls : SameCall(u, w, d)
      BY <1>1, <1>2, <2>2, ParkedIs
    <2> HIDE DEF u
    <2>4. \A d \in Calls : Within(s, d) => Within(w.parked, d)
      BY <2>2 DEF Within
    <2>5. ~Within(s, c) /\ ~Queued(q, "setup", c)
      BY <1>1, <1>4, <2>2 DEF Within, SetupsOnce
    <2>6. SetupsOnce(q, u.parked, {c})
      BY <1>1, <2>2, <2>3, <2>4, <2>5 DEF SetupsOnce
    <2>7. \A d \in Calls : Waits(q, u.parked, {c}, d) => Waits(q, w.parked, {}, d)
      BY <1>4, <2>3, <2>4 DEF Waits
    <2>8. TurnOK(u, q, {c}, FALSE)
      BY <1>1, <2>3, <2>6, <2>7, TurnDrops
    <2>9. TurnOK(Canceled(u, c), q, {c} \ {c}, FALSE)
      BY <2>8, CanceledTurn
    <2>10. {c} \ {c} = {}
      OBVIOUS
    <2> QED BY <2>1, <2>9, <2>10
  <1> QED BY <1>3, <1>4

------------------------------------------------------------------------------
(* Ends of routes, rows and answers.                                       *)

\* A route goes with whatever its subscription became.
LEMMA OffTurn ==
  ASSUME NEW w, NEW q, TurnOK(w, q, {}, FALSE), NEW c \in Calls, w.route[c], NEW l \in Links,
         NEW t \in Subs, SubOK(kind[c], t), CauseOK(t, helper[c], Queued(q, "cancel", c)),
         w.sub[c].complete => t.complete
  PROVE  TurnOK(RouteOff(w, c, t, l), q, {}, FALSE)
  <1> DEFINE v == RouteOff(w, c, t, l)
  <1>1. w \in Worlds /\ q \in Seq(Commands) /\ SetupsOnce(q, w.parked, {})
    BY DEF TurnOK
  <1>2. CallIn(w, q, {}, FALSE, c)
    BY DEF TurnOK, CallIn
  <1>3. /\ v \in Worlds /\ v.parked = w.parked
        /\ v.resp[c] = w.resp[c] /\ v.replies[c] = w.replies[c] /\ ~v.route[c] /\ v.sub[c] = t
        /\ \A d \in Calls \ {c} : SameCall(v, w, d)
    BY <1>1, RouteOffIs
  <1> HIDE DEF v
  <1>4. ~Waits(q, w.parked, {}, c) /\ pc[c] \notin {"idle", "enqueue"}
    BY <1>2 DEF CallIn, CallOK
  <1>5. CallIn(v, q, {}, FALSE, c)
    BY <1>2, <1>3, <1>4 DEF CallIn, CallOK
  <1>6. TurnOK(v, q, {}, FALSE)
    BY <1>1, <1>3, <1>5, TurnTo
  <1> QED BY <1>6 DEF v

\* A live route stays, with a subscription that is still open.
LEMMA OnTurn ==
  ASSUME NEW w, NEW q, TurnOK(w, q, {}, FALSE), NEW c \in Calls, w.route[c],
         NEW t \in Subs, SubOK(kind[c], t), CauseOK(t, helper[c], Queued(q, "cancel", c)),
         w.sub[c].complete => t.complete, ~t.done
  PROVE  TurnOK(RouteOn(w, c, t, w.link), q, {}, FALSE)
  <1> DEFINE v == RouteOn(w, c, t, w.link)
  <1>1. w \in Worlds /\ q \in Seq(Commands) /\ SetupsOnce(q, w.parked, {})
    BY DEF TurnOK
  <1>2. CallIn(w, q, {}, FALSE, c) /\ w.link \in Links
    BY <1>1 DEF TurnOK, CallIn, Worlds
  <1>3. /\ v \in Worlds /\ v.parked = w.parked
        /\ v.resp[c] = w.resp[c] /\ v.replies[c] = w.replies[c] /\ v.route[c] /\ v.sub[c] = t
        /\ \A d \in Calls \ {c} : SameCall(v, w, d)
    BY <1>1, <1>2, RouteOnIs
  <1> HIDE DEF v
  <1>4. ~Waits(q, w.parked, {}, c) /\ pc[c] \notin {"idle", "enqueue"}
    BY <1>2 DEF CallIn, CallOK
  <1>5. CallIn(v, q, {}, FALSE, c)
    BY <1>2, <1>3, <1>4 DEF CallIn, CallOK
  <1>6. TurnOK(v, q, {}, FALSE)
    BY <1>1, <1>3, <1>5, TurnTo
  <1> QED BY <1>6 DEF v

\* Before the caller closed it a subscription ends cleanly for a cause only.
MayClose(s, h, err) == err = "clean" /\ h["user"] = "off" => s.cause # "none"

\* What closeWithErr makes of the subscription of a live route: a clean end only
\* when the caller closed it.
LEMMA CloseSub ==
  ASSUME NEW k, NEW s \in Subs, NEW h, NEW cq, NEW err \in Errs, err # "none",
         SubOK(k, s), CauseOK(s, h, cq),
         MayClose(s, h, err)
  PROVE  /\ closeWithErr(s, err) \in Subs /\ SubOK(k, closeWithErr(s, err))
         /\ CauseOK(closeWithErr(s, err), h, cq)
         /\ closeWithErr(s, err).complete = s.complete
  <1> DEFINE t == closeWithErr(s, err)
  <1>1. /\ t \in Subs /\ t.done = TRUE
        /\ t.err = IF s.done THEN s.err ELSE IF s.cause # "none" /\ err # "uncertain" THEN s.cause ELSE err
        /\ t.once = s.once /\ t.cause = s.cause /\ t.queued = s.queued /\ t.lost = s.lost
        /\ t.rows = s.rows /\ t.kept = s.kept /\ t.complete = s.complete
    BY CloseIs
  <1>2. s.cause \in {"none", "context", "slow"} /\ s.done \in BOOLEAN
    BY DEF Subs
  <1> HIDE DEF t
  <1>3. SubOK(k, t)
    BY <1>1, <1>2 DEF SubOK
  <1>4. CauseOK(t, h, cq)
    BY <1>1, <1>2 DEF CauseOK, SubOK, MayClose
  <1> QED BY <1>1, <1>3, <1>4 DEF t

\* The cancel callback ends the route, uncertain only when a live connection
\* refused the request.
LEMMA ActorCancelIs ==
  ASSUME NEW w \in Worlds, NEW c \in Calls, w.route[c], NEW refused \in BOOLEAN
  PROVE  \E l \in Links, err \in {"uncertain", "clean"} :
           ActorCancel(w, c, refused) = RouteOff(w, c, closeWithErr(w.sub[c], err), l)
  <1>1. "retiring" \in Links /\ w.link \in Links
    BY DEF Links, Worlds
  <1>2. CASE refused /\ w.link = "ready"
    <2>1. ActorCancel(w, c, refused) = RouteOff(w, c, closeWithErr(w.sub[c], "uncertain"), "retiring")
      BY <1>2 DEF ActorCancel, RouteOff, Worlds
    <2> QED BY <1>1, <2>1
  <1>3. CASE ~(refused /\ w.link = "ready")
    <2>1. ActorCancel(w, c, refused) = RouteOff(w, c, closeWithErr(w.sub[c], "clean"), w.link)
      BY <1>3 DEF ActorCancel, RouteOff, Worlds
    <2> QED BY <1>1, <2>1
  <1> QED BY <1>2, <1>3

\* A cancellation the caller asked for, or one with a recorded cause.
LEMMA ActorCancelTurn ==
  ASSUME NEW w, NEW q, TurnOK(w, q, {}, FALSE), NEW c \in Calls, NEW refused \in BOOLEAN,
         helper[c]["user"] = "off" => w.sub[c].cause # "none"
  PROVE  TurnOK(ActorCancel(w, c, refused), q, {}, FALSE)
  <1>1. CASE ~w.route[c]
    BY <1>1 DEF ActorCancel
  <1>2. CASE w.route[c]
    <2>1. w \in Worlds /\ CallIn(w, q, {}, FALSE, c)
      BY DEF TurnOK, CallIn
    <2>2. w.sub[c] \in Subs /\ SubOK(kind[c], w.sub[c]) /\ CauseOK(w.sub[c], helper[c], Queued(q, "cancel", c))
      BY <2>1 DEF Worlds, CallIn, CallOK
    <2>3. PICK l \in Links, err \in {"uncertain", "clean"} :
            ActorCancel(w, c, refused) = RouteOff(w, c, closeWithErr(w.sub[c], err), l)
      BY <1>2, <2>1, ActorCancelIs
    <2>4. err \in Errs /\ err # "none"
      BY DEF Errs
    <2> DEFINE t == closeWithErr(w.sub[c], err)
    <2>5. t \in Subs /\ SubOK(kind[c], t) /\ CauseOK(t, helper[c], Queued(q, "cancel", c))
          /\ t.complete = w.sub[c].complete
      <3> DEFINE s == w.sub[c]
                 h == helper[c]
                 cq == Queued(q, "cancel", c)
      <3>1. s \in Subs /\ SubOK(kind[c], s) /\ CauseOK(s, h, cq)
            /\ MayClose(s, h, err)
        BY <2>2 DEF MayClose
      <3> HIDE DEF s, h, cq
      <3>2. closeWithErr(s, err) \in Subs /\ SubOK(kind[c], closeWithErr(s, err))
            /\ CauseOK(closeWithErr(s, err), h, cq) /\ closeWithErr(s, err).complete = s.complete
        BY <2>4, <3>1, CloseSub
      <3> QED BY <3>2 DEF s, h, cq
    <2> HIDE DEF t
    <2>6. TurnOK(RouteOff(w, c, t, l), q, {}, FALSE)
      BY <1>2, <2>5, OffTurn
    <2> QED BY <2>3, <2>6 DEF t
  <1> QED BY <1>1, <1>2

\* An answer to a call whose setup is gone and that has none yet.
LEMMA AnswerTurn ==
  ASSUME NEW w, NEW q, TurnOK(w, q, {}, FALSE), NEW c \in Calls, NEW r \in Responses, r # "handle",
         ~w.route[c], w.replies[c] = 0, ~Waits(q, w.parked, {}, c), pc[c] \notin {"idle", "enqueue"}
  PROVE  TurnOK(Respond(w, c, r), q, {}, FALSE)
  <1> DEFINE v == Respond(w, c, r)
  <1>1. w \in Worlds /\ q \in Seq(Commands) /\ SetupsOnce(q, w.parked, {}) /\ CallIn(w, q, {}, FALSE, c)
    BY DEF TurnOK, CallIn
  <1>2. /\ v \in Worlds /\ v.parked = w.parked
        /\ v.resp[c] = r /\ v.replies[c] = w.replies[c] + 1 /\ v.route[c] = w.route[c] /\ v.sub[c] = w.sub[c]
        /\ \A d \in Calls \ {c} : SameCall(v, w, d)
    BY <1>1, RespondIs
  <1> HIDE DEF v
  <1>3. CallIn(v, q, {}, FALSE, c)
    BY <1>1, <1>2 DEF CallIn, CallOK
  <1>4. TurnOK(v, q, {}, FALSE)
    BY <1>1, <1>2, <1>3, TurnTo
  <1> QED BY <1>4 DEF v

\* The answer to a query ends its route.
LEMMA QueryTurn ==
  ASSUME NEW w, NEW q, TurnOK(w, q, {}, FALSE), NEW c \in Calls, w.route[c], kind[c] = "query"
  PROVE  TurnOK(Respond([w EXCEPT !.route[c] = FALSE], c, "ok"), q, {}, FALSE)
  <1> DEFINE u == RouteOff(w, c, w.sub[c], w.link)
  <1>1. w \in Worlds /\ CallIn(w, q, {}, FALSE, c)
    BY DEF TurnOK, CallIn
  <1>2. w.sub[c] \in Subs /\ w.link \in Links /\ SubOK(kind[c], w.sub[c])
        /\ CauseOK(w.sub[c], helper[c], Queued(q, "cancel", c))
    BY <1>1 DEF Worlds, CallIn, CallOK
  <1>3. [w EXCEPT !.route[c] = FALSE] = u
    <2>1. [w.sub EXCEPT ![c] = w.sub[c]] = w.sub
      BY <1>1 DEF Worlds
    <2> QED BY <1>1, <2>1 DEF Worlds, RouteOff
  <1>4. u.parked = w.parked /\ u.replies[c] = w.replies[c] /\ ~u.route[c]
    BY <1>1, <1>2, RouteOffIs
  <1>5. TurnOK(u, q, {}, FALSE)
    BY <1>2, OffTurn
  <1> HIDE DEF u
  <1>6. w.replies[c] = 0 /\ ~Waits(q, w.parked, {}, c) /\ pc[c] \notin {"idle", "enqueue"}
    BY <1>1 DEF CallIn, CallOK
  <1>7. "ok" \in Responses /\ "ok" # "handle"
    BY DEF Responses
  <1>8. TurnOK(Respond(u, c, "ok"), q, {}, FALSE)
    BY <1>4, <1>5, <1>6, <1>7, AnswerTurn
  <1> QED BY <1>3, <1>8

\* emit: the row reaches the stream, is kept for the snapshot, or is lost to a
\* stream without room, which ends with that cause.
LEMMA EmitTurn ==
  ASSUME CallersOK, NEW w, NEW q, TurnOK(w, q, {}, FALSE), NEW c \in Calls, w.route[c], kind[c] # "query",
         NEW refused \in BOOLEAN
  PROVE  TurnOK(EmitRow(w, c, refused), q, {}, FALSE)
  <1> DEFINE s == w.sub[c]
             h == helper[c]
             cq == Queued(q, "cancel", c)
             k == kind[c]
  <1>1. w \in Worlds /\ CallIn(w, q, {}, FALSE, c)
    BY DEF TurnOK, CallIn
  <1>2. s \in Subs /\ w.link \in Links /\ SubOK(k, s) /\ CauseOK(s, h, cq) /\ ~s.done
    BY <1>1 DEF Worlds, CallIn, CallOK
  <1>3. k \in {"stream", "snapshot"}
    BY <1>1 DEF CallersOK, Kinds, CallIn, CallOK
  <1>4. s.queued \in Nat /\ s.rows \in Nat /\ s.kept \in Nat /\ s.complete \in BOOLEAN /\ EventCap \in Nat
    BY <1>2, AdmissionAssumption DEF Subs
  <1>5. s.queued + 1 \in Nat /\ s.rows + 1 \in Nat /\ s.kept + 1 \in Nat
    BY <1>4
  <1>6. CASE k = "snapshot"
    <2> DEFINE kp == IF s.complete THEN s.kept ELSE s.kept + 1
               rw == IF s.complete THEN s.rows ELSE s.rows + 1
               t == [s EXCEPT !.kept = kp, !.rows = rw]
    <2>1. kp \in Nat /\ rw \in Nat /\ (s.kept = s.rows => kp = rw)
      BY <1>4, <1>5
    <2>2. EmitRow(w, c, refused) = RouteOn(w, c, t, w.link)
      <3>1. EmitRow(w, c, refused) = [w EXCEPT !.sub[c].kept = kp, !.sub[c].rows = rw]
        BY <1>2, <1>6 DEF EmitRow
      <3>2. [w.route EXCEPT ![c] = TRUE] = w.route
        BY <1>1 DEF Worlds
      <3> HIDE DEF kp, rw
      <3>3. [w.sub EXCEPT ![c].kept = kp, ![c].rows = rw] = [w.sub EXCEPT ![c] = t]
        BY <1>1, <1>2 DEF Worlds, Subs
      <3>4. [w EXCEPT !.sub[c].kept = kp, !.sub[c].rows = rw] = [w EXCEPT !.sub = [w.sub EXCEPT ![c] = t]]
        BY <1>1, <1>2, <3>3 DEF Worlds
      <3> HIDE DEF t
      <3>5. RouteOn(w, c, t, w.link) = [w EXCEPT !.sub = [w.sub EXCEPT ![c] = t]]
        BY <1>1, <3>2 DEF Worlds, RouteOn
      <3> QED BY <3>1, <3>4, <3>5
    <2> HIDE DEF kp, rw
    <2>3. t \in Subs /\ t.kept = kp /\ t.rows = rw /\ t.once = s.once /\ t.cause = s.cause /\ t.err = s.err
          /\ t.done = s.done /\ t.queued = s.queued /\ t.lost = s.lost /\ t.complete = s.complete
      BY <1>2, <2>1 DEF Subs
    <2> HIDE DEF t
    <2>4. SubOK(k, t) /\ CauseOK(t, h, cq)
      BY <1>2, <2>1, <2>3 DEF SubOK, CauseOK
    <2>5. TurnOK(RouteOn(w, c, t, w.link), q, {}, FALSE)
      BY <1>2, <2>3, <2>4, OnTurn
    <2> QED BY <2>2, <2>5
  <1>7. CASE k = "stream" /\ s.queued < EventCap
    <2> DEFINE n == s.queued + 1
               rw == s.rows + 1
               t == [s EXCEPT !.queued = n, !.rows = rw]
    <2>1. n \in Nat /\ rw \in Nat /\ n <= EventCap
      BY <1>4, <1>5, <1>7
    <2>2. EmitRow(w, c, refused) = RouteOn(w, c, t, w.link)
      <3>1. EmitRow(w, c, refused) = [w EXCEPT !.sub[c].queued = n, !.sub[c].rows = rw]
        BY <1>2, <1>7 DEF EmitRow, HasRoom
      <3>2. [w.route EXCEPT ![c] = TRUE] = w.route
        BY <1>1 DEF Worlds
      <3> HIDE DEF n, rw
      <3>3. [w.sub EXCEPT ![c].queued = n, ![c].rows = rw] = [w.sub EXCEPT ![c] = t]
        BY <1>1, <1>2 DEF Worlds, Subs
      <3>4. [w EXCEPT !.sub[c].queued = n, !.sub[c].rows = rw] = [w EXCEPT !.sub = [w.sub EXCEPT ![c] = t]]
        BY <1>1, <1>2, <3>3 DEF Worlds
      <3> HIDE DEF t
      <3>5. RouteOn(w, c, t, w.link) = [w EXCEPT !.sub = [w.sub EXCEPT ![c] = t]]
        BY <1>1, <3>2 DEF Worlds, RouteOn
      <3> QED BY <3>1, <3>4, <3>5
    <2> HIDE DEF n, rw
    <2>3. t \in Subs /\ t.queued = n /\ t.rows = rw /\ t.once = s.once /\ t.cause = s.cause /\ t.err = s.err
          /\ t.done = s.done /\ t.kept = s.kept /\ t.lost = s.lost /\ t.complete = s.complete
      BY <1>2, <2>1 DEF Subs
    <2> HIDE DEF t
    <2>4. SubOK(k, t) /\ CauseOK(t, h, cq)
      BY <1>2, <1>7, <2>1, <2>3 DEF SubOK, CauseOK
    <2>5. TurnOK(RouteOn(w, c, t, w.link), q, {}, FALSE)
      BY <1>2, <2>3, <2>4, OnTurn
    <2> QED BY <2>2, <2>5
  <1>8. CASE k = "stream" /\ ~(s.queued < EventCap)
    <2> DEFINE a == [s EXCEPT !.lost = TRUE]
               b == recordCancelCause(a, "slow")
               u == RouteOn(w, c, b, w.link)
    <2>1. a \in Subs /\ a.lost = TRUE /\ a.once = s.once /\ a.cause = s.cause /\ a.err = s.err /\ a.done = s.done
          /\ a.queued = s.queued /\ a.rows = s.rows /\ a.kept = s.kept /\ a.complete = s.complete
      BY <1>2 DEF Subs
    <2> HIDE DEF a
    <2>2. /\ b \in Subs /\ b.cause # "none"
          /\ b.once = a.once /\ b.err = a.err /\ b.done = a.done /\ b.queued = a.queued /\ b.lost = a.lost
          /\ b.rows = a.rows /\ b.kept = a.kept /\ b.complete = a.complete
      BY <2>1, RecordIs
    <2>3. EmitRow(w, c, refused) = ActorCancel(u, c, refused)
      <3>1. EmitRow(w, c, refused) = ActorCancel([w EXCEPT !.sub[c] = b], c, refused)
        BY <1>2, <1>8 DEF EmitRow, HasRoom, cancelFromActor, a
      <3>2. [w.route EXCEPT ![c] = TRUE] = w.route
        BY <1>1 DEF Worlds
      <3>3. [w EXCEPT !.sub[c] = b] = u
        BY <1>1, <3>2 DEF Worlds, RouteOn
      <3> QED BY <3>1, <3>3
    <2> HIDE DEF b
    <2>4. u \in Worlds /\ u.route[c] /\ u.sub[c] = b
      BY <1>1, <1>2, <2>2, RouteOnIs
    <2>5. PICK l \in Links, err \in {"uncertain", "clean"} :
            ActorCancel(u, c, refused) = RouteOff(u, c, closeWithErr(b, err), l)
      BY <2>4, ActorCancelIs
    <2>6. err \in Errs /\ err # "none"
      BY DEF Errs
    <2> DEFINE t == closeWithErr(b, err)
    <2>7. /\ t \in Subs /\ t.done = TRUE
          /\ t.err = IF b.done THEN b.err ELSE IF b.cause # "none" /\ err # "uncertain" THEN b.cause ELSE err
          /\ t.once = b.once /\ t.cause = b.cause /\ t.queued = b.queued /\ t.lost = b.lost
          /\ t.rows = b.rows /\ t.kept = b.kept /\ t.complete = b.complete
      BY <2>2, <2>6, CloseIs
    <2>8. RouteOff(u, c, t, l) = RouteOff(w, c, t, l)
      <3> HIDE DEF t
      <3> QED BY <1>1 DEF RouteOn, RouteOff, Worlds
    <2> HIDE DEF t, u
    <2>9. b.cause \in {"context", "slow"} /\ ~b.done
      BY <1>2, <2>1, <2>2 DEF Subs
    <2>10. t.err \in {"uncertain", "context", "slow"}
      BY <2>7, <2>9
    <2>11. SubOK(k, t)
      BY <1>2, <1>8, <2>1, <2>2, <2>7, <2>10 DEF SubOK
    <2>12. CauseOK(t, h, cq)
      BY <2>2, <2>7, <2>10 DEF CauseOK
    <2>13. TurnOK(RouteOff(w, c, t, l), q, {}, FALSE)
      BY <2>1, <2>2, <2>7, <2>11, <2>12, OffTurn
    <2> QED BY <2>3, <2>5, <2>8, <2>13 DEF t
  <1> QED BY <1>3, <1>6, <1>7, <1>8

\* emitState(StreamSnapshotComplete).
LEMMA CompleteTurn ==
  ASSUME NEW w, NEW q, TurnOK(w, q, {}, FALSE), NEW c \in Calls, w.route[c], kind[c] # "query"
  PROVE  TurnOK([w EXCEPT !.sub[c].complete = TRUE], q, {}, FALSE)
  <1> DEFINE s == w.sub[c]
             t == [s EXCEPT !.complete = TRUE]
  <1>1. w \in Worlds /\ CallIn(w, q, {}, FALSE, c)
    BY DEF TurnOK, CallIn
  <1>2. s \in Subs /\ SubOK(kind[c], s) /\ CauseOK(s, helper[c], Queued(q, "cancel", c)) /\ ~s.done
    BY <1>1 DEF Worlds, CallIn, CallOK
  <1>3. [w EXCEPT !.sub[c].complete = TRUE] = RouteOn(w, c, t, w.link)
    <2>1. [w.route EXCEPT ![c] = TRUE] = w.route
      BY <1>1 DEF Worlds
    <2> QED BY <1>1, <2>1 DEF Worlds, RouteOn
  <1>4. t \in Subs /\ t.complete = TRUE /\ t.once = s.once /\ t.cause = s.cause /\ t.err = s.err /\ t.done = s.done
        /\ t.queued = s.queued /\ t.lost = s.lost /\ t.rows = s.rows /\ t.kept = s.kept
    BY <1>2 DEF Subs
  <1> HIDE DEF t
  <1>5. SubOK(kind[c], t) /\ CauseOK(t, helper[c], Queued(q, "cancel", c))
    BY <1>2, <1>4 DEF SubOK, CauseOK
  <1>6. TurnOK(RouteOn(w, c, t, w.link), q, {}, FALSE)
    BY <1>2, <1>4, <1>5, OnTurn
  <1> QED BY <1>3, <1>6

\* EndRoutes: the routes of cs are gone, streams closed with the cause and
\* queries answered with it.
LEMMA EndTurn ==
  ASSUME NEW w, NEW q, TurnOK(w, q, {}, FALSE), NEW cs \in SUBSET Calls,
         NEW why \in {"rejected", "interrupted", "closed"}
  PROVE  LET v == EndRoutes(w, cs, why)
         IN  TurnOK(v, q, {}, FALSE) /\ \A c \in cs : ~v.route[c]
  <1> DEFINE hit == {c \in cs : w.route[c]}
             ask == {c \in hit : kind[c] = "query"}
             rt == [c \in Calls |-> w.route[c] /\ c \notin hit]
             sb == [c \in Calls |-> IF c \in hit \ ask THEN closeWithErr(w.sub[c], why) ELSE w.sub[c]]
             rs == [c \in Calls |-> IF c \in ask THEN why ELSE w.resp[c]]
             rp == [c \in Calls |-> IF c \in ask THEN w.replies[c] + 1 ELSE w.replies[c]]
             v == EndRoutes(w, cs, why)
  <1>1. w \in Worlds /\ q \in Seq(Commands) /\ SetupsOnce(q, w.parked, {}) /\ \A c \in Calls : CallIn(w, q, {}, FALSE, c)
    BY DEF TurnOK, CallIn
  <1>2. w.route \in [Calls -> BOOLEAN] /\ w.sub \in [Calls -> Subs] /\ w.resp \in [Calls -> Responses]
        /\ w.replies \in [Calls -> Nat]
    BY <1>1 DEF Worlds
  <1>3. why \in Responses /\ why \in Errs /\ why # "none" /\ why # "clean" /\ why # "handle" /\ why # "empty"
    BY DEF Responses, Errs
  <1>4. v = [w EXCEPT !.route = rt, !.sub = sb, !.resp = rs, !.replies = rp]
    BY <1>1 DEF EndRoutes, Worlds
  <1>5. \A c \in Calls : closeWithErr(w.sub[c], why) \in Subs
    BY <1>2, <1>3, CloseIs
  <1>6. rt \in [Calls -> BOOLEAN] /\ sb \in [Calls -> Subs] /\ rs \in [Calls -> Responses] /\ rp \in [Calls -> Nat]
    BY <1>2, <1>3, <1>5
  <1>7. \A c \in Calls :
          /\ rt[c] = (w.route[c] /\ c \notin hit)
          /\ sb[c] = IF c \in hit \ ask THEN closeWithErr(w.sub[c], why) ELSE w.sub[c]
          /\ rs[c] = IF c \in ask THEN why ELSE w.resp[c]
          /\ rp[c] = IF c \in ask THEN w.replies[c] + 1 ELSE w.replies[c]
    OBVIOUS
  <1> HIDE DEF v, rt, sb, rs, rp
  <1>8. v \in Worlds /\ v.parked = w.parked /\ v.route = rt /\ v.sub = sb /\ v.resp = rs /\ v.replies = rp
    BY <1>1, <1>4, <1>6 DEF Worlds
  <1>9. ASSUME NEW c \in Calls PROVE CallIn(v, q, {}, FALSE, c)
    <2>1. CallIn(w, q, {}, FALSE, c)
      BY <1>1
    <2>2. CASE c \notin hit
      <3>1. v.route[c] = w.route[c] /\ v.sub[c] = w.sub[c] /\ v.resp[c] = w.resp[c] /\ v.replies[c] = w.replies[c]
        BY <1>2, <1>7, <1>8, <2>2
      <3> QED BY <1>8, <2>1, <3>1 DEF CallIn
    <2>3. CASE c \in hit
      <3>1. w.route[c] /\ ~v.route[c]
        BY <1>7, <1>8, <2>3
      <3>2. ~Waits(q, v.parked, {}, c) /\ pc[c] \notin {"idle", "enqueue"}
        BY <1>8, <2>1, <3>1 DEF CallIn, CallOK
      <3>3. CASE kind[c] = "query"
        <4>1. v.sub[c] = w.sub[c] /\ v.resp[c] = why /\ v.replies[c] = w.replies[c] + 1
          BY <1>7, <1>8, <2>3, <3>3
        <4>2. w.replies[c] = 0
          BY <2>1, <3>1, <3>3 DEF CallIn, CallOK
        <4> QED BY <1>3, <2>1, <3>1, <3>2, <3>3, <4>1, <4>2 DEF CallIn, CallOK
      <3>4. CASE kind[c] # "query"
        <4> DEFINE s == w.sub[c]
                   t == closeWithErr(s, why)
                   h == helper[c]
                   cq == Queued(q, "cancel", c)
        <4>1. v.sub[c] = t /\ v.resp[c] = w.resp[c] /\ v.replies[c] = w.replies[c]
          BY <1>7, <1>8, <2>3, <3>4
        <4>2. s \in Subs /\ SubOK(kind[c], s) /\ CauseOK(s, h, cq)
          BY <1>2, <2>1 DEF CallIn, CallOK
        <4>4. MayClose(s, h, why)
          BY <1>3 DEF MayClose
        <4>3. t.complete = s.complete /\ SubOK(kind[c], t) /\ CauseOK(t, h, cq)
          <5> HIDE DEF s, h, cq
          <5> QED BY <1>3, <4>2, <4>4, CloseSub
        <4> HIDE DEF t
        <4> QED BY <2>1, <3>1, <3>2, <3>4, <4>1, <4>3 DEF CallIn, CallOK
      <3> QED BY <3>3, <3>4
    <2> QED BY <2>2, <2>3
  <1>10. TurnOK(v, q, {}, FALSE)
    BY <1>1, <1>8, <1>9 DEF TurnOK, CallIn
  <1>11. \A c \in cs : ~v.route[c]
    BY <1>7, <1>8
  <1> QED BY <1>10, <1>11 DEF v

\* With no route left the engine may end.
LEMMA TurnEnds ==
  ASSUME NEW w, NEW q, TurnOK(w, q, {}, FALSE), \A c \in Calls : ~w.route[c]
  PROVE  TurnOK(w, q, {}, TRUE)
  <1>1. ASSUME NEW c \in Calls PROVE CallIn(w, q, {}, TRUE, c)
    <2>1. CallIn(w, q, {}, FALSE, c) /\ ~w.route[c]
      BY DEF TurnOK, CallIn
    <2> QED BY <2>1 DEF CallIn, CallOK
  <1> QED BY <1>1 DEF TurnOK, CallIn

\* The actor parks nothing, or drops what is parked; the link is its own.
LEMMA LinkTurn ==
  ASSUME NEW w, NEW q, NEW e, TurnOK(w, q, {}, e), NEW s \in {w.parked, <<>>}, NEW l \in Links
  PROVE  TurnOK(WithParked(w, s, l), q, {}, e)
  <1> DEFINE v == WithParked(w, s, l)
  <1>1. w \in Worlds /\ q \in Seq(Commands) /\ SetupsOnce(q, w.parked, {})
    BY DEF TurnOK
  <1>2. s \in Seq(Calls) /\ \A d : Within(s, d) => Within(w.parked, d)
    <2>1. w.parked \in Seq(Calls) /\ <<>> \in Seq(Calls)
      BY <1>1 DEF Worlds
    <2>2. \A d : ~Within(<<>>, d)
      BY DEF Within
    <2> QED BY <2>1, <2>2
  <1>3. v \in Worlds /\ v.parked = s /\ \A d \in Calls : SameCall(v, w, d)
    BY <1>1, <1>2, ParkedIs
  <1> HIDE DEF v
  <1>4. SetupsOnce(q, s, {})
    BY <1>1, <1>2 DEF SetupsOnce
  <1>5. \A d \in Calls : Waits(q, s, {}, d) => Waits(q, w.parked, {}, d)
    BY <1>2 DEF Waits
  <1>6. TurnOK(v, q, {}, e)
    BY <1>1, <1>3, <1>4, <1>5, TurnDrops
  <1> QED BY <1>6 DEF v

------------------------------------------------------------------------------
(* Steps of callers, contexts and cancelling threads: one call changes.     *)

\* The invariant of one call in the present state.
CallHere(c) ==
    CallOK(kind[c], pc[c], ctx[c], resp[c], replies[c], result[c], Waits(cmds, parked, {}, c),
           route[c], sub[c], helper[c], Queued(cmds, "abandon", c), Queued(cmds, "cancel", c), done)

\* The actor's side.
ActorOK ==
    /\ resp \in [Calls -> Responses] /\ replies \in [Calls -> Nat] /\ parked \in Seq(Calls)
    /\ route \in [Calls -> BOOLEAN] /\ sub \in [Calls -> Subs] /\ link \in Links /\ actor = "free"

\* The invariant without the record of the actor's turns.
Plain ==
    /\ CallersOK /\ ActorOK /\ Len(cmds) <= QueueCap
    /\ cmds \in Seq(Commands) /\ SetupsOnce(cmds, parked, {})
    /\ \A c \in Calls : CallHere(c)

\* The two forms say the same.
LEMMA InvIs == IInv <=> Plain
  <1>1. /\ World.resp = resp /\ World.replies = replies /\ World.parked = parked /\ World.route = route
        /\ World.sub = sub /\ World.link = link /\ World.actor = actor
    BY DEF World
  <1>2. World \in Worlds <=> ActorOK
    BY DEF World, Worlds, ActorOK
  <1> QED BY <1>1, <1>2 DEF IInv, TurnOK, CallHere, Plain

\* What a step of one caller leaves alone.
Others(c) ==
    /\ UNCHANGED <<kind, replies, parked, route, link, actor, done>>
    /\ \A d \in Calls \ {c} :
         /\ pc'[d] = pc[d] /\ ctx'[d] = ctx[d] /\ resp'[d] = resp[d] /\ result'[d] = result[d]
         /\ sub'[d] = sub[d] /\ helper'[d] = helper[d]

\* A send on the command queue, which has room, or none.
Sends(c, job) ==
    \/ Len(cmds) < QueueCap /\ cmds' = Append(cmds, [do |-> job, c |-> c])
    \/ cmds' = cmds

\* What such a send queues.
LEMMA SendsIs ==
  ASSUME IInv, NEW c \in Calls, NEW job \in Jobs, Sends(c, job), parked' = parked,
         job = "setup" => ~Waits(cmds, parked, {}, c)
  PROVE  /\ cmds' \in Seq(Commands) /\ Len(cmds') <= QueueCap /\ SetupsOnce(cmds', parked', {})
         /\ \A d \in Calls \ {c} :
              /\ Waits(cmds', parked', {}, d) = Waits(cmds, parked, {}, d)
              /\ \A j \in Jobs : Queued(cmds', j, d) = Queued(cmds, j, d)
         /\ \A j \in Jobs : Queued(cmds', j, c) => Queued(cmds, j, c) \/ j = job
         /\ \A j \in Jobs : Queued(cmds, j, c) => Queued(cmds', j, c)
         /\ cmds' # cmds => Queued(cmds', job, c)
  <1>1. cmds \in Seq(Commands) /\ Len(cmds) <= QueueCap /\ SetupsOnce(cmds, parked, {})
    BY InvIs DEF Plain
  <1>2. CASE cmds' = cmds
    BY <1>1, <1>2
  <1>3. CASE Len(cmds) < QueueCap /\ cmds' = Append(cmds, [do |-> job, c |-> c])
    <2> DEFINE a == Append(cmds, [do |-> job, c |-> c])
    <2>1. /\ a \in Seq(Commands) /\ Len(a) = Len(cmds) + 1
          /\ \A j \in Jobs, d \in Calls : Queued(a, j, d) = (Queued(cmds, j, d) \/ (j = job /\ d = c))
      BY <1>1, QueuedAppend
    <2>2. job = "setup" => ~Queued(cmds, "setup", c) /\ ~Within(parked, c)
      BY DEF Waits
    <2>3. SetupsOnce(a, parked, {})
      BY <1>1, <2>2, OnceAppend
    <2> HIDE DEF a
    <2>4. "setup" \in Jobs
      BY DEF Jobs
    <2>5. \A d \in Calls \ {c} : Waits(a, parked, {}, d) = Waits(cmds, parked, {}, d)
      BY <2>1, <2>4 DEF Waits
    <2>6. Len(a) <= QueueCap
      <3>1. Len(cmds) \in Nat /\ QueueCap \in Nat
        BY <1>1, AdmissionAssumption
      <3> QED BY <1>3, <2>1, <3>1
    <2>7. cmds' = a
      BY <1>3 DEF a
    <2>8. \A d \in Calls \ {c} : \A j \in Jobs : Queued(a, j, d) = Queued(cmds, j, d)
      BY <2>1 DEF Queued
    <2>9. /\ \A j \in Jobs : Queued(a, j, c) => Queued(cmds, j, c) \/ j = job
          /\ \A j \in Jobs : Queued(cmds, j, c) => Queued(a, j, c)
          /\ Queued(a, job, c)
      BY <2>1
    <2> QED BY <2>1, <2>3, <2>5, <2>6, <2>7, <2>8, <2>9
  <1> QED BY <1>2, <1>3 DEF Sends

\* A step of one call, with at most one command sent for it.
LEMMA CallerStep ==
  ASSUME IInv, NEW c \in Calls, Others(c), NEW job \in Jobs, Sends(c, job),
         job = "setup" => ~Waits(cmds, parked, {}, c),
         CallersOK', resp' \in [Calls -> Responses], sub' \in [Calls -> Subs],
         CallHere(c)'
  PROVE  IInv'
  <1>1. /\ CallersOK /\ ActorOK /\ Len(cmds) <= QueueCap
        /\ cmds \in Seq(Commands) /\ SetupsOnce(cmds, parked, {})
        /\ \A d \in Calls : CallHere(d)
    BY InvIs DEF Plain
  <1>2. parked' = parked
    BY DEF Others
  <1>3. /\ cmds' \in Seq(Commands) /\ Len(cmds') <= QueueCap /\ SetupsOnce(cmds', parked', {})
        /\ \A d \in Calls \ {c} :
             /\ Waits(cmds', parked', {}, d) = Waits(cmds, parked, {}, d)
             /\ \A j \in Jobs : Queued(cmds', j, d) = Queued(cmds, j, d)
    BY <1>2, SendsIs
  <1>4. ActorOK'
    BY <1>1 DEF ActorOK, Others
  <1>5. "abandon" \in Jobs /\ "cancel" \in Jobs
    BY DEF Jobs
  <1>6. ASSUME NEW d \in Calls \ {c} PROVE CallHere(d)'
    <2>1. CallHere(d)
      BY <1>1
    <2>2. /\ kind'[d] = kind[d] /\ replies'[d] = replies[d] /\ route'[d] = route[d] /\ done' = done
          /\ pc'[d] = pc[d] /\ ctx'[d] = ctx[d] /\ resp'[d] = resp[d] /\ result'[d] = result[d]
          /\ sub'[d] = sub[d] /\ helper'[d] = helper[d]
      BY DEF Others
    <2>3. /\ Waits(cmds', parked', {}, d) = Waits(cmds, parked, {}, d)
          /\ Queued(cmds', "abandon", d) = Queued(cmds, "abandon", d)
          /\ Queued(cmds', "cancel", d) = Queued(cmds, "cancel", d)
      BY <1>3, <1>5
    <2> QED BY <2>1, <2>2, <2>3 DEF CallHere
  <1>7. \A d \in Calls : CallHere(d)'
    BY <1>6
  <1>8. Plain'
    BY <1>3, <1>4, <1>7 DEF Plain
  <1> QED BY <1>8, InvIs, PTL

\* A step that sends nothing.
LEMMA QuietStep ==
  ASSUME IInv, NEW c \in Calls, Others(c), cmds' = cmds,
         CallersOK', resp' \in [Calls -> Responses], sub' \in [Calls -> Subs],
         CallOK(kind[c], pc'[c], ctx'[c], resp'[c], replies[c], result'[c], Waits(cmds, parked, {}, c),
                route[c], sub'[c], helper'[c], Queued(cmds, "abandon", c), Queued(cmds, "cancel", c), done)
  PROVE  IInv'
  <1>1. "cancel" \in Jobs /\ "cancel" # "setup"
    BY DEF Jobs
  <1>2. Sends(c, "cancel")
    BY DEF Sends
  <1>3. CallHere(c)'
    BY DEF CallHere, Others
  <1> QED BY <1>1, <1>2, <1>3, CallerStep

\* The facts a step of call c starts from.
LEMMA Facts ==
  ASSUME IInv, NEW c \in Calls
  PROVE  /\ CallersOK /\ ActorOK /\ CallHere(c) /\ sub[c] \in Subs /\ helper[c] \in Threads
         /\ kind[c] \in Kinds /\ pc[c] \in Places /\ resp[c] \in Responses
  <1>1. CallersOK /\ ActorOK /\ CallHere(c)
    BY InvIs DEF Plain
  <1> QED BY <1>1 DEF CallersOK, ActorOK

\* A call begins.
LEMMA CallInv ==
  ASSUME IInv, NEW c \in Calls, Call(c)
  PROVE  IInv'
  <1>1. CallersOK /\ ActorOK /\ CallHere(c)
    BY Facts
  <1>2. pc'[c] = "enqueue" /\ "enqueue" \in Places /\ \A d \in Calls \ {c} : pc'[d] = pc[d]
    BY <1>1 DEF Call, CallersOK, Places
  <1>3. pc' \in [Calls -> Places] /\ UNCHANGED <<resp, result, sub, helper, cmds, kind, ctx, replies, parked, route, actor, link, done>>
    BY <1>1, <1>2 DEF Call, CallersOK, callerFrame
  <1>4. Others(c)
    BY <1>2, <1>3 DEF Others
  <1>5. CallersOK' /\ resp' \in [Calls -> Responses] /\ sub' \in [Calls -> Subs]
    BY <1>1, <1>3 DEF CallersOK, ActorOK
  <1>6. pc[c] = "idle"
    BY DEF Call
  <1>7. CallOK(kind[c], pc'[c], ctx'[c], resp'[c], replies[c], result'[c], Waits(cmds, parked, {}, c),
               route[c], sub'[c], helper'[c], Queued(cmds, "abandon", c), Queued(cmds, "cancel", c), done)
    BY <1>1, <1>2, <1>3, <1>6 DEF CallHere, CallOK
  <1> QED BY <1>3, <1>4, <1>5, <1>7, QuietStep

\* e.enqueue puts the setup into the queue, or the engine is closed.
LEMMA EnqueueInv ==
  ASSUME IInv, NEW c \in Calls, Enqueue(c)
  PROVE  IInv'
  <1>1. CallersOK /\ ActorOK /\ CallHere(c)
    BY Facts
  <1>2. pc'[c] = "await" /\ "await" \in Places /\ \A d \in Calls \ {c} : pc'[d] = pc[d]
    BY <1>1 DEF Enqueue, CallersOK, Places
  <1>3. pc' \in [Calls -> Places] /\ UNCHANGED <<resp, result, sub, helper, kind, ctx, replies, parked, route, actor, link, done>>
    BY <1>1, <1>2 DEF Enqueue, CallersOK, callerFrame
  <1>4. Others(c)
    BY <1>2, <1>3 DEF Others
  <1>5. CallersOK' /\ resp' \in [Calls -> Responses] /\ sub' \in [Calls -> Subs]
    BY <1>1, <1>3 DEF CallersOK, ActorOK
  <1>6. pc[c] = "enqueue" /\ Sends(c, "setup")
    BY DEF Enqueue, Sends, Room
  <1>7. ~Waits(cmds, parked, {}, c) /\ "setup" \in Jobs /\ "abandon" \in Jobs /\ "cancel" \in Jobs
    BY <1>1, <1>6 DEF CallHere, CallOK, Jobs
  <1>8. /\ Queued(cmds', "abandon", c) => Queued(cmds, "abandon", c)
        /\ Queued(cmds, "abandon", c) => Queued(cmds', "abandon", c)
        /\ Queued(cmds', "cancel", c) => Queued(cmds, "cancel", c)
    BY <1>3, <1>6, <1>7, SendsIs
  <1>9. CallHere(c)'
    BY <1>1, <1>2, <1>3, <1>6, <1>8 DEF CallHere, CallOK, CauseOK
  <1> QED BY <1>4, <1>5, <1>6, <1>7, <1>9, CallerStep

\* The caller takes the response it got, a handle with the thread bindContext
\* starts.
LEMMA ReceivedInv ==
  ASSUME IInv, NEW c \in Calls, pc[c] = "await", resp[c] # "empty", Received(c, resp[c])
  PROVE  IInv'
  <1>1. /\ CallersOK /\ ActorOK /\ CallHere(c) /\ helper[c] \in Threads /\ resp[c] \in Responses
        /\ kind[c] \in Kinds
    BY Facts
  <1>2. /\ UNCHANGED <<sub, cmds, kind, ctx, replies, parked, route, actor, link, done>>
        /\ resp' = [resp EXCEPT ![c] = "empty"]
    BY DEF Received, callerFrame
  <1>3. "empty" \in Responses /\ replies[c] = 1 /\ ~Waits(cmds, parked, {}, c) /\ helper[c]["user"] = "off"
    BY <1>1 DEF Responses, CallHere, CallOK
  <1>4. resp' \in [Calls -> Responses] /\ resp'[c] = "empty" /\ \A d \in Calls \ {c} : resp'[d] = resp[d]
    BY <1>1, <1>2, <1>3 DEF ActorOK
  <1>5. CASE resp[c] = "handle"
    <2> DEFINE p == IF kind[c] = "snapshot" THEN "collect" ELSE "held"
               h == [helper[c] EXCEPT !["watch"] = "armed"]
    <2>1. p \in Places /\ p \in {"collect", "held"} /\ (p = "collect" => kind[c] = "snapshot")
      BY DEF Places
    <2>2. pc' = [pc EXCEPT ![c] = p] /\ helper' = [helper EXCEPT ![c]["watch"] = "armed"] /\ result' = result
      BY <1>5 DEF Received
    <2>3. h \in Threads /\ h["watch"] = "armed" /\ h["user"] = helper[c]["user"]
      BY <1>1 DEF Threads, Cancellers
    <2>4. helper' = [helper EXCEPT ![c] = h]
      BY <1>1, <2>2 DEF CallersOK
    <2> HIDE DEF p, h
    <2>5. /\ pc' \in [Calls -> Places] /\ pc'[c] = p /\ \A d \in Calls \ {c} : pc'[d] = pc[d]
          /\ helper' \in [Calls -> Threads] /\ helper'[c] = h /\ \A d \in Calls \ {c} : helper'[d] = helper[d]
      BY <1>1, <2>1, <2>2, <2>3, <2>4 DEF CallersOK
    <2>6. Others(c)
      BY <1>2, <1>4, <2>2, <2>5 DEF Others
    <2>7. CallersOK' /\ sub' \in [Calls -> Subs]
      BY <1>1, <1>2, <2>2, <2>5 DEF CallersOK, ActorOK
    <2>8. kind[c] # "query"
      BY <1>1, <1>5 DEF CallHere, CallOK
    <2>9. CallOK(kind[c], pc'[c], ctx'[c], resp'[c], replies[c], result'[c], Waits(cmds, parked, {}, c),
                 route[c], sub'[c], helper'[c], Queued(cmds, "abandon", c), Queued(cmds, "cancel", c), done)
      <3>1. CauseOK(sub[c], h, Queued(cmds, "cancel", c))
        BY <1>1, <2>3 DEF CallHere, CallOK, CauseOK
      <3> QED BY <1>1, <1>2, <1>3, <1>4, <2>1, <2>2, <2>3, <2>5, <2>8, <3>1 DEF CallHere, CallOK
    <2> QED BY <1>2, <1>4, <2>6, <2>7, <2>9, QuietStep
  <1>6. CASE resp[c] # "handle"
    <2> DEFINE r == IF resp[c] = "zero" THEN "context" ELSE resp[c]
    <2>1. r \in Results /\ r # "rows" /\ "returned" \in Places
      BY <1>1 DEF Results, Responses, Errs, Places
    <2>2. pc' = [pc EXCEPT ![c] = "returned"] /\ helper' = helper /\ result' = [result EXCEPT ![c] = r]
      BY <1>6 DEF Received
    <2> HIDE DEF r
    <2>3. /\ pc' \in [Calls -> Places] /\ pc'[c] = "returned" /\ \A d \in Calls \ {c} : pc'[d] = pc[d]
          /\ result' \in [Calls -> Results] /\ result'[c] = r /\ \A d \in Calls \ {c} : result'[d] = result[d]
      BY <1>1, <2>1, <2>2 DEF CallersOK
    <2>4. Others(c)
      BY <1>2, <1>4, <2>2, <2>3 DEF Others
    <2>5. CallersOK' /\ sub' \in [Calls -> Subs]
      BY <1>1, <1>2, <2>2, <2>3 DEF CallersOK, ActorOK
    <2>6. ~route[c]
      BY <1>1, <1>3, <1>6 DEF CallHere, CallOK
    <2>7. CallOK(kind[c], pc'[c], ctx'[c], resp'[c], replies[c], result'[c], Waits(cmds, parked, {}, c),
                 route[c], sub'[c], helper'[c], Queued(cmds, "abandon", c), Queued(cmds, "cancel", c), done)
      BY <1>1, <1>2, <1>3, <1>4, <2>1, <2>2, <2>3, <2>6 DEF CallHere, CallOK
    <2> QED BY <1>2, <1>4, <2>4, <2>5, <2>7, QuietStep
  <1> QED BY <1>5, <1>6

\* A wait ends without a response when the engine is closed.
LEMMA ReturnInv ==
  ASSUME IInv, NEW c \in Calls, pc[c] = "await", done, Return(c, "closed")
  PROVE  IInv'
  <1>1. CallersOK /\ ActorOK /\ CallHere(c) /\ kind[c] \in Kinds
    BY Facts
  <1>2. UNCHANGED <<resp, sub, helper, cmds, kind, ctx, replies, parked, route, actor, link, done>>
    BY DEF Return, callerFrame
  <1>3. "closed" \in Results /\ "returned" \in Places
    BY DEF Results, Responses, Errs, Places
  <1>4. /\ pc' \in [Calls -> Places] /\ pc'[c] = "returned" /\ \A d \in Calls \ {c} : pc'[d] = pc[d]
        /\ result' \in [Calls -> Results] /\ result'[c] = "closed" /\ \A d \in Calls \ {c} : result'[d] = result[d]
    BY <1>1, <1>3 DEF Return, CallersOK
  <1>5. Others(c)
    BY <1>2, <1>4 DEF Others
  <1>6. CallersOK' /\ resp' \in [Calls -> Responses] /\ sub' \in [Calls -> Subs]
    BY <1>1, <1>2, <1>4 DEF CallersOK, ActorOK
  <1>7. ~route[c]
    BY <1>1 DEF CallHere, CallOK
  <1>8. CallOK(kind[c], pc'[c], ctx'[c], resp'[c], replies[c], result'[c], Waits(cmds, parked, {}, c),
               route[c], sub'[c], helper'[c], Queued(cmds, "abandon", c), Queued(cmds, "cancel", c), done)
    BY <1>1, <1>2, <1>4, <1>7 DEF CallHere, CallOK
  <1> QED BY <1>2, <1>5, <1>6, <1>8, QuietStep

\* A query's caller leaves for its context and still owes the release.
LEMMA AwaitInv ==
  ASSUME IInv, NEW c \in Calls, AwaitAdmitted(c) \/ AwaitOneShot(c)
  PROVE  IInv'
  <1>1. CASE pc[c] = "await" /\ resp[c] # "empty" /\ Received(c, resp[c])
    BY <1>1, ReceivedInv
  <1>2. CASE pc[c] = "await" /\ done /\ Return(c, "closed")
    BY <1>2, ReturnInv
  <1>3. CASE /\ pc[c] = "await" /\ kind[c] = "query" /\ ctx[c] /\ pc' = [pc EXCEPT ![c] = "abandon"]
             /\ UNCHANGED <<resp, result, sub, helper, cmds, callerFrame>>
    <2>1. CallersOK /\ ActorOK /\ CallHere(c)
      BY Facts
    <2>2. UNCHANGED <<resp, result, sub, helper, cmds, kind, ctx, replies, parked, route, actor, link, done>>
      BY <1>3 DEF callerFrame
    <2>3. "abandon" \in Places
      BY DEF Places
    <2>4. pc' \in [Calls -> Places] /\ pc'[c] = "abandon" /\ \A d \in Calls \ {c} : pc'[d] = pc[d]
      BY <1>3, <2>1, <2>3 DEF CallersOK
    <2>5. Others(c)
      BY <2>2, <2>4 DEF Others
    <2>6. CallersOK' /\ resp' \in [Calls -> Responses] /\ sub' \in [Calls -> Subs]
      BY <2>1, <2>2, <2>4 DEF CallersOK, ActorOK
    <2>7. CallOK(kind[c], pc'[c], ctx'[c], resp'[c], replies[c], result'[c], Waits(cmds, parked, {}, c),
                 route[c], sub'[c], helper'[c], Queued(cmds, "abandon", c), Queued(cmds, "cancel", c), done)
      BY <1>3, <2>1, <2>2, <2>4 DEF CallHere, CallOK
    <2> QED BY <2>2, <2>5, <2>6, <2>7, QuietStep
  <1> QED BY <1>1, <1>2, <1>3 DEF AwaitAdmitted, AwaitOneShot, GivesUp

\* The release of a query's route is sent before its caller returns.
LEMMA AbandonInv ==
  ASSUME IInv, NEW c \in Calls, Abandon(c)
  PROVE  IInv'
  <1>1. CallersOK /\ ActorOK /\ CallHere(c)
    BY Facts
  <1>2. UNCHANGED <<resp, sub, helper, kind, ctx, replies, parked, route, actor, link, done>>
    BY DEF Abandon, callerFrame
  <1>3. "context" \in Results /\ "returned" \in Places /\ "context" # "rows"
    BY DEF Results, Responses, Errs, Places
  <1>4. /\ pc' \in [Calls -> Places] /\ pc'[c] = "returned" /\ \A d \in Calls \ {c} : pc'[d] = pc[d]
        /\ result' \in [Calls -> Results] /\ result'[c] = "context" /\ \A d \in Calls \ {c} : result'[d] = result[d]
    BY <1>1, <1>3 DEF Abandon, CallersOK
  <1>5. Others(c)
    BY <1>2, <1>4 DEF Others
  <1>6. CallersOK' /\ resp' \in [Calls -> Responses] /\ sub' \in [Calls -> Subs]
    BY <1>1, <1>2, <1>4 DEF CallersOK, ActorOK
  <1>7. pc[c] = "abandon" /\ Sends(c, "abandon")
    BY DEF Abandon, Sends, Room
  <1>8. "setup" \in Jobs /\ "abandon" \in Jobs /\ "cancel" \in Jobs /\ "abandon" # "setup" /\ "cancel" # "abandon"
    BY DEF Jobs
  <1>9. /\ Queued(cmds, "abandon", c) => Queued(cmds', "abandon", c)
        /\ Queued(cmds', "cancel", c) => Queued(cmds, "cancel", c)
        /\ Queued(cmds', "setup", c) => Queued(cmds, "setup", c)
        /\ cmds' # cmds => Queued(cmds', "abandon", c)
    BY <1>2, <1>7, <1>8, SendsIs
  <1>10. Waits(cmds', parked', {}, c) => Waits(cmds, parked, {}, c)
    BY <1>2, <1>9 DEF Waits
  <1>11. route[c] => Queued(cmds', "abandon", c)
    <2>1. Queued(cmds', "abandon", c) \/ done
      <3>1. CASE done
        BY <3>1
      <3>2. CASE cmds' = Append(cmds, [do |-> "abandon", c |-> c])
        <4>1. cmds \in Seq(Commands)
          BY InvIs DEF Plain
        <4>2. \A j \in Jobs, d \in Calls :
                Queued(Append(cmds, [do |-> "abandon", c |-> c]), j, d) = (Queued(cmds, j, d) \/ (j = "abandon" /\ d = c))
          BY <1>8, <4>1, QueuedAppend
        <4> QED BY <1>8, <3>2, <4>2
      <3> QED BY <3>1, <3>2 DEF Abandon
    <2> QED BY <1>1, <2>1 DEF CallHere, CallOK
  <1>12. CallHere(c)'
    BY <1>1, <1>2, <1>3, <1>4, <1>7, <1>9, <1>10, <1>11 DEF CallHere, CallOK, CauseOK
  <1> QED BY <1>5, <1>6, <1>7, <1>8, <1>12, CallerStep

\* The consumer takes an event.
LEMMA ConsumeInv ==
  ASSUME IInv, NEW c \in Calls, Consume(c)
  PROVE  IInv'
  <1> DEFINE s == sub[c]
             n == s.queued - 1
             t == [s EXCEPT !.queued = n]
  <1>1. CallersOK /\ ActorOK /\ CallHere(c) /\ s \in Subs
    BY Facts
  <1>2. UNCHANGED <<pc, resp, result, helper, cmds, kind, ctx, replies, parked, route, actor, link, done>>
    BY DEF Consume, callerFrame
  <1>3. s.queued \in Nat /\ s.queued > 0
    BY <1>1 DEF Consume, Subs
  <1>4. n \in Nat /\ n <= s.queued
    BY <1>3
  <1>5. sub' = [sub EXCEPT ![c] = t]
    BY <1>1 DEF Consume, ActorOK
  <1> HIDE DEF n
  <1>6. t \in Subs /\ t.queued = n /\ t.once = s.once /\ t.cause = s.cause /\ t.err = s.err /\ t.done = s.done
        /\ t.lost = s.lost /\ t.rows = s.rows /\ t.kept = s.kept /\ t.complete = s.complete
    BY <1>1, <1>4 DEF Subs
  <1> HIDE DEF t
  <1>7. sub' \in [Calls -> Subs] /\ sub'[c] = t /\ \A d \in Calls \ {c} : sub'[d] = sub[d]
    BY <1>1, <1>5, <1>6 DEF ActorOK
  <1>8. Others(c)
    BY <1>2, <1>7 DEF Others
  <1>9. CallersOK' /\ resp' \in [Calls -> Responses]
    BY <1>1, <1>2 DEF CallersOK, ActorOK
  <1>10. SubOK(kind[c], t)
    <2>1. EventCap \in Nat
      BY AdmissionAssumption
    <2> QED BY <1>1, <1>3, <1>4, <1>6, <2>1 DEF CallHere, CallOK, SubOK
  <1>11. CauseOK(t, helper[c], Queued(cmds, "cancel", c))
    BY <1>1, <1>6 DEF CallHere, CallOK, CauseOK
  <1>12. CallOK(kind[c], pc'[c], ctx'[c], resp'[c], replies[c], result'[c], Waits(cmds, parked, {}, c),
                route[c], sub'[c], helper'[c], Queued(cmds, "abandon", c), Queued(cmds, "cancel", c), done)
    BY <1>1, <1>2, <1>6, <1>7, <1>10, <1>11 DEF CallHere, CallOK
  <1> QED BY <1>2, <1>7, <1>8, <1>9, <1>12, QuietStep

\* A public Close begins.
LEMMA CloseStreamInv ==
  ASSUME IInv, NEW c \in Calls, CloseStream(c)
  PROVE  IInv'
  <1> DEFINE h == [helper[c] EXCEPT !["user"] = "once"]
  <1>1. CallersOK /\ ActorOK /\ CallHere(c) /\ helper[c] \in Threads
    BY Facts
  <1>2. UNCHANGED <<pc, resp, result, sub, cmds, kind, ctx, replies, parked, route, actor, link, done>>
    BY DEF CloseStream, callerFrame
  <1>3. h \in Threads /\ h["user"] = "once"
    BY <1>1 DEF Threads, Cancellers
  <1>4. helper' = [helper EXCEPT ![c] = h]
    BY <1>1 DEF CloseStream, CallersOK
  <1> HIDE DEF h
  <1>5. helper' \in [Calls -> Threads] /\ helper'[c] = h /\ \A d \in Calls \ {c} : helper'[d] = helper[d]
    BY <1>1, <1>3, <1>4 DEF CallersOK
  <1>6. Others(c)
    BY <1>2, <1>5 DEF Others
  <1>7. CallersOK' /\ resp' \in [Calls -> Responses] /\ sub' \in [Calls -> Subs]
    BY <1>1, <1>2, <1>5 DEF CallersOK, ActorOK
  <1>8. pc[c] = "held"
    BY DEF CloseStream
  <1>9. CallOK(kind[c], pc'[c], ctx'[c], resp'[c], replies[c], result'[c], Waits(cmds, parked, {}, c),
               route[c], sub'[c], helper'[c], Queued(cmds, "abandon", c), Queued(cmds, "cancel", c), done)
    BY <1>1, <1>2, <1>3, <1>5, <1>8 DEF CallHere, CallOK, CauseOK
  <1> QED BY <1>2, <1>6, <1>7, <1>9, QuietStep

\* The collector takes rows for success only from a snapshot that is complete:
\* nothing has closed its subscription cleanly before it did.
LEMMA CollectInv ==
  ASSUME IInv, NEW c \in Calls, CollectSnapshot(c)
  PROVE  IInv'
  <1> DEFINE h == [helper[c] EXCEPT !["user"] = "once"]
  <1>1. CallersOK /\ ActorOK /\ CallHere(c) /\ helper[c] \in Threads /\ sub[c] \in Subs
    BY Facts
  <1>2. UNCHANGED <<resp, sub, cmds, kind, ctx, replies, parked, route, actor, link, done>> /\ pc[c] = "collect"
    BY DEF CollectSnapshot, callerFrame
  <1>3. PICK r \in Collected(c) : pc' = [pc EXCEPT ![c] = "wait"] /\ result' = [result EXCEPT ![c] = r]
    BY DEF CollectSnapshot
  <1>4. sub[c].err \in Errs /\ "wait" \in Places /\ "rows" \notin Errs
    BY <1>1 DEF Subs, Places, Errs
  <1>5. r = "rows" \/ r = "context" \/ r = sub[c].err
    BY DEF Collected
  <1>6. r \in Results
    BY <1>4, <1>5 DEF Results, Errs
  <1>7. r = "rows" => sub[c].complete
    <2>1. sub[c].err # "clean" /\ sub[c].err # "rows"
      BY <1>1, <1>2, <1>4 DEF CallHere, CallOK, CauseOK
    <2> QED BY <2>1 DEF Collected
  <1>8. h \in Threads /\ h["user"] = "once"
    BY <1>1 DEF Threads, Cancellers
  <1>9. helper' = [helper EXCEPT ![c] = h]
    BY <1>1 DEF CollectSnapshot, CallersOK
  <1> HIDE DEF h
  <1>10. /\ helper' \in [Calls -> Threads] /\ helper'[c] = h /\ \A d \in Calls \ {c} : helper'[d] = helper[d]
         /\ pc' \in [Calls -> Places] /\ pc'[c] = "wait" /\ \A d \in Calls \ {c} : pc'[d] = pc[d]
         /\ result' \in [Calls -> Results] /\ result'[c] = r /\ \A d \in Calls \ {c} : result'[d] = result[d]
    BY <1>1, <1>3, <1>4, <1>6, <1>8, <1>9 DEF CallersOK
  <1>11. Others(c)
    BY <1>2, <1>10 DEF Others
  <1>12. CallersOK' /\ resp' \in [Calls -> Responses] /\ sub' \in [Calls -> Subs]
    BY <1>1, <1>2, <1>10 DEF CallersOK, ActorOK
  <1>13. CallOK(kind[c], pc'[c], ctx'[c], resp'[c], replies[c], result'[c], Waits(cmds, parked, {}, c),
                route[c], sub'[c], helper'[c], Queued(cmds, "abandon", c), Queued(cmds, "cancel", c), done)
    BY <1>1, <1>2, <1>7, <1>8, <1>10 DEF CallHere, CallOK, CauseOK
  <1> QED BY <1>2, <1>11, <1>12, <1>13, QuietStep

\* Wait ends with the subscription, so no route is left behind.
LEMMA WaitInv ==
  ASSUME IInv, NEW c \in Calls, WaitSnapshot(c)
  PROVE  IInv'
  <1>1. CallersOK /\ ActorOK /\ CallHere(c)
    BY Facts
  <1>2. UNCHANGED <<resp, sub, helper, cmds, kind, ctx, replies, parked, route, actor, link, done>>
        /\ pc[c] = "wait" /\ sub[c].done
    BY DEF WaitSnapshot, callerFrame
  <1> DEFINE r == IF result[c] = "rows" /\ sub[c].err = "uncertain" THEN "uncertain" ELSE result[c]
  <1>3. "uncertain" \in Results /\ "returned" \in Places
    BY DEF Results, Errs, Places
  <1>4. r \in Results /\ (r = "rows" => result[c] = "rows")
    BY <1>1, <1>3 DEF CallersOK
  <1>5. pc' = [pc EXCEPT ![c] = "returned"] /\ result' = [result EXCEPT ![c] = r]
    BY <1>1 DEF WaitSnapshot, CallersOK
  <1> HIDE DEF r
  <1>6. /\ pc' \in [Calls -> Places] /\ pc'[c] = "returned" /\ \A d \in Calls \ {c} : pc'[d] = pc[d]
        /\ result' \in [Calls -> Results] /\ result'[c] = r /\ \A d \in Calls \ {c} : result'[d] = result[d]
    BY <1>1, <1>3, <1>4, <1>5 DEF CallersOK
  <1>7. Others(c)
    BY <1>2, <1>6 DEF Others
  <1>8. CallersOK' /\ resp' \in [Calls -> Responses] /\ sub' \in [Calls -> Subs]
    BY <1>1, <1>2, <1>6 DEF CallersOK, ActorOK
  <1>9. CallOK(kind[c], pc'[c], ctx'[c], resp'[c], replies[c], result'[c], Waits(cmds, parked, {}, c),
               route[c], sub'[c], helper'[c], Queued(cmds, "abandon", c), Queued(cmds, "cancel", c), done)
    BY <1>1, <1>2, <1>4, <1>6 DEF CallHere, CallOK
  <1> QED BY <1>2, <1>7, <1>8, <1>9, QuietStep

\* A context ends.
LEMMA ContextInv ==
  ASSUME IInv, NEW c \in Calls, ContextEnds(c)
  PROVE  IInv'
  <1>1. CallersOK /\ ActorOK /\ CallHere(c)
    BY Facts
  <1>2. UNCHANGED <<pc, result, resp, sub, helper, cmds, kind, replies, parked, route, actor, link, done>>
    BY DEF ContextEnds
  <1>3. ctx' \in [Calls -> BOOLEAN] /\ ctx'[c] /\ \A d \in Calls \ {c} : ctx'[d] = ctx[d]
    BY <1>1 DEF ContextEnds, CallersOK
  <1>4. Others(c)
    BY <1>2, <1>3 DEF Others
  <1>5. CallersOK' /\ resp' \in [Calls -> Responses] /\ sub' \in [Calls -> Subs]
    BY <1>1, <1>2, <1>3 DEF CallersOK, ActorOK
  <1>6. CallOK(kind[c], pc'[c], ctx'[c], resp'[c], replies[c], result'[c], Waits(cmds, parked, {}, c),
               route[c], sub'[c], helper'[c], Queued(cmds, "abandon", c), Queued(cmds, "cancel", c), done)
    BY <1>1, <1>2, <1>3 DEF CallHere, CallOK
  <1> QED BY <1>2, <1>4, <1>5, <1>6, QuietStep

\* The context of a parked setup asks the actor to take it out.
LEMMA AbortInv ==
  ASSUME IInv, NEW c \in Calls, EnqueueAbort(c)
  PROVE  IInv'
  <1>1. CallersOK /\ ActorOK /\ CallHere(c)
    BY Facts
  <1>2. UNCHANGED <<pc, ctx, result, resp, sub, helper, kind, replies, parked, route, actor, link, done>>
        /\ Sends(c, "unpark")
    BY DEF EnqueueAbort, Sends, Room
  <1>3. Others(c)
    BY <1>2 DEF Others
  <1>4. CallersOK' /\ resp' \in [Calls -> Responses] /\ sub' \in [Calls -> Subs]
    BY <1>1, <1>2 DEF CallersOK, ActorOK
  <1>5. {"setup", "abandon", "cancel", "unpark"} \subseteq Jobs /\ "unpark" \notin {"setup", "cancel"}
    BY DEF Jobs
  <1>6. /\ Queued(cmds, "abandon", c) => Queued(cmds', "abandon", c)
        /\ Queued(cmds', "cancel", c) => Queued(cmds, "cancel", c)
        /\ Queued(cmds', "setup", c) => Queued(cmds, "setup", c)
    BY <1>2, <1>5, SendsIs
  <1>7. Waits(cmds', parked', {}, c) => Waits(cmds, parked, {}, c)
    BY <1>2, <1>6 DEF Waits
  <1>8. CallHere(c)'
    BY <1>1, <1>2, <1>6, <1>7 DEF CallHere, CallOK, CauseOK
  <1> QED BY <1>2, <1>3, <1>4, <1>5, <1>8, CallerStep

\* bindContext's goroutine records the cause before it cancels.
LEMMA WatchInv ==
  ASSUME IInv, NEW c \in Calls, WatchContext(c)
  PROVE  IInv'
  <1> DEFINE s == sub[c]
  <1>1. CallersOK /\ ActorOK /\ CallHere(c) /\ helper[c] \in Threads /\ s \in Subs
    BY Facts
  <1>2. UNCHANGED <<pc, ctx, result, resp, cmds, kind, replies, parked, route, actor, link, done>>
    BY DEF WatchContext, helperFrame
  <1>3. PICK to \in {"once", "end"}, t \in {recordCancelCause(s, "context"), s} :
          /\ helper' = [helper EXCEPT ![c]["watch"] = to] /\ sub' = [sub EXCEPT ![c] = t]
          /\ to = "once" => t = recordCancelCause(s, "context")
    <2>1. sub = [sub EXCEPT ![c] = s]
      BY <1>1 DEF ActorOK
    <2> QED BY <2>1 DEF WatchContext
  <1>4. /\ t \in Subs /\ (to = "once" => t.cause # "none") /\ (s.cause # "none" => t.cause # "none")
        /\ t.once = s.once /\ t.err = s.err /\ t.done = s.done /\ t.queued = s.queued /\ t.lost = s.lost
        /\ t.rows = s.rows /\ t.kept = s.kept /\ t.complete = s.complete
    <2>1. CASE t = s /\ to # "once"
      BY <1>1, <2>1
    <2>2. CASE t = recordCancelCause(s, "context")
      BY <1>1, <2>2, RecordIs
    <2> QED BY <1>3, <2>1, <2>2
  <1> DEFINE h == [helper[c] EXCEPT !["watch"] = to]
  <1>5. h \in Threads /\ h["watch"] = to /\ h["user"] = helper[c]["user"]
    BY <1>1 DEF Threads, Cancellers
  <1>6. helper' = [helper EXCEPT ![c] = h]
    BY <1>1, <1>3 DEF CallersOK
  <1> HIDE DEF h, s
  <1>7. /\ helper' \in [Calls -> Threads] /\ helper'[c] = h /\ \A d \in Calls \ {c} : helper'[d] = helper[d]
        /\ sub' \in [Calls -> Subs] /\ sub'[c] = t /\ \A d \in Calls \ {c} : sub'[d] = sub[d]
    BY <1>1, <1>3, <1>4, <1>5, <1>6 DEF CallersOK, ActorOK
  <1>8. Others(c)
    BY <1>2, <1>7 DEF Others
  <1>9. CallersOK' /\ resp' \in [Calls -> Responses]
    BY <1>1, <1>2, <1>7 DEF CallersOK, ActorOK
  <1>10. SubOK(kind[c], t) /\ CauseOK(t, h, Queued(cmds, "cancel", c))
    BY <1>1, <1>4, <1>5 DEF CallHere, CallOK, SubOK, CauseOK, s
  <1>11. CallOK(kind[c], pc'[c], ctx'[c], resp'[c], replies[c], result'[c], Waits(cmds, parked, {}, c),
                route[c], sub'[c], helper'[c], Queued(cmds, "abandon", c), Queued(cmds, "cancel", c), done)
    BY <1>1, <1>2, <1>4, <1>5, <1>7, <1>10 DEF CallHere, CallOK, s
  <1> QED BY <1>2, <1>7, <1>8, <1>9, <1>11, QuietStep

\* One thread goes through cancelOnce, and sends the cancellation; the watching
\* one has recorded the cause.
LEMMA CancelInv ==
  ASSUME IInv, NEW c \in Calls, NEW w \in Cancellers, CancelOnce(c, w) \/ EnqueueCancel(c, w)
  PROVE  IInv'
  <1> DEFINE s == sub[c]
  <1>1. CallersOK /\ ActorOK /\ CallHere(c) /\ helper[c] \in Threads /\ s \in Subs
    BY Facts
  <1>2. UNCHANGED <<pc, ctx, result, resp, kind, replies, parked, route, actor, link, done>>
    BY DEF CancelOnce, EnqueueCancel, helperFrame
  <1>3. Sends(c, "cancel") /\ helper[c][w] \in {"once", "enqueue"} /\ (cmds' # cmds => helper[c][w] = "enqueue")
    BY DEF Sends, CancelOnce, EnqueueCancel, Room
  <1>4. PICK to \in {"enqueue", "end"}, o \in {"free", "held", "spent"} :
          /\ helper' = [helper EXCEPT ![c][w] = to] /\ sub' = [sub EXCEPT ![c] = [s EXCEPT !.once = o]]
    <2>1. sub = [sub EXCEPT ![c] = [s EXCEPT !.once = s.once]] /\ s.once \in {"free", "held", "spent"}
      BY <1>1 DEF ActorOK, Subs
    <2>2. CASE CancelOnce(c, w)
      BY <1>1, <2>1, <2>2 DEF CancelOnce, ActorOK
    <2>3. CASE EnqueueCancel(c, w)
      BY <1>1, <2>3 DEF EnqueueCancel, ActorOK
    <2> QED BY <2>2, <2>3
  <1> DEFINE h == [helper[c] EXCEPT ![w] = to]
             t == [s EXCEPT !.once = o]
  <1>5. t \in Subs /\ t.cause = s.cause /\ t.err = s.err /\ t.done = s.done /\ t.queued = s.queued /\ t.lost = s.lost
        /\ t.rows = s.rows /\ t.kept = s.kept /\ t.complete = s.complete
    BY <1>1 DEF Subs
  <1>6. h \in Threads /\ h[w] = to /\ \A z \in Cancellers \ {w} : h[z] = helper[c][z]
    BY <1>1 DEF Threads
  <1>7. helper' = [helper EXCEPT ![c] = h]
    BY <1>1, <1>4 DEF CallersOK
  <1> HIDE DEF h, t, s
  <1>8. /\ helper' \in [Calls -> Threads] /\ helper'[c] = h /\ \A d \in Calls \ {c} : helper'[d] = helper[d]
        /\ sub' \in [Calls -> Subs] /\ sub'[c] = t /\ \A d \in Calls \ {c} : sub'[d] = sub[d]
    BY <1>1, <1>4, <1>5, <1>6, <1>7 DEF CallersOK, ActorOK, t
  <1>9. Others(c)
    BY <1>2, <1>8 DEF Others
  <1>10. CallersOK' /\ resp' \in [Calls -> Responses]
    BY <1>1, <1>2, <1>8 DEF CallersOK, ActorOK
  <1>11. {"setup", "abandon", "cancel", "unpark"} \subseteq Jobs /\ "cancel" \notin {"setup", "abandon"}
    BY DEF Jobs
  <1>12. /\ Queued(cmds, "abandon", c) => Queued(cmds', "abandon", c)
         /\ Queued(cmds', "setup", c) => Queued(cmds, "setup", c)
    BY <1>2, <1>3, <1>11, SendsIs
  <1>13. Waits(cmds', parked', {}, c) => Waits(cmds, parked, {}, c)
    BY <1>2, <1>12 DEF Waits
  <1>14. h["user"] = "off" => helper[c]["user"] = "off" /\ helper[c]["watch"] \in {"once", "enqueue"}
    BY <1>3, <1>6 DEF Cancellers
  <1>15. h["user"] = "off" <=> helper[c]["user"] = "off"
    BY <1>3, <1>6 DEF Cancellers
  <1>16. CauseOK(t, h, Queued(cmds', "cancel", c)) /\ SubOK(kind[c], t)
    BY <1>1, <1>5, <1>14 DEF CallHere, CallOK, CauseOK, SubOK, s
  <1>17. CallHere(c)'
    BY <1>1, <1>2, <1>5, <1>8, <1>12, <1>13, <1>15, <1>16 DEF CallHere, CallOK, s
  <1> QED BY <1>3, <1>8, <1>9, <1>10, <1>11, <1>17, CallerStep

------------------------------------------------------------------------------
(* Turns of the actor as steps.                                            *)

\* What the record of the actor's state holds.
LEMMA WorldOK ==
  ASSUME IInv
  PROVE  /\ CallersOK /\ TurnOK(World, cmds, {}, done) /\ World \in Worlds
         /\ World.parked = parked /\ World.route = route /\ World.sub = sub /\ World.link = link
  BY DEF IInv, TurnOK, World

\* A turn that ends in a sound state of the actor keeps the invariant.
LEMMA ActorStep ==
  ASSUME IInv, NEW v, WorldIs(v), UNCHANGED <<kind, pc, ctx, result, helper>>, NEW q, cmds' = q, Len(q) <= QueueCap,
         NEW e \in BOOLEAN, done' = e, TurnOK(v, q, {}, e)
  PROVE  IInv'
  <1>1. v \in Worlds /\ q \in Seq(Commands) /\ SetupsOnce(q, v.parked, {}) /\ CallersOK
        /\ \A c \in Calls : CallIn(v, q, {}, e, c)
    BY InvIs DEF Plain, TurnOK, CallIn
  <1>2. /\ resp' = v.resp /\ replies' = v.replies /\ parked' = v.parked /\ route' = v.route
        /\ sub' = v.sub /\ link' = v.link /\ actor' = v.actor
    BY DEF WorldIs
  <1>3. ActorOK'
    BY <1>1, <1>2 DEF ActorOK, Worlds
  <1>4. CallersOK'
    BY <1>1 DEF CallersOK
  <1>5. ASSUME NEW c \in Calls PROVE CallHere(c)'
    <2>1. CallIn(v, q, {}, e, c)
      BY <1>1
    <2> QED BY <1>2, <2>1 DEF CallHere, CallIn
  <1>6. Plain'
    BY <1>1, <1>2, <1>3, <1>4, <1>5 DEF Plain
  <1> QED BY <1>6, InvIs, PTL

\* A turn that leaves the command queue alone.
LEMMA TurnStep ==
  ASSUME IInv, ~done, NEW v, WorldIs(v), UNCHANGED <<kind, pc, ctx, result, helper, cmds, done>>,
         TurnOK(v, cmds, {}, FALSE)
  PROVE  IInv'
  <1>1. Len(cmds) <= QueueCap /\ done = FALSE
    BY InvIs DEF Plain, CallersOK
  <1> QED BY <1>1, ActorStep

\* One command: its setup in hand, the parked one taken out, the cancellation
\* with its cause known while it was queued, or a query's route released.
LEMMA CommandInv ==
  ASSUME IInv, RunCommand
  PROVE  IInv'
  <1> DEFINE q == Head(cmds)
             t == Tail(cmds)
             c == q.c
  <1>1. CallersOK /\ World \in Worlds /\ TurnOK(World, cmds, {}, FALSE) /\ ~done /\ done = FALSE
    BY WorldOK DEF RunCommand, Actor, CallersOK
  <1>2. cmds \in Seq(Commands) /\ cmds # <<>> /\ SetupsOnce(cmds, World.parked, {}) /\ Len(cmds) <= QueueCap
    BY <1>1 DEF RunCommand, TurnOK, IInv
  <1>3. /\ q \in Commands /\ t \in Seq(Commands) /\ Len(t) <= Len(cmds)
        /\ Queued(cmds, q.do, q.c)
        /\ \A j \in Jobs, d \in Calls : Queued(cmds, j, d) = (Queued(t, j, d) \/ (j = q.do /\ d = q.c))
        /\ SetupsOnce(t, World.parked, IF q.do = "setup" THEN {q.c} ELSE {})
    BY <1>2, TakeHead
  <1>4. Len(t) <= QueueCap
    <2>1. Len(t) \in Nat /\ Len(cmds) \in Nat /\ QueueCap \in Nat
      BY <1>2, <1>3, AdmissionAssumption
    <2> QED BY <1>2, <1>3, <2>1
  <1>5. PICK ok \in BOOLEAN :
          WorldIs(CASE q.do = "setup"   -> RunSetup(World, q.c, ok)
                    [] q.do = "unpark"  -> cancelReadySetup(World, q.c)
                    [] q.do = "cancel"  -> ActorCancel(World, q.c, ~ok)
                    [] q.do = "abandon" -> [World EXCEPT !.route[q.c] = FALSE])
    BY DEF RunCommand
  <1>6. cmds' = t /\ UNCHANGED <<kind, pc, ctx, result, helper, done>>
    BY DEF RunCommand, actorFrame
  <1> HIDE DEF q, t
  <1>7. q.do \in Jobs /\ c \in Calls
    BY <1>3 DEF Commands
  <1>8. {"setup", "abandon", "cancel", "unpark"} \subseteq Jobs
    BY DEF Jobs
  <1>9. \A d \in Calls : SameCall(World, World, d)
    BY DEF SameCall
  <1> HIDE DEF c
  <1>10. ASSUME NEW v, WorldIs(v), TurnOK(v, t, {}, FALSE) PROVE IInv'
    BY <1>1, <1>4, <1>6, <1>10, ActorStep
  <1>11. ASSUME NEW hand \in SUBSET {c}, hand = IF q.do = "setup" THEN {c} ELSE {}, q.do # "abandon"
         PROVE  TurnOK(World, t, hand, FALSE)
    <2>1. SetupsOnce(t, World.parked, hand)
      BY <1>3, <1>11 DEF c
    <2>2. ASSUME NEW d \in Calls
          PROVE  /\ Waits(t, World.parked, hand, d) => Waits(cmds, World.parked, {}, d)
                 /\ Queued(cmds, "abandon", d) => Queued(t, "abandon", d)
                 /\ Queued(t, "cancel", d) => Queued(cmds, "cancel", d)
      <3>1. d \in hand => Queued(cmds, "setup", d)
        BY <1>3, <1>11 DEF c
      <3>2. Queued(t, "setup", d) => Queued(cmds, "setup", d)
        BY <1>3, <1>8
      <3>3. Queued(cmds, "abandon", d) => Queued(t, "abandon", d)
        BY <1>3, <1>8, <1>11
      <3>4. Queued(t, "cancel", d) => Queued(cmds, "cancel", d)
        BY <1>3, <1>8
      <3> QED BY <3>1, <3>2, <3>3, <3>4 DEF Waits
    <2> QED BY <1>1, <1>3, <1>9, <2>1, <2>2, TurnDrops
  <1>12. CASE q.do = "setup"
    <2>1. TurnOK(World, t, {c}, FALSE)
      BY <1>11, <1>12
    <2>2. TurnOK(RunSetup(World, c, ok), t, {c} \ {c}, FALSE)
      <3> HIDE DEF World
      <3> QED BY <1>1, <1>7, <2>1, RunSetupTurn
    <2>3. {c} \ {c} = {}
      OBVIOUS
    <2>4. WorldIs(RunSetup(World, c, ok))
      BY <1>5, <1>12 DEF c
    <2> QED BY <1>10, <2>2, <2>3, <2>4
  <1>13. CASE q.do = "unpark"
    <2>1. TurnOK(World, t, {}, FALSE)
      BY <1>11, <1>13
    <2>2. TurnOK(cancelReadySetup(World, c), t, {}, FALSE)
      BY <1>7, <2>1, UnparkTurn
    <2>3. WorldIs(cancelReadySetup(World, c))
      BY <1>5, <1>13 DEF c
    <2> QED BY <1>10, <2>2, <2>3
  <1>14. CASE q.do = "cancel"
    <2>1. TurnOK(World, t, {}, FALSE)
      BY <1>11, <1>14
    <2>2. Queued(cmds, "cancel", c)
      BY <1>3, <1>14 DEF c
    <2>3. CallIn(World, cmds, {}, FALSE, c)
      BY <1>1, <1>7 DEF TurnOK, CallIn
    <2>4. helper[c]["user"] = "off" => World.sub[c].cause # "none"
      BY <2>2, <2>3 DEF CallIn, CallOK, CauseOK
    <2> DEFINE refused == ~ok
    <2>5. refused \in BOOLEAN
      OBVIOUS
    <2>6. WorldIs(ActorCancel(World, c, refused))
      BY <1>5, <1>14 DEF c
    <2> HIDE DEF refused
    <2>7. TurnOK(ActorCancel(World, c, refused), t, {}, FALSE)
      BY <1>7, <2>1, <2>4, <2>5, ActorCancelTurn
    <2> QED BY <1>10, <2>6, <2>7
  <1>15. CASE q.do = "abandon"
    <2> DEFINE v == RouteOff(World, c, World.sub[c], World.link)
    <2>1. World.sub[c] \in Subs /\ World.link \in Links
      BY <1>1, <1>7 DEF Worlds
    <2>2. [World EXCEPT !.route[c] = FALSE] = v
      <3> HIDE DEF World
      <3>1. [World.sub EXCEPT ![c] = World.sub[c]] = World.sub
        BY <1>1 DEF Worlds
      <3> QED BY <1>1, <3>1 DEF Worlds, RouteOff
    <2>3. /\ v \in Worlds /\ v.parked = World.parked
          /\ v.resp[c] = World.resp[c] /\ v.replies[c] = World.replies[c] /\ ~v.route[c] /\ v.sub[c] = World.sub[c]
          /\ \A d \in Calls \ {c} : SameCall(v, World, d)
      BY <1>1, <1>7, <2>1, RouteOffIs
    <2> HIDE DEF v
    <2>4. SetupsOnce(t, v.parked, {})
      BY <1>3, <1>15, <2>3
    <2>5. \A d \in Calls \ {c} :
            /\ Waits(t, v.parked, {}, d) => Waits(cmds, World.parked, {}, d)
            /\ Queued(cmds, "abandon", d) => Queued(t, "abandon", d)
            /\ Queued(t, "cancel", d) => Queued(cmds, "cancel", d)
      BY <1>3, <1>8, <2>3 DEF Waits, c
    <2>6. CallIn(World, cmds, {}, FALSE, c)
      BY <1>1, <1>7 DEF TurnOK, CallIn
    <2>7. (Waits(t, v.parked, {}, c) => Waits(cmds, World.parked, {}, c))
          /\ (Queued(t, "cancel", c) => Queued(cmds, "cancel", c))
      BY <1>3, <1>7, <1>8, <2>3 DEF Waits
    <2>8. CallIn(v, t, {}, FALSE, c)
      BY <2>3, <2>6, <2>7 DEF CallIn, CallOK, CauseOK
    <2>9. TurnOK(v, t, {}, FALSE)
      BY <1>1, <1>3, <1>7, <2>3, <2>4, <2>5, <2>8, TurnTo
    <2>10. WorldIs(v)
      BY <1>5, <1>15, <2>2 DEF c
    <2> QED BY <1>10, <2>9, <2>10
  <1> QED BY <1>7, <1>12, <1>13, <1>14, <1>15 DEF Jobs

\* Rows, the end of a snapshot and an error of the request.
LEMMA InboundInv ==
  ASSUME IInv, NEW c \in Calls, Row(c) \/ SnapshotEnds(c) \/ RequestError(c)
  PROVE  IInv'
  <1>1. CallersOK /\ TurnOK(World, cmds, {}, done) /\ World.route = route
    BY WorldOK
  <1>2. ~done /\ route[c] /\ UNCHANGED <<kind, pc, ctx, result, helper, cmds, done>>
    BY DEF Row, SnapshotEnds, RequestError, Actor, actorFrame
  <1>3. TurnOK(World, cmds, {}, FALSE) /\ World.route[c]
    BY <1>1, <1>2 DEF CallersOK
  <1> HIDE DEF World
  <1>4. ASSUME NEW v, WorldIs(v), TurnOK(v, cmds, {}, FALSE) PROVE IInv'
    BY <1>2, <1>4, TurnStep
  <1>5. CASE Row(c)
    <2>1. PICK refused \in BOOLEAN :
            WorldIs(IF kind[c] = "query" THEN Respond([World EXCEPT !.route[c] = FALSE], c, "ok")
                    ELSE EmitRow(World, c, refused))
      BY <1>5 DEF Row
    <2>2. CASE kind[c] = "query"
      <3>1. TurnOK(Respond([World EXCEPT !.route[c] = FALSE], c, "ok"), cmds, {}, FALSE)
        BY <1>3, <2>2, QueryTurn
      <3> QED BY <1>4, <2>1, <2>2, <3>1
    <2>3. CASE kind[c] # "query"
      <3>1. TurnOK(EmitRow(World, c, refused), cmds, {}, FALSE)
        BY <1>1, <1>3, <2>3, EmitTurn
      <3> QED BY <1>4, <2>1, <2>3, <3>1
    <2> QED BY <2>2, <2>3
  <1>6. CASE SnapshotEnds(c)
    <2>1. WorldIs([World EXCEPT !.sub[c].complete = TRUE]) /\ kind[c] # "query"
      BY <1>6 DEF SnapshotEnds
    <2>2. TurnOK([World EXCEPT !.sub[c].complete = TRUE], cmds, {}, FALSE)
      BY <1>3, <2>1, CompleteTurn
    <2> QED BY <1>4, <2>1, <2>2
  <1>7. CASE RequestError(c)
    <2>1. WorldIs(EndRoutes(World, {c}, "rejected"))
      BY <1>7 DEF RequestError
    <2>2. TurnOK(EndRoutes(World, {c}, "rejected"), cmds, {}, FALSE)
      BY <1>3, EndTurn
    <2> QED BY <1>4, <2>1, <2>2
  <1> QED BY <1>5, <1>6, <1>7

\* The session becomes ready: every parked setup runs once.
LEMMA ReadyInv ==
  ASSUME IInv, LinkReady
  PROVE  IInv'
  <1>1. CallersOK /\ TurnOK(World, cmds, {}, done) /\ World \in Worlds /\ World.parked = parked
    BY WorldOK
  <1>2. ~done /\ UNCHANGED <<kind, pc, ctx, result, helper, cmds, done>>
    BY DEF LinkReady, Actor
  <1>3. TurnOK(World, cmds, {}, FALSE)
    BY <1>1, <1>2 DEF CallersOK
  <1>4. PICK admitted \in SUBSET Calls :
          WorldIs(flushReadySetups([World EXCEPT !.link = "ready"], parked, admitted))
    BY DEF LinkReady
  <1> HIDE DEF World
  <1>5. [World EXCEPT !.link = "ready"] = WithParked(World, World.parked, "ready")
    BY <1>1 DEF WithParked, Worlds
  <1> DEFINE v == flushReadySetups(WithParked(World, World.parked, "ready"), World.parked, admitted)
  <1>6. WorldIs(v)
    BY <1>1, <1>4, <1>5
  <1>7. TurnOK(v, cmds, {}, FALSE)
    BY <1>1, <1>3, FlushTurn
  <1> HIDE DEF v
  <1> QED BY <1>2, <1>6, <1>7, TurnStep

\* The connection is lost.
LEMMA LostInv ==
  ASSUME IInv, LinkLost
  PROVE  IInv'
  <1>1. CallersOK /\ TurnOK(World, cmds, {}, done)
    BY WorldOK
  <1>2. ~done /\ UNCHANGED <<kind, pc, ctx, result, helper, cmds, done>>
        /\ WorldIs([EndRoutes(World, Calls, "interrupted") EXCEPT !.link = "down"])
    BY DEF LinkLost, Actor, actorFrame
  <1>3. TurnOK(World, cmds, {}, FALSE)
    BY <1>1, <1>2 DEF CallersOK
  <1> DEFINE u == EndRoutes(World, Calls, "interrupted")
  <1>4. TurnOK(u, cmds, {}, FALSE)
    BY <1>3, EndTurn
  <1> HIDE DEF u
  <1>5. "down" \in Links /\ u \in Worlds
    BY <1>4 DEF Links, TurnOK
  <1>6. [u EXCEPT !.link = "down"] = WithParked(u, u.parked, "down")
    BY <1>5 DEF WithParked, Worlds
  <1>7. TurnOK(WithParked(u, u.parked, "down"), cmds, {}, FALSE)
    BY <1>4, <1>5, LinkTurn
  <1>8. WorldIs(WithParked(u, u.parked, "down"))
    BY <1>2, <1>6 DEF u
  <1> QED BY <1>2, <1>7, <1>8, TurnStep

\* closeEngine: every route is ended before done is closed.
LEMMA CloseEngineInv ==
  ASSUME IInv, CloseEngine
  PROVE  IInv'
  <1>1. CallersOK /\ TurnOK(World, cmds, {}, done) /\ Len(cmds) <= QueueCap
    BY WorldOK DEF IInv
  <1>2. ~done /\ UNCHANGED <<kind, pc, ctx, result, helper, cmds>> /\ done' = TRUE
        /\ WorldIs([EndRoutes(World, Calls, "closed") EXCEPT !.parked = <<>>, !.link = "down"])
    BY DEF CloseEngine, Actor, actorFrame
  <1>3. TurnOK(World, cmds, {}, FALSE)
    BY <1>1, <1>2 DEF CallersOK
  <1> DEFINE u == EndRoutes(World, Calls, "closed")
             v == WithParked(u, <<>>, "down")
  <1>4. TurnOK(u, cmds, {}, FALSE) /\ \A c \in Calls : ~u.route[c]
    BY <1>3, EndTurn
  <1>5. WorldIs(v)
    BY <1>2 DEF WithParked
  <1> HIDE DEF u
  <1>6. TurnOK(u, cmds, {}, TRUE)
    BY <1>4, TurnEnds
  <1>7. "down" \in Links
    BY DEF Links
  <1>8. TurnOK(v, cmds, {}, TRUE)
    BY <1>6, <1>7, LinkTurn
  <1> HIDE DEF v
  <1> QED BY <1>1, <1>2, <1>5, <1>8, ActorStep

------------------------------------------------------------------------------
(* The theorems.                                                           *)

\* Nothing has been asked for yet.
LEMMA InitInv == Init => IInv
  <1> SUFFICES ASSUME Init PROVE Plain
    BY InvIs
  <1>1. /\ NoSub \in Subs /\ NoSub.kept = NoSub.rows /\ NoSub.cause = "none" /\ NoSub.err = "none"
        /\ ~NoSub.done /\ ~NoSub.lost /\ NoSub.queued = 0
    <2>1. "none" \in Errs
      BY DEF Errs
    <2> QED BY <2>1 DEF NoSub, Subs
  <1>2. CallersOK
    <2>1. kind \in [Calls -> Kinds]
      BY AdmissionAssumption DEF Init, Kinds
    <2>2. "idle" \in Places /\ "none" \in Results
      BY DEF Places, Results
    <2>3. [w \in Cancellers |-> "off"] \in Threads
      BY DEF Threads
    <2> QED BY <2>1, <2>2, <2>3 DEF Init, CallersOK
  <1>3. ActorOK
    <2>1. "empty" \in Responses /\ "down" \in Links
      BY DEF Responses, Links
    <2> QED BY <1>1, <2>1 DEF Init, ActorOK
  <1>4. cmds = <<>> /\ parked = <<>> /\ Len(cmds) = 0 /\ cmds \in Seq(Commands) /\ DOMAIN cmds = {} /\ DOMAIN parked = {}
    BY DEF Init
  <1>5. SetupsOnce(cmds, parked, {}) /\ Len(cmds) <= QueueCap
    BY <1>4, AdmissionAssumption DEF SetupsOnce, Within, Queued
  <1>6. EventCap \in Nat
    BY AdmissionAssumption
  <1>7. ASSUME NEW c \in Calls PROVE CallHere(c)
    <2>1. ~Waits(cmds, parked, {}, c) /\ ~Queued(cmds, "abandon", c) /\ ~Queued(cmds, "cancel", c)
      BY <1>4 DEF Waits, Within, Queued
    <2>2. /\ pc[c] = "idle" /\ ~ctx[c] /\ resp[c] = "empty" /\ replies[c] = 0 /\ result[c] = "none"
          /\ ~route[c] /\ sub[c] = NoSub /\ helper[c]["user"] = "off" /\ helper[c]["watch"] = "off" /\ ~done
      BY DEF Init, Cancellers
    <2>3. SubOK(kind[c], sub[c])
      BY <1>1, <1>6, <2>2 DEF SubOK, Subs
    <2>4. CauseOK(sub[c], helper[c], Queued(cmds, "cancel", c))
      BY <1>1, <2>1, <2>2 DEF CauseOK
    <2> QED BY <1>1, <2>1, <2>2, <2>3, <2>4 DEF CallHere, CallOK
  <1> QED BY <1>2, <1>3, <1>4, <1>5, <1>7 DEF Plain

\* Every step keeps the invariant.
LEMMA NextInv == IInv /\ [Next]_vars => IInv'
  <1> SUFFICES ASSUME IInv, [Next]_vars PROVE IInv'
    OBVIOUS
  <1>1. ASSUME NEW c \in Calls, Call(c) PROVE IInv'
    BY <1>1, CallInv
  <1>2. ASSUME NEW c \in Calls, Caller(c) PROVE IInv'
    BY <1>2, EnqueueInv, AwaitInv, AbandonInv, CollectInv, WaitInv DEF Caller
  <1>3. ASSUME NEW c \in Calls, Helper(c) PROVE IInv'
    BY <1>3, AbortInv, WatchInv, CancelInv DEF Helper
  <1>4. ASSUME NEW c \in Calls, ContextEnds(c) \/ Consume(c) \/ CloseStream(c) PROVE IInv'
    BY <1>4, ContextInv, ConsumeInv, CloseStreamInv
  <1>5. ASSUME NEW c \in Calls, Row(c) \/ SnapshotEnds(c) \/ RequestError(c) PROVE IInv'
    BY <1>5, InboundInv
  <1>6. CASE RunCommand
    BY <1>6, CommandInv
  <1>7. CASE LinkReady
    BY <1>7, ReadyInv
  <1>8. CASE LinkLost
    BY <1>8, LostInv
  <1>9. CASE CloseEngine
    BY <1>9, CloseEngineInv
  <1>10. CASE UNCHANGED vars
    <2>1. Plain
      BY InvIs
    <2>2. Plain'
      BY <1>10, <2>1 DEF vars, Plain, CallersOK, ActorOK, CallHere
    <2> QED BY <2>2, InvIs, PTL
  <1> QED BY <1>1, <1>2, <1>3, <1>4, <1>5, <1>6, <1>7, <1>8, <1>9, <1>10 DEF Next

\* The inductive invariant: in every reachable state the setup of a call is in one
\* place, its response channel holds at most one answer and its subscription was
\* closed for a reason, with any number of callers, threads and turns interleaved.
THEOREM InvHolds == Spec => []IInv
  BY InitInv, NextInv, PTL DEF Spec

\* Every remote operation has somebody who can end it: whatever ends a caller's
\* wait (await.go), the route it leaves has a handle, a waiting caller or a release
\* in the queue.
THEOREM RemoteHasOwnerHolds == Spec => []RemoteHasOwner
  <1>1. IInv => RemoteHasOwner
    <2> SUFFICES ASSUME IInv PROVE RemoteHasOwner
      OBVIOUS
    <2>1. \A c \in Calls : CallHere(c)
      BY InvIs DEF Plain
    <2> QED BY <2>1 DEF RemoteHasOwner, CallHere, CallOK, Queued
  <1> QED BY <1>1, InvHolds, PTL

\* Outcomes are honest: a response channel is written at most once, a stream that
\* lost an event ends with an error, and rows returned for a snapshot are all of
\* them (await.go, subscription.go, snapshot_flow.go).
THEOREM OutcomesHonestHolds == Spec => []OutcomesHonest
  <1>1. IInv => OutcomesHonest
    <2> SUFFICES ASSUME IInv PROVE OutcomesHonest
      OBVIOUS
    <2>1. CallersOK /\ ActorOK /\ Len(cmds) <= QueueCap /\ \A c \in Calls : CallHere(c)
      BY InvIs DEF Plain
    <2>2. ASSUME NEW c \in Calls
          PROVE  /\ replies[c] \in {0, 1} /\ SubOK(kind[c], sub[c]) /\ sub[c] \in Subs
                 /\ (kind[c] = "snapshot" /\ result[c] = "rows" => sub[c].complete)
      BY <2>1 DEF CallHere, CallOK, ActorOK
    <2>3. TypeOK
      <3>1. ASSUME NEW c \in Calls
            PROVE  /\ pc[c] \in Places /\ resp[c] \in Responses /\ sub[c].err \in Errs
                   /\ sub[c].queued \in 0 .. EventCap /\ sub[c].done = (sub[c].err # "none")
                   /\ helper[c] \in Threads
        <4>1. pc[c] \in Places /\ resp[c] \in Responses /\ helper[c] \in Threads
          BY <2>1 DEF CallersOK, ActorOK
        <4>2. sub[c].err \in Errs /\ sub[c].queued \in Nat /\ EventCap \in Nat
          BY <2>2, AdmissionAssumption DEF Subs
        <4>3. sub[c].queued <= EventCap /\ sub[c].done = (sub[c].err # "none")
          BY <2>2 DEF SubOK
        <4> QED BY <4>1, <4>2, <4>3
      <3>2. link \in Links
        BY <2>1 DEF ActorOK
      <3> QED BY <2>1, <3>1, <3>2 DEF TypeOK, Places, Responses, Errs, Threads, Links
    <2>4. AnsweredOnce
      BY <2>2 DEF AnsweredOnce
    <2>5. LossReported
      BY <2>2 DEF LossReported, SubOK
    <2>6. SnapshotHonest
      BY <2>2 DEF SnapshotHonest, SubOK
    <2> QED BY <2>3, <2>4, <2>5, <2>6 DEF OutcomesHonest
  <1> QED BY <1>1, InvHolds, PTL

==============================================================================
