---------------------------- MODULE LimitsProofs ----------------------------
(***************************************************************************)
(* The proofs about the parts of MCLimits: the quota and the balance of a  *)
(* sender (SendQuota), the attempts to log in (AuthLimits) and the daily   *)
(* count of the access control (AccessControl), for any number of requests *)
(* and any limits.                                                         *)
(*                                                                         *)
(* Books compares, as an auditor would, what the tables say with what the  *)
(* requests under way hold: Slots for the counters, Units for the          *)
(* balances.  Counters of earlier dates are left out, since a cleanup      *)
(* deletes them under the requests that hold them.  Windows says of every  *)
(* row how many attempts its window and the time of a window before it     *)
(* have let through.  Daily compares a count with those admitted by it, as *)
(* long as no request of the client and day has been overtaken.            *)
(***************************************************************************)
EXTENDS MCLimits, FiniteSetTheorems, TLAPS

\* What the program counter says about the rest of a request.
Phase(q) ==
  /\ q.pc \in {"idle", "config"} => q.held = {}
  /\ q.pc \in {"init", "take"} => q.held \subseteq IF q.kind = "daily" THEN {} ELSE {"daily"}
  /\ q.pc = "release" => q.held # {}
  /\ q.pc = "idle" => ~q.paid
  /\ q.pc = "refund" => q.paid
  /\ q.error => q.pc \in {"release", "failed", "dead"}

Phases == \A r \in Requests : Phase(request[r]) /\ request[r].day <= today

\* What a counter says.
Count(k) == IF counter[k] = Missing THEN 0 ELSE counter[k]

\* No statement has failed and no invocation was killed.
Smooth == \A r \in Requests : ~request[r].error /\ request[r].pc # "dead"

\* A counter that is not of an earlier date counts every request that relies on it,
\* and nothing else as long as all goes well.
Slots ==
  \A k \in Key : ~Older(k, today) =>
    /\ Cardinality(Holders(k)) <= Count(k)
    /\ Smooth => Cardinality(Holders(k)) = Count(k)

\* A counter never passes the largest limit that was configured.
Capped == \A k \in Key : Count(k) > 0 => \E c \in Configs : Count(k) <= c[k[1]]

\* The balance and the mails paid from it.
Left(a) == IF balance[a] = Missing THEN 0 ELSE balance[a]

Books == TypeOK /\ Phases /\ Slots /\ Capped /\ NoOverdraft

-----------------------------------------------------------------------------
(***************************************************************************)
(* One request goes on.                                                    *)
(***************************************************************************)

\* What request q relies on, and what it is paid from.
Relying(q, k) ==
  q.pc \notin {"failed", "dead"} /\ \E kind \in q.held : k = KeyOf(kind, q.day)

Paying(q, a) == q.paid /\ q.address = a /\ q.pc \notin {"failed", "dead"}

Fine(q) == ~q.error /\ q.pc # "dead"

\* After p comes q, which relies on what p did, or on less when something has failed,
\* and was paid by whom p was, if at all.
SameSlots(p, q) ==
  /\ \A k \in Key : Relying(q, k) => Relying(p, k)
  /\ Fine(q) => Fine(p) /\ \A k \in Key : Relying(p, k) => Relying(q, k)

NoMorePaid(p, q) == \A a \in Addresses : Paying(q, a) => Paying(p, a)

\* q is a state of a request.
Proper(q) == q \in Request /\ Phase(q) /\ q.day <= today

\* Request r goes on and takes nothing.
Quiet(r) ==
  \E q : Become(r, q) /\ Proper(q) /\ SameSlots(request[r], q) /\ NoMorePaid(request[r], q)

LEMMA GiveBackIsQuiet ==
  ASSUME NEW p \in Request, NEW e \in Request,
         e.pc = p.pc, e.held = p.held, e.day = p.day, e.address = p.address,
         p.error => e.error, e.paid => p.paid,
         p.pc \notin {"failed", "dead"}, p.day <= today
  PROVE  /\ Proper(GiveBack(e))
         /\ SameSlots(p, GiveBack(e))
         /\ NoMorePaid(p, GiveBack(e))
<1> DEFINE g == GiveBack(e)
<1>1. /\ g \in Request
      /\ g.pc = IF e.held = {} THEN "failed" ELSE "release"
      /\ g.held = e.held /\ g.day = e.day /\ g.address = e.address
      /\ g.error = e.error /\ g.paid = e.paid
  BY DEF GiveBack, Request
<1> HIDE DEF g
<1>2. Proper(g)  BY <1>1 DEF Proper, Phase
<1>3. SameSlots(p, g)  BY <1>1 DEF SameSlots, Relying, Fine
<1>4. NoMorePaid(p, g)  BY <1>1 DEF NoMorePaid, Paying
<1> QED BY <1>2, <1>3, <1>4 DEF g

\* Whatever has failed or is dead relies on nothing.
LEMMA FailureIsQuiet ==
  ASSUME NEW p \in Request, NEW g \in Request,
         \/ g.pc = "failed" /\ (g.error \/ (p.held = {} /\ Fine(p)))
         \/ g.pc = "dead",
         g.day = p.day, p.day <= today
  PROVE  Proper(g) /\ SameSlots(p, g) /\ NoMorePaid(p, g)
<1>1. Proper(g)  BY DEF Proper, Phase
<1>2. SameSlots(p, g)  BY DEF SameSlots, Relying, Fine
<1>3. NoMorePaid(p, g)  BY DEF NoMorePaid, Paying
<1> QED BY <1>1, <1>2, <1>3

\* A step that changes what is neither held nor paid.
LEMMA AdvanceIsQuiet ==
  ASSUME NEW p \in Request, NEW g \in Request, Phase(g), g.day <= today,
         p.pc \notin {"failed", "dead"}, g.pc \notin {"failed", "dead"},
         g.held = p.held, p.held = {} \/ g.day = p.day, g.error = p.error,
         g.paid = p.paid, ~p.paid \/ g.address = p.address
  PROVE  Proper(g) /\ SameSlots(p, g) /\ NoMorePaid(p, g)
<1>1. Proper(g)  BY DEF Proper
<1>2. SameSlots(p, g)  BY DEF SameSlots, Relying, Fine
<1>3. NoMorePaid(p, g)  BY DEF NoMorePaid, Paying
<1> QED BY <1>1, <1>2, <1>3

LEMMA RequestType ==
  ASSUME TypeOK, Phases, NEW r \in Requests
  PROVE  request[r] \in Request /\ Phase(request[r]) /\ request[r].day <= today
BY DEF TypeOK, Phases

\* The next statement of request r is c.
LEMMA StatementIsQuiet ==
  ASSUME TypeOK, Phases, NEW r \in Requests,
         NEW c \in {"take", "balance", "deliver", "refund", "sent"},
         request[r].pc \in {"init", "clean", "balance", "deliver"},
         c = "take" => request[r].pc = "init",
         c = "refund" => request[r].paid,
         Become(r, [request[r] EXCEPT !.pc = c])
  PROVE  Quiet(r)
<1>1. PICK p \in Request : p = request[r]  BY RequestType
<1>2. p.day <= today /\ Phase(p)  BY <1>1, RequestType
<1> DEFINE g == [p EXCEPT !.pc = c]
<1>3. /\ g \in Request /\ g.pc = c /\ g.held = p.held /\ g.day = p.day /\ g.kind = p.kind
      /\ g.error = p.error /\ g.paid = p.paid /\ g.address = p.address
  BY DEF Request
<1>4. Become(r, g)  BY <1>1
<1> HIDE DEF g
<1>5. Phase(g)  BY <1>1, <1>2, <1>3 DEF Phase
<1>6. Proper(g) /\ SameSlots(p, g) /\ NoMorePaid(p, g)
  BY <1>1, <1>2, <1>3, <1>5, AdvanceIsQuiet
<1> QED BY <1>1, <1>4, <1>6 DEF Quiet

\* A statement has failed, and with it the request.
LEMMA FailedIsQuiet ==
  ASSUME TypeOK, Phases, NEW r \in Requests,
         Become(r, [request[r] EXCEPT !.pc = "failed", !.error = TRUE])
  PROVE  Quiet(r)
<1>1. PICK p \in Request : p = request[r]  BY RequestType
<1> DEFINE g == [p EXCEPT !.pc = "failed", !.error = TRUE]
<1>2. g \in Request /\ g.pc = "failed" /\ g.error /\ g.day = p.day  BY DEF Request
<1>3. Proper(g) /\ SameSlots(p, g) /\ NoMorePaid(p, g)
  BY <1>1, <1>2, RequestType, FailureIsQuiet
<1> QED BY <1>1, <1>3 DEF Quiet

\* Request r gives back what it holds.
LEMMA GivingBackIsQuiet ==
  ASSUME TypeOK, Phases, NEW r \in Requests,
         NEW e \in {request[r], [request[r] EXCEPT !.error = TRUE]},
         request[r].pc \notin {"failed", "dead"},
         Become(r, GiveBack(e))
  PROVE  Quiet(r)
<1>1. PICK p \in Request : p = request[r]  BY RequestType
<1>2. /\ e \in Request /\ e.pc = p.pc /\ e.held = p.held /\ e.day = p.day
      /\ e.address = p.address /\ (p.error => e.error) /\ e.paid = p.paid
  BY <1>1 DEF Request
<1>3. LET g == GiveBack(e) IN Proper(g) /\ SameSlots(p, g) /\ NoMorePaid(p, g)
  BY <1>1, <1>2, RequestType, GiveBackIsQuiet
<1> QED BY <1>1, <1>3 DEF Quiet

LEMMA BeginIsQuiet ==
  ASSUME TypeOK, Phases, NEW r \in Requests, Begin(r)
  PROVE  Quiet(r)
<1>1. PICK p \in Request : p = request[r]  BY RequestType
<1>2. p.pc = "idle" /\ p.day <= today /\ Phase(p)  BY <1>1, RequestType DEF Begin
<1>3. PICK a \in Addresses, pays \in BOOLEAN, pc \in {"config", "failed"} :
        Become(r, [p EXCEPT !.pc = pc, !.address = a, !.pays = pays])
  BY <1>1 DEF Begin
<1> DEFINE g == [p EXCEPT !.pc = pc, !.address = a, !.pays = pays]
<1>4. /\ g \in Request
      /\ g.pc = pc /\ g.held = {} /\ g.paid = FALSE /\ g.error = FALSE /\ g.day = p.day
  BY <1>2 DEF Phase, Request
<1>5. Become(r, g)  BY <1>3
<1> HIDE DEF g
<1>6. Proper(g)  BY <1>2, <1>4 DEF Proper, Phase
<1>7. SameSlots(p, g) /\ NoMorePaid(p, g)
  BY <1>2, <1>4 DEF SameSlots, NoMorePaid, Relying, Paying, Fine, Phase
<1> QED BY <1>1, <1>5, <1>6, <1>7 DEF Quiet

\* The configuration decides which counter comes first.
LEMMA AfterConfigFields ==
  ASSUME SendQuotaAssumption, NEW q \in Request, q.held = {}, q.error = FALSE
  PROVE  /\ AfterConfig(q) \in Request
         /\ AfterConfig(q).pc \in {"balance", "init", "clean"}
         /\ AfterConfig(q).held = {}
         /\ AfterConfig(q).error = FALSE
         /\ AfterConfig(q).paid = q.paid
         /\ AfterConfig(q).day = q.day
         /\ AfterConfig(q).address = q.address
BY DEF AfterConfig, AfterDaily, Request, Kinds

LEMMA ReadConfigIsQuiet ==
  ASSUME SendQuotaAssumption, TypeOK, Phases, NEW r \in Requests, ReadConfig(r)
  PROVE  Quiet(r)
<1>1. PICK p \in Request : p = request[r]  BY RequestType
<1>2. p.pc = "config" /\ p.day <= today /\ Phase(p)  BY <1>1, RequestType DEF ReadConfig
<1>3. CASE Become(r, AfterConfig([p EXCEPT !.limits = config, !.day = today]))
  <2>1. PICK c \in Configs, d \in Days : c = config /\ d = today  BY DEF TypeOK
  <2> DEFINE q == [p EXCEPT !.limits = c, !.day = d]
             g == AfterConfig(q)
  <2>2. /\ q \in Request /\ q.held = {} /\ q.error = FALSE
        /\ q.paid = p.paid /\ q.day = d /\ q.address = p.address
    BY <1>2 DEF Phase, Request
  <2>3. Become(r, g)  BY <1>3, <2>1
  <2> HIDE DEF q
  <2>4. /\ g \in Request /\ g.pc \in {"balance", "init", "clean"}
        /\ g.held = {} /\ g.error = FALSE
        /\ g.paid = p.paid /\ g.day = d /\ g.address = p.address
    BY <2>2, AfterConfigFields
  <2> HIDE DEF g
  <2>5. g.day <= today /\ Phase(g)  BY <2>1, <2>4 DEF TypeOK, Days, Phase
  <2>6. Proper(g) /\ SameSlots(p, g) /\ NoMorePaid(p, g)
    <3>1. p.held = {} /\ p.error = FALSE  BY <1>2 DEF Phase, Request
    <3> QED BY <1>2, <2>4, <2>5, <3>1, AdvanceIsQuiet
  <2> QED BY <1>1, <2>3, <2>6 DEF Quiet
<1>4. CASE Become(r, [p EXCEPT !.pc = "failed", !.error = TRUE])
  BY <1>1, <1>4, FailedIsQuiet
<1> QED BY <1>1, <1>3, <1>4 DEF ReadConfig

\* The handlers up to the provider that take nothing.
LEMMA RefusalIsQuiet ==
  ASSUME TypeOK, Phases, NEW r \in Requests,
         InitCount(r) \/ TakeRefused(r) \/ BalanceRefused(r)
  PROVE  Quiet(r)
<1>1. CASE InitCount(r)
  <2>1. request[r].pc = "init"  BY <1>1 DEF InitCount
  <2>2. \/ Become(r, [request[r] EXCEPT !.pc = "take"])
        \/ Become(r, GiveBack([request[r] EXCEPT !.error = TRUE]))
    BY <1>1 DEF InitCount
  <2> QED BY <2>1, <2>2, StatementIsQuiet, GivingBackIsQuiet
<1>2. CASE TakeRefused(r)
  <2>1. request[r].pc = "take"  BY <1>2 DEF TakeRefused
  <2>2. PICK e \in {request[r], [request[r] EXCEPT !.error = TRUE]} : Become(r, GiveBack(e))
    BY <1>2 DEF TakeRefused
  <2> QED BY <2>1, <2>2, GivingBackIsQuiet
<1>3. CASE BalanceRefused(r)
  <2>1. request[r].pc = "balance"  BY <1>3 DEF BalanceRefused
  <2>2. \/ Become(r, GiveBack(request[r]))
        \/ Become(r, [request[r] EXCEPT !.pc = "failed", !.error = TRUE])
    BY <1>3 DEF BalanceRefused
  <2> QED BY <2>1, <2>2, GivingBackIsQuiet, FailedIsQuiet
<1> QED BY <1>1, <1>2, <1>3

LEMMA PassageIsQuiet ==
  ASSUME TypeOK, Phases, NEW r \in Requests,
         CleanCounters(r) \/ SkipBalance(r) \/ Deliver(r)
  PROVE  Quiet(r)
<1>1. CASE CleanCounters(r)
  <2>1. request[r].pc = "clean" /\ Become(r, [request[r] EXCEPT !.pc = "balance"])
    BY <1>1 DEF CleanCounters
  <2> QED BY <2>1, StatementIsQuiet
<1>2. CASE SkipBalance(r)
  <2>1. request[r].pc = "balance" /\ Become(r, [request[r] EXCEPT !.pc = "deliver"])
    BY <1>2 DEF SkipBalance
  <2> QED BY <2>1, StatementIsQuiet
<1>3. CASE Deliver(r)
  <2>1. request[r].pc = "deliver" /\ Become(r, [request[r] EXCEPT !.pc = "sent"])
    BY <1>3 DEF Deliver
  <2> QED BY <2>1, StatementIsQuiet
<1> QED BY <1>1, <1>2, <1>3

\* The failures after the provider, and the end of the invocation.
LEMMA DeliverFailsIsQuiet ==
  ASSUME TypeOK, Phases, NEW r \in Requests, DeliverFails(r)
  PROVE  Quiet(r)
<1>1. request[r].pc = "deliver"  BY DEF DeliverFails
<1>2. CASE request[r].paid
  BY <1>1, <1>2, StatementIsQuiet DEF DeliverFails
<1>3. CASE ~request[r].paid
  BY <1>1, <1>3, GivingBackIsQuiet DEF DeliverFails
<1> QED BY <1>2, <1>3

\* The refund, whether it has succeeded or not: the request holds its unit no more.
LEMMA RefundRequest ==
  ASSUME TypeOK, Phases, NEW r \in Requests, request[r].pc = "refund",
         NEW error \in BOOLEAN,
         Become(r, GiveBack([request[r] EXCEPT !.paid = FALSE, !.error = error]))
  PROVE  \E q : /\ Become(r, q) /\ Proper(q) /\ SameSlots(request[r], q)
                /\ NoMorePaid(request[r], q) /\ ~q.paid
<1>1. PICK p \in Request : p = request[r]  BY RequestType
<1> DEFINE e == [p EXCEPT !.paid = FALSE, !.error = error]
<1>2. ~p.error  BY <1>1, RequestType DEF Phase
<1>3. /\ e \in Request /\ e.pc = p.pc /\ e.held = p.held /\ e.day = p.day
      /\ e.address = p.address /\ e.paid = FALSE
  BY DEF Request
<1>4. Become(r, GiveBack(e))  BY <1>1
<1> HIDE DEF e
<1>5. LET g == GiveBack(e) IN Proper(g) /\ SameSlots(p, g) /\ NoMorePaid(p, g)
  BY <1>1, <1>2, <1>3, RequestType, GiveBackIsQuiet
<1>6. ~GiveBack(e).paid  BY <1>3 DEF GiveBack, Request
<1> QED BY <1>1, <1>4, <1>5, <1>6

LEMMA RefundFailsIsQuiet ==
  ASSUME TypeOK, Phases, NEW r \in Requests, RefundFails(r)
  PROVE  Quiet(r)
<1>1. /\ request[r].pc = "refund"
      /\ Become(r, GiveBack([request[r] EXCEPT !.paid = FALSE, !.error = TRUE]))
  BY DEF RefundFails
<1> QED BY <1>1, RefundRequest DEF Quiet

LEMMA EndIsQuiet ==
  ASSUME TypeOK, Phases, NEW r \in Requests, ReleaseFails(r) \/ Kill(r)
  PROVE  Quiet(r)
<1>1. CASE ReleaseFails(r)
  BY <1>1, FailedIsQuiet DEF ReleaseFails
<1>2. CASE Kill(r)
  <2>1. PICK p \in Request : p = request[r]  BY RequestType
  <2> DEFINE g == [p EXCEPT !.pc = "dead"]
  <2>2. g \in Request /\ g.pc = "dead" /\ g.day = p.day  BY DEF Request
  <2>3. Proper(g) /\ SameSlots(p, g) /\ NoMorePaid(p, g)
    BY <2>1, <2>2, RequestType, FailureIsQuiet
  <2> QED BY <1>2, <2>1, <2>3 DEF Quiet, Kill
<1> QED BY <1>1, <1>2

LEMMA KeyOfType ==
  ASSUME SendQuotaAssumption, NEW kind \in Kinds, NEW d \in Days
  PROVE  /\ KeyOf(kind, d) \in Key
         /\ KeyOf(kind, d)[1] = kind
         /\ KeyOf(kind, d)[2] \in Nat
BY DEF SendQuotaAssumption, KeyOf, Key, Kinds, Days

LEMMA KeyType ==
  ASSUME SendQuotaAssumption, NEW k \in Key
  PROVE  k[1] \in Kinds /\ k[2] \in Nat
<1>1. PICK kind \in Kinds, d \in Days : k = KeyOf(kind, d)  BY DEF Key
<1> QED BY <1>1, KeyOfType

\* After p comes q, which relies on the counter c as well, unless something has failed.
Reserves(p, q, c) ==
  /\ \A k \in Key : Relying(q, k) => Relying(p, k) \/ k = c
  /\ Fine(q) => /\ Fine(p) /\ ~Relying(p, c) /\ Relying(q, c)
                /\ \A k \in Key : Relying(p, k) => Relying(q, k)

\* A reservation adds one request to those that rely on the counter.
LEMMA TakeCountRequest ==
  ASSUME SendQuotaAssumption, TypeOK, Phases, NEW r \in Requests, TakeCount(r),
         NEW p \in Request, p = request[r]
  PROVE  \E q : Become(r, q) /\ Proper(q) /\ NoMorePaid(p, q) /\ Reserves(p, q, MyKey(p))
<1>1. p.pc = "take" /\ p.day <= today /\ Phase(p) /\ ~p.error
  BY RequestType DEF TakeCount, Phase
<1> DEFINE h == [p EXCEPT !.held = @ \cup {p.kind}]
           g == IF p.kind = "daily" THEN AfterDaily(h) ELSE [h EXCEPT !.pc = "clean"]
<1>2. /\ h \in Request /\ h.held = p.held \cup {p.kind} /\ h.day = p.day /\ h.error = p.error
      /\ h.paid = p.paid /\ h.address = p.address /\ h.kind = p.kind
  BY DEF Request
<1>3. CASE Become(r, g)
  <2> HIDE DEF h
  <2>1. /\ g \in Request /\ g.pc \in {"init", "clean"} /\ g.held = h.held /\ g.day = h.day
        /\ g.error = h.error /\ g.paid = h.paid /\ g.address = h.address
        /\ g.pc = "init" => p.kind = "daily" /\ g.kind = "monthly"
    BY <1>2 DEF AfterDaily, Request, Kinds
  <2> HIDE DEF g
  <2>2. p.kind \in Kinds /\ p.held \subseteq IF p.kind = "daily" THEN {} ELSE {"daily"}
    BY <1>1 DEF Phase, Request
  <2>3. Proper(g)  BY <1>1, <1>2, <2>1, <2>2 DEF Proper, Phase
  <2>4. NoMorePaid(p, g)  BY <1>1, <1>2, <2>1 DEF NoMorePaid, Paying
  <2>5. \A k \in Key : Relying(g, k) => Relying(p, k) \/ k = MyKey(p)
    BY <1>1, <1>2, <2>1 DEF Relying, MyKey
  <2>6. Fine(p) /\ Relying(g, MyKey(p)) /\ \A k \in Key : Relying(p, k) => Relying(g, k)
    BY <1>1, <1>2, <2>1 DEF Relying, MyKey, Fine
  <2>7. ~Relying(p, MyKey(p))  BY <2>2 DEF Relying, MyKey, KeyOf, Kinds
  <2> QED BY <1>3, <2>3, <2>4, <2>5, <2>6, <2>7 DEF Reserves
<1>4. CASE Become(r, GiveBack([p EXCEPT !.error = TRUE]))
  <2> DEFINE e == [p EXCEPT !.error = TRUE]
  <2>1. /\ e \in Request /\ e.pc = p.pc /\ e.held = p.held /\ e.day = p.day
        /\ e.address = p.address /\ e.error /\ e.paid = p.paid
    BY DEF Request
  <2>2. Become(r, GiveBack(e))  BY <1>4
  <2> HIDE DEF e
  <2>3. /\ Proper(GiveBack(e)) /\ SameSlots(p, GiveBack(e)) /\ NoMorePaid(p, GiveBack(e))
    BY <1>1, <2>1, GiveBackIsQuiet
  <2>4. ~Fine(GiveBack(e))  BY <2>1 DEF GiveBack, Fine, Request
  <2> QED BY <2>2, <2>3, <2>4 DEF SameSlots, Reserves
<1> QED BY <1>3, <1>4 DEF TakeCount

\* After p comes q, which does not rely on the counter c any more.
Releases(p, q, c) ==
  /\ ~Relying(q, c)
  /\ \A k \in Key : Relying(q, k) => Relying(p, k)
  /\ Fine(q) => Fine(p) /\ \A k \in Key : Relying(p, k) /\ k # c => Relying(q, k)

\* A release removes it again.
LEMMA ReleaseCountRequest ==
  ASSUME SendQuotaAssumption, TypeOK, Phases, NEW r \in Requests, ReleaseCount(r),
         NEW p \in Request, p = request[r],
         NEW c, c = KeyOf(LastHeld(p), p.day)
  PROVE  /\ c \in Key /\ Relying(p, c)
         /\ \E q : Become(r, q) /\ Proper(q) /\ NoMorePaid(p, q) /\ Releases(p, q, c)
<1>1. p.pc = "release" /\ p.day <= today /\ p.held # {} /\ p.held \subseteq Kinds
  BY RequestType DEF ReleaseCount, Phase, Request
<1>2. LastHeld(p) \in p.held  BY <1>1 DEF LastHeld, Kinds
<1>3. p.day \in Days  BY DEF Request
<1>4. c \in Key /\ Relying(p, c)  BY <1>1, <1>2, <1>3, KeyOfType DEF Relying
<1> DEFINE h == [p EXCEPT !.held = @ \ {LastHeld(p)}]
<1>5. /\ h \in Request /\ h.pc = p.pc /\ h.held = p.held \ {LastHeld(p)} /\ h.day = p.day
      /\ h.error = p.error /\ h.paid = p.paid /\ h.address = p.address
  BY DEF Request
<1>6. ~\E kind \in h.held : c = KeyOf(kind, h.day)  BY <1>1, <1>5 DEF KeyOf
<1> HIDE DEF h
<1>7. CASE Become(r, GiveBack(h))
  <2> DEFINE g == GiveBack(h)
  <2>1. /\ Proper(g) /\ SameSlots(h, g) /\ NoMorePaid(h, g)
    BY <1>1, <1>5, GiveBackIsQuiet
  <2>2. ~Relying(g, c)  BY <1>4, <1>6, <2>1 DEF SameSlots, Relying
  <2>3. \A k \in Key : Relying(h, k) => Relying(p, k)  BY <1>1, <1>5 DEF Relying
  <2>4. \A k \in Key : Relying(p, k) /\ k # c => Relying(h, k)  BY <1>1, <1>5 DEF Relying
  <2>5. NoMorePaid(p, g) /\ (Fine(h) => Fine(p))
    BY <1>1, <1>5, <2>1 DEF NoMorePaid, Paying, Fine
  <2> QED BY <1>4, <1>7, <2>1, <2>2, <2>3, <2>4, <2>5 DEF SameSlots, Releases
<1>8. CASE Become(r, [h EXCEPT !.pc = "failed", !.error = TRUE])
  <2> DEFINE g == [h EXCEPT !.pc = "failed", !.error = TRUE]
  <2>1. g \in Request /\ g.pc = "failed" /\ g.error /\ g.day = p.day  BY <1>5 DEF Request
  <2>2. Proper(g) /\ SameSlots(p, g) /\ NoMorePaid(p, g)  BY <1>1, <2>1, FailureIsQuiet
  <2>3. ~Relying(g, c) /\ ~Fine(g)  BY <2>1 DEF Relying, Fine
  <2> QED BY <1>4, <1>8, <2>2, <2>3 DEF SameSlots, Releases
<1>9. Become(r, GiveBack(h)) \/ Become(r, [h EXCEPT !.pc = "failed", !.error = TRUE])
  BY DEF ReleaseCount, h
<1> QED BY <1>4, <1>7, <1>8, <1>9

\* A debit makes the request hold a unit of its address, or leaves it without.
LEMMA TakeBalanceRequest ==
  ASSUME TypeOK, Phases, NEW r \in Requests, TakeBalance(r),
         NEW p \in Request, p = request[r]
  PROVE  \E q : /\ Become(r, q) /\ Proper(q) /\ SameSlots(p, q)
                /\ \A a \in Addresses : Paying(q, a) => a = p.address
<1>1. p.pc = "balance" /\ p.day <= today /\ Phase(p)  BY RequestType DEF TakeBalance
<1>2. CASE Become(r, [p EXCEPT !.pc = "deliver", !.paid = TRUE])
  <2> DEFINE g == [p EXCEPT !.pc = "deliver", !.paid = TRUE]
  <2>1. /\ g \in Request /\ g.pc = "deliver" /\ g.held = p.held /\ g.day = p.day
        /\ g.error = p.error /\ g.address = p.address
    BY DEF Request
  <2> HIDE DEF g
  <2>2. Proper(g)  BY <1>1, <2>1 DEF Proper, Phase
  <2>3. SameSlots(p, g)  BY <1>1, <2>1 DEF SameSlots, Relying, Fine
  <2>4. \A a \in Addresses : Paying(g, a) => a = p.address  BY <2>1 DEF Paying
  <2> QED BY <1>2, <2>2, <2>3, <2>4 DEF g
<1>3. CASE Become(r, [p EXCEPT !.pc = "failed", !.error = TRUE])
  <2> DEFINE g == [p EXCEPT !.pc = "failed", !.error = TRUE]
  <2>1. g \in Request /\ g.pc = "failed" /\ g.error /\ g.day = p.day  BY DEF Request
  <2>2. Proper(g) /\ SameSlots(p, g)  BY <1>1, <2>1, FailureIsQuiet
  <2>3. \A a \in Addresses : Paying(g, a) => a = p.address  BY <2>1 DEF Paying
  <2> QED BY <1>3, <2>2, <2>3
<1> QED BY <1>2, <1>3 DEF TakeBalance

LEMMA RefundBalanceRequest ==
  ASSUME TypeOK, Phases, NEW r \in Requests, RefundBalance(r)
  PROVE  \E q : /\ Become(r, q) /\ Proper(q) /\ SameSlots(request[r], q)
                /\ NoMorePaid(request[r], q) /\ ~q.paid
BY RefundRequest DEF RefundBalance

\* All of them.
LEMMA SendMoves ==
  ASSUME SendQuotaAssumption, TypeOK, Phases, NEW r \in Requests, SendMail(r) \/ Kill(r)
  PROVE  today' = today /\ \E q : Become(r, q) /\ Proper(q)
<1>1. today' = today
  BY DEF SendMail, Kill, Begin, ReadConfig, InitCount, TakeCount, TakeRefused, CleanCounters,
         SkipBalance, TakeBalance, BalanceRefused, Deliver, DeliverFails, RefundBalance,
         RefundFails, ReleaseCount, ReleaseFails
<1>2. Quiet(r) \/ TakeCount(r) \/ ReleaseCount(r) \/ TakeBalance(r) \/ RefundBalance(r)
  BY BeginIsQuiet, ReadConfigIsQuiet, RefusalIsQuiet, PassageIsQuiet, DeliverFailsIsQuiet,
     RefundFailsIsQuiet, EndIsQuiet DEF SendMail
<1>3. \E q : Become(r, q) /\ Proper(q)
  <2>1. PICK p \in Request : p = request[r]  BY RequestType
  <2> QED BY <1>2, <2>1, TakeCountRequest, ReleaseCountRequest, TakeBalanceRequest,
             RefundBalanceRequest DEF Quiet
<1> QED BY <1>1, <1>3

LEMMA PhasesStep ==
  ASSUME SendQuotaAssumption, TypeOK, Phases, [Next]_vars
  PROVE  request' \in [Requests -> Request] /\ Phases'
<1>1. CASE \E r \in Requests : SendMail(r) \/ Kill(r)
  <2>1. PICK r \in Requests : SendMail(r) \/ Kill(r)  BY <1>1
  <2>2. PICK q : Become(r, q) /\ Proper(q)  BY <2>1, SendMoves
  <2>3. today' = today  BY <2>1, SendMoves
  <2> QED BY <2>2, <2>3 DEF Become, Proper, Phases, TypeOK
<1>2. CASE NextDay
  <2>1. today' = today + 1 /\ request' = request  BY <1>2 DEF NextDay
  <2> QED BY <2>1 DEF Phases, TypeOK, Request, Days
<1>3. CASE \/ \E a \in Addresses : RequestAccess(a) \/ UpdateSender(a) \/ RemoveSender(a)
           \/ SaveConfig \/ UNCHANGED vars
  <2>1. request' = request /\ today' = today
    BY <1>3 DEF RequestAccess, UpdateSender, RemoveSender, SaveConfig, vars
  <2> QED BY <2>1 DEF Phases, TypeOK
<1> QED BY <1>1, <1>2, <1>3 DEF Next

-----------------------------------------------------------------------------
(***************************************************************************)
(* The types of the tables.                                                *)
(***************************************************************************)

BalanceType ==
  /\ balance \in [Addresses -> Nat \cup {Missing}]
  /\ enabled \in [Addresses -> BOOLEAN]
  /\ granted \in [Addresses -> Nat]

\* The row of an address is written, and what it gains is granted.
Granted ==
  /\ BalanceType'
  /\ \A a \in Addresses : Left(a)' + granted[a] <= Left(a) + granted'[a]

LEMMA SetBalanceIsGranted ==
  ASSUME TypeOK, NEW a \in Addresses, NEW b \in Nat, NEW e \in BOOLEAN, SetBalance(a, b, e)
  PROVE  Granted
<1> USE DEF Missing
<1>1. PICK old \in Nat : old = Left(a)  BY DEF TypeOK, Left
<1>2. /\ balance' = [balance EXCEPT ![a] = b]
      /\ enabled' = [enabled EXCEPT ![a] = e]
      /\ granted' = [granted EXCEPT ![a] = @ + IF b > old THEN b - old ELSE 0]
  BY <1>1 DEF SetBalance, Left
<1>3. BalanceType'  BY <1>2 DEF TypeOK, BalanceType
<1>4. \A x \in Addresses : Left(x)' + granted[x] <= Left(x) + granted'[x]
  BY <1>1, <1>2 DEF TypeOK, Left
<1> QED BY <1>3, <1>4 DEF Granted

LEMMA KeepBalanceIsGranted ==
  ASSUME TypeOK, KeepBalance
  PROVE  Granted
BY DEF TypeOK, KeepBalance, Granted, BalanceType, Left, Missing

LEMMA EnsureDefaultIsGranted ==
  ASSUME SendQuotaAssumption, TypeOK, NEW a \in Addresses, EnsureDefault(a)
  PROVE  Granted
BY SetBalanceIsGranted, KeepBalanceIsGranted DEF EnsureDefault, SendQuotaAssumption

\* The actions that write the row without a debit.
LEMMA EditsAreGranted ==
  ASSUME SendQuotaAssumption, TypeOK, NEW a \in Addresses,
         \/ RequestAccess(a) \/ UpdateSender(a) \/ RemoveSender(a)
         \/ \E r \in Requests : Begin(r)
  PROVE  Granted
<1>1. CASE RequestAccess(a)
  <2>1. CASE EnsureDefault(a)  BY <2>1, EnsureDefaultIsGranted
  <2>2. CASE SetBalance(a, 0, FALSE)  BY <2>2, SetBalanceIsGranted
  <2>3. CASE KeepBalance  BY <2>3, KeepBalanceIsGranted
  <2> QED BY <1>1, <2>1, <2>2, <2>3 DEF RequestAccess
<1>2. CASE UpdateSender(a)
  <2>1. PICK b \in Balances, e \in BOOLEAN : SetBalance(a, b, e)  BY <1>2 DEF UpdateSender
  <2>2. b \in Nat  BY DEF SendQuotaAssumption
  <2> QED BY <2>1, <2>2, SetBalanceIsGranted
<1>3. CASE RemoveSender(a)
  BY <1>3 DEF RemoveSender, TypeOK, Granted, BalanceType, Left, Missing
<1>4. CASE \E r \in Requests : Begin(r)
  <2>1. (\E x \in Addresses : EnsureDefault(x)) \/ KeepBalance  BY <1>4 DEF Begin
  <2> QED BY <2>1, EnsureDefaultIsGranted, KeepBalanceIsGranted
<1> QED BY <1>1, <1>2, <1>3, <1>4

LEMMA InitType ==
  ASSUME SendQuotaAssumption, Init
  PROVE  TypeOK
<1>1. today \in Days /\ config \in Configs /\ adminOps \in 0..MaxAdminOps
  BY DEF Init, SendQuotaAssumption, Days
<1>2. counter \in [Key -> Nat \cup {Missing}]  BY DEF Init
<1>3. BalanceType  BY DEF Init, BalanceType
<1>4. request \in [Requests -> Request]
  <2>1. PICK a \in Addresses, c \in Configs : request = [r \in Requests |->
          [pc |-> "idle", address |-> a, pays |-> FALSE, limits |-> c, day |-> 1,
           kind |-> "daily", held |-> {}, paid |-> FALSE, error |-> FALSE]]
    BY DEF Init
  <2> QED BY <2>1 DEF SendQuotaAssumption, Days, Request, Kinds
<1> QED BY <1>1, <1>2, <1>3, <1>4 DEF TypeOK, BalanceType

\* The counters that a statement of request r writes.
LEMMA CounterType ==
  ASSUME SendQuotaAssumption, TypeOK, NEW r \in Requests, SendMail(r) \/ Kill(r)
  PROVE  counter' \in [Key -> Nat \cup {Missing}]
<1> USE DEF Missing
<1>1. CASE InitCount(r)
  <2>1. PICK k \in Key : k = MyKey(request[r])
    BY KeyOfType DEF MyKey, TypeOK, Request
  <2> QED BY <1>1, <2>1 DEF InitCount, TypeOK
<1>2. CASE TakeCount(r)
  <2>1. PICK k \in Key : k = MyKey(request[r])
    BY KeyOfType DEF MyKey, TypeOK, Request
  <2> QED BY <1>2, <2>1 DEF TakeCount, Available, TypeOK
<1>3. CASE CleanCounters(r)
  <2>1. CASE counter' = [k \in Key |-> IF Older(k, request[r].day) THEN Missing ELSE counter[k]]
    BY <2>1 DEF TypeOK
  <2> QED BY <1>3, <2>1 DEF CleanCounters, TypeOK
<1>4. CASE ReleaseCount(r)
  <2>1. PICK k \in Key : k = KeyOf(LastHeld(request[r]), request[r].day)
    BY KeyOfType DEF LastHeld, Kinds, TypeOK, Request
  <2>2. counter' = [counter EXCEPT ![k] = IF @ > 0 THEN @ - 1 ELSE 0]
    BY <1>4, <2>1 DEF ReleaseCount
  <2> QED BY <2>2 DEF TypeOK
<1>5. CASE UNCHANGED counter  BY <1>5 DEF TypeOK
<1> QED BY <1>1, <1>2, <1>3, <1>4, <1>5
    DEF SendMail, Kill, Begin, ReadConfig, TakeRefused, SkipBalance, TakeBalance,
        BalanceRefused, Deliver, DeliverFails, RefundBalance, RefundFails, ReleaseFails

LEMMA SendBalanceType ==
  ASSUME SendQuotaAssumption, TypeOK, NEW r \in Requests, SendMail(r) \/ Kill(r)
  PROVE  BalanceType'
<1> USE DEF Missing
<1>1. CASE Begin(r)
  <2>1. request[r].address \in Addresses  BY DEF TypeOK, Request
  <2> QED BY <1>1, <2>1, EditsAreGranted DEF Granted
<1>2. CASE TakeBalance(r)
  <2>1. PICK a \in Addresses : a = request[r].address  BY DEF TypeOK, Request
  <2> QED BY <1>2, <2>1 DEF TakeBalance, Solvent, TypeOK, BalanceType
<1>3. CASE RefundBalance(r)
  <2>1. PICK a \in Addresses : a = request[r].address  BY DEF TypeOK, Request
  <2> QED BY <1>3, <2>1 DEF RefundBalance, TypeOK, BalanceType
<1>4. CASE KeepBalance  BY <1>4 DEF KeepBalance, TypeOK, BalanceType
<1> QED BY <1>1, <1>2, <1>3, <1>4
    DEF SendMail, Kill, KeepBalance, ReadConfig, InitCount, TakeCount, TakeRefused,
        CleanCounters, SkipBalance, BalanceRefused, Deliver, DeliverFails, RefundFails,
        ReleaseCount, ReleaseFails

LEMMA TypeStep ==
  ASSUME SendQuotaAssumption, TypeOK, Phases, [Next]_vars
  PROVE  TypeOK'
<1>1. request' \in [Requests -> Request]  BY PhasesStep
<1>2. CASE \E r \in Requests : SendMail(r) \/ Kill(r)
  <2>1. PICK r \in Requests : SendMail(r) \/ Kill(r)  BY <1>2
  <2>2. UNCHANGED <<today, config, adminOps>>
    BY <2>1 DEF SendMail, Kill, Begin, ReadConfig, InitCount, TakeCount, TakeRefused,
         CleanCounters, SkipBalance, TakeBalance, BalanceRefused, Deliver, DeliverFails,
         RefundBalance, RefundFails, ReleaseCount, ReleaseFails
  <2> QED BY <1>1, <2>1, <2>2, CounterType, SendBalanceType DEF TypeOK, BalanceType
<1>3. CASE \E a \in Addresses : RequestAccess(a) \/ UpdateSender(a) \/ RemoveSender(a)
  <2>1. BalanceType'  BY <1>3, EditsAreGranted DEF Granted
  <2>2. UNCHANGED <<today, config, counter>>
    BY <1>3 DEF RequestAccess, UpdateSender, RemoveSender
  <2>3. adminOps' = adminOps \/ (adminOps < MaxAdminOps /\ adminOps' = adminOps + 1)
    BY <1>3 DEF RequestAccess, UpdateSender, RemoveSender
  <2>4. adminOps' \in 0..MaxAdminOps  BY <2>3 DEF TypeOK, SendQuotaAssumption
  <2> QED BY <1>1, <2>1, <2>2, <2>4 DEF TypeOK, BalanceType
<1>4. CASE SaveConfig
  BY <1>1, <1>4 DEF SaveConfig, TypeOK, SendQuotaAssumption
<1>5. CASE NextDay
  BY <1>1, <1>5 DEF NextDay, TypeOK, SendQuotaAssumption, Days
<1>6. CASE UNCHANGED vars
  BY <1>1, <1>6 DEF vars, TypeOK
<1> QED BY <1>2, <1>3, <1>4, <1>5, <1>6 DEF Next

-----------------------------------------------------------------------------
(***************************************************************************)
(* Counting the requests.                                                  *)
(***************************************************************************)

\* The size of a finite set after one element has been judged anew.
LEMMA OneJoins ==
  ASSUME NEW S, NEW T, NEW r, IsFiniteSet(S), T = S \cup {r}
  PROVE  /\ Cardinality(S) \in Nat /\ Cardinality(T) \in Nat
         /\ Cardinality(T) = IF r \in S THEN Cardinality(S) ELSE Cardinality(S) + 1
<1>1. Cardinality(S) \in Nat  BY FS_CardinalityType
<1> QED BY <1>1, FS_AddElement

LEMMA OneLeaves ==
  ASSUME NEW S, NEW T, NEW r, IsFiniteSet(S), T = S \ {r}
  PROVE  /\ Cardinality(S) \in Nat /\ Cardinality(T) \in Nat
         /\ Cardinality(T) = IF r \in S THEN Cardinality(S) - 1 ELSE Cardinality(S)
<1>1. IsFiniteSet(T)  BY FS_RemoveElement
<1>2. Cardinality(S) \in Nat /\ Cardinality(T) \in Nat  BY <1>1, FS_CardinalityType
<1> QED BY <1>2, FS_RemoveElement

LEMMA HoldersFinite ==
  ASSUME SendQuotaAssumption, NEW k
  PROVE  IsFiniteSet(Holders(k)) /\ Cardinality(Holders(k)) \in Nat
<1>1. Holders(k) \in SUBSET Requests  BY DEF Holders
<1> QED BY <1>1, FS_Subset, FS_CardinalityType DEF SendQuotaAssumption

LEMMA PaidByFinite ==
  ASSUME SendQuotaAssumption, NEW a
  PROVE  IsFiniteSet(PaidBy(a)) /\ Cardinality(PaidBy(a)) \in Nat
<1>1. PaidBy(a) \in SUBSET Requests  BY DEF PaidBy
<1> QED BY <1>1, FS_Subset, FS_CardinalityType DEF SendQuotaAssumption

\* Those who rely on a counter, after request r has gone on as q.
LEMMA HoldersMove ==
  ASSUME SendQuotaAssumption, TypeOK, NEW r \in Requests, NEW q, Become(r, q), NEW k,
         NEW before, before = Cardinality(Holders(k)),
         NEW after, after = Cardinality(Holders(k))'
  PROVE  /\ before \in Nat /\ after \in Nat
         /\ Relying(q, k) =>
              after = IF Relying(request[r], k) THEN before ELSE before + 1
         /\ ~Relying(q, k) =>
              after = IF Relying(request[r], k) THEN before - 1 ELSE before
<1>1. PICK in \in BOOLEAN : in = Relying(q, k)  BY DEF Relying
<1>2. request' = [request EXCEPT ![r] = q] /\ request \in [Requests -> Request]
  BY DEF Become, TypeOK
<1>3. PICK S, T : S = Holders(k) /\ T = Holders(k)'  OBVIOUS
<1>4. T = IF in THEN S \cup {r} ELSE S \ {r}
  BY <1>1, <1>2, <1>3 DEF Holders, Relies, Relying
<1>5. r \in S <=> Relying(request[r], k)  BY <1>3 DEF Holders, Relies, Relying
<1>6. IsFiniteSet(S)  BY <1>3, HoldersFinite
<1>7. before = Cardinality(S) /\ after = Cardinality(T)  BY <1>3
<1>8. CASE in
  <2>1. T = S \cup {r}  BY <1>4, <1>8
  <2> QED BY <1>1, <1>5, <1>6, <1>7, <1>8, <2>1, OneJoins
<1>9. CASE ~in
  <2>1. T = S \ {r}  BY <1>4, <1>9
  <2> QED BY <1>1, <1>5, <1>6, <1>7, <1>9, <2>1, OneLeaves
<1> QED BY <1>8, <1>9

\* Those who were paid from a balance.
LEMMA PaidByMove ==
  ASSUME SendQuotaAssumption, TypeOK, NEW r \in Requests, NEW q, Become(r, q), NEW a,
         NEW before, before = Cardinality(PaidBy(a)),
         NEW after, after = Cardinality(PaidBy(a))',
         q \in Request
  PROVE  /\ before \in Nat /\ after \in Nat
         /\ Paying(q, a) =>
              after = IF Paying(request[r], a) THEN before ELSE before + 1
         /\ ~Paying(q, a) =>
              after = IF Paying(request[r], a) THEN before - 1 ELSE before
<1>1. PICK in \in BOOLEAN : in = Paying(q, a)  BY DEF Paying, Request
<1>2. request' = [request EXCEPT ![r] = q] /\ request \in [Requests -> Request]
  BY DEF Become, TypeOK
<1>3. PICK S, T : S = PaidBy(a) /\ T = PaidBy(a)'  OBVIOUS
<1>4. T = IF in THEN S \cup {r} ELSE S \ {r}
  BY <1>1, <1>2, <1>3 DEF PaidBy, Paying
<1>5. r \in S <=> Paying(request[r], a)  BY <1>3 DEF PaidBy, Paying
<1>6. IsFiniteSet(S)  BY <1>3, PaidByFinite
<1>7. before = Cardinality(S) /\ after = Cardinality(T)  BY <1>3
<1>8. CASE in
  <2>1. T = S \cup {r}  BY <1>4, <1>8
  <2> QED BY <1>1, <1>5, <1>6, <1>7, <1>8, <2>1, OneJoins
<1>9. CASE ~in
  <2>1. T = S \ {r}  BY <1>4, <1>9
  <2> QED BY <1>1, <1>5, <1>6, <1>7, <1>9, <2>1, OneLeaves
<1> QED BY <1>8, <1>9

\* Failures are not forgotten.
LEMMA SmoothBefore ==
  ASSUME TypeOK, NEW r \in Requests, NEW q, Become(r, q), Smooth'
  PROVE  Fine(q) /\ (Fine(request[r]) => Smooth)
<1>1. request' = [request EXCEPT ![r] = q] /\ request \in [Requests -> Request]
  BY DEF Become, TypeOK
<1> QED BY <1>1 DEF Smooth, Fine

-----------------------------------------------------------------------------
(***************************************************************************)
(* The counters.                                                           *)
(***************************************************************************)

\* What is of an earlier date stays so.
LEMMA OlderLater ==
  ASSUME SendQuotaAssumption, NEW k \in Key, NEW d \in Days, NEW e \in Days, d <= e, Older(k, d)
  PROVE  Older(k, e)
BY KeyType DEF SendQuotaAssumption, Older, KeyOf, Days, Kinds

LEMMA CurrentIsNotOlder ==
  ASSUME SendQuotaAssumption, TypeOK, NEW k \in Key, Current(k)
  PROVE  ~Older(k, today)
<1>1. PICK kind \in Kinds : k = KeyOf(kind, today)  BY DEF Current
<1> QED BY <1>1, KeyOfType DEF Older, TypeOK

LEMMA CountType ==
  ASSUME TypeOK, NEW k \in Key
  PROVE  Count(k) \in Nat
BY DEF TypeOK, Count, Missing

\* What a request relies on stays, and so does what the counters say.
LEMMA SameSlotsKept ==
  ASSUME SendQuotaAssumption, TypeOK, Slots,
         NEW r \in Requests, NEW q, Become(r, q), SameSlots(request[r], q),
         today' = today,
         \A k \in Key : ~Older(k, today) => Count(k)' = Count(k)
  PROVE  Slots'
<1> SUFFICES ASSUME NEW k \in Key, ~Older(k, today)
             PROVE  /\ Cardinality(Holders(k))' <= Count(k)'
                    /\ Smooth' => Cardinality(Holders(k))' = Count(k)'
  BY DEF Slots, Older
<1>1. PICK before, after : before = Cardinality(Holders(k)) /\ after = Cardinality(Holders(k))'
  OBVIOUS
<1>2. PICK n \in Nat : n = Count(k)  BY CountType
<1>3. Count(k)' = n  BY <1>2
<1>4. before <= n /\ (Smooth => before = n)  BY <1>1, <1>2 DEF Slots
<1>5. /\ before \in Nat /\ after \in Nat
      /\ Relying(q, k) => after = IF Relying(request[r], k) THEN before ELSE before + 1
      /\ ~Relying(q, k) => after = IF Relying(request[r], k) THEN before - 1 ELSE before
  BY <1>1, HoldersMove
<1>6. Relying(q, k) => Relying(request[r], k)  BY DEF SameSlots
<1>7. after <= n  BY <1>4, <1>5, <1>6
<1>8. ASSUME Smooth' PROVE after = n
  <2>1. Fine(q) /\ (Fine(request[r]) => Smooth)  BY <1>8, SmoothBefore
  <2>2. Smooth /\ (Relying(request[r], k) => Relying(q, k))  BY <2>1 DEF SameSlots
  <2> QED BY <1>4, <1>5, <1>6, <2>2
<1> QED BY <1>1, <1>3, <1>7, <1>8

LEMMA TakeKeepsSlots ==
  ASSUME SendQuotaAssumption, TypeOK, Phases, Slots, NEW r \in Requests, TakeCount(r)
  PROVE  Slots'
<1>1. PICK p \in Request : p = request[r]  BY RequestType
<1>2. PICK c \in Key : c = MyKey(p)  BY KeyOfType DEF MyKey, Request
<1>3. PICK q : Become(r, q) /\ Proper(q) /\ NoMorePaid(p, q) /\ Reserves(p, q, c)
  BY <1>1, <1>2, TakeCountRequest
<1>4. /\ counter[c] # Missing /\ today' = today
      /\ counter' = [counter EXCEPT ![c] = @ + 1]
  BY <1>1, <1>2 DEF TakeCount, Available
<1> SUFFICES ASSUME NEW k \in Key, ~Older(k, today)
             PROVE  /\ Cardinality(Holders(k))' <= Count(k)'
                    /\ Smooth' => Cardinality(Holders(k))' = Count(k)'
  BY <1>4 DEF Slots, Older
<1>5. PICK before, after : before = Cardinality(Holders(k)) /\ after = Cardinality(Holders(k))'
  OBVIOUS
<1>6. PICK n \in Nat : n = Count(k)  BY CountType
<1>7. Count(k)' = IF k = c THEN n + 1 ELSE n  BY <1>4, <1>6 DEF Count, TypeOK, Missing
<1>8. before <= n /\ (Smooth => before = n)  BY <1>5, <1>6 DEF Slots
<1>9. /\ before \in Nat /\ after \in Nat
      /\ Relying(q, k) => after = IF Relying(p, k) THEN before ELSE before + 1
      /\ ~Relying(q, k) => after = IF Relying(p, k) THEN before - 1 ELSE before
  BY <1>1, <1>3, <1>5, HoldersMove
<1>10. after <= IF k = c THEN n + 1 ELSE n  BY <1>3, <1>8, <1>9 DEF Reserves
<1>11. ASSUME Smooth' PROVE after = IF k = c THEN n + 1 ELSE n
  <2>1. Fine(q) /\ Smooth  BY <1>1, <1>3, <1>11, SmoothBefore DEF Reserves
  <2> QED BY <1>3, <1>8, <1>9, <2>1 DEF Reserves
<1> QED BY <1>5, <1>7, <1>10, <1>11

LEMMA ReleaseKeepsSlots ==
  ASSUME SendQuotaAssumption, TypeOK, Phases, Slots, NEW r \in Requests, ReleaseCount(r)
  PROVE  Slots'
<1>1. PICK p \in Request : p = request[r]  BY RequestType
<1>2. PICK c : c = KeyOf(LastHeld(p), p.day)  OBVIOUS
<1>3. c \in Key /\ Relying(p, c)  BY <1>1, <1>2, ReleaseCountRequest
<1>4. PICK q : Become(r, q) /\ Proper(q) /\ NoMorePaid(p, q) /\ Releases(p, q, c)
  BY <1>1, <1>2, ReleaseCountRequest
<1>5. /\ counter[c] # Missing /\ today' = today
      /\ counter' = [counter EXCEPT ![c] = IF @ > 0 THEN @ - 1 ELSE 0]
  BY <1>1, <1>2 DEF ReleaseCount
<1> SUFFICES ASSUME NEW k \in Key, ~Older(k, today)
             PROVE  /\ Cardinality(Holders(k))' <= Count(k)'
                    /\ Smooth' => Cardinality(Holders(k))' = Count(k)'
  BY <1>5 DEF Slots, Older
<1>6. PICK before, after : before = Cardinality(Holders(k)) /\ after = Cardinality(Holders(k))'
  OBVIOUS
<1>7. PICK n \in Nat : n = Count(k)  BY CountType
<1>8. before <= n /\ (Smooth => before = n)  BY <1>6, <1>7 DEF Slots
<1>9. /\ before \in Nat /\ after \in Nat
      /\ Relying(q, k) => after = IF Relying(p, k) THEN before ELSE before + 1
      /\ ~Relying(q, k) => after = IF Relying(p, k) THEN before - 1 ELSE before
  BY <1>1, <1>4, <1>6, HoldersMove
\* A counter that is relied on is positive.
<1>10. Count(k)' = IF k = c THEN n - 1 ELSE n
  <2>1. CASE k = c
    <3>1. n > 0  BY <1>3, <1>4, <1>8, <1>9, <2>1 DEF Releases
    <3> QED BY <1>5, <1>7, <2>1, <3>1 DEF Count, TypeOK, Missing
  <2>2. CASE k # c  BY <1>5, <1>7, <2>2 DEF Count
  <2> QED BY <2>1, <2>2
<1>11. after <= IF k = c THEN n - 1 ELSE n  BY <1>3, <1>4, <1>8, <1>9 DEF Releases
<1>12. ASSUME Smooth' PROVE after = IF k = c THEN n - 1 ELSE n
  <2>1. Fine(q) /\ Smooth  BY <1>1, <1>4, <1>12, SmoothBefore DEF Releases
  <2> QED BY <1>3, <1>4, <1>8, <1>9, <2>1 DEF Releases
<1> QED BY <1>6, <1>10, <1>11, <1>12

\* The other statements of sendMail leave the counters that matter as they are.
LEMMA CountsStay ==
  ASSUME SendQuotaAssumption, TypeOK, Phases, NEW r \in Requests, SendMail(r) \/ Kill(r),
         ~TakeCount(r), ~ReleaseCount(r)
  PROVE  \A k \in Key : \/ Count(k)' = Count(k)
                        \/ Older(k, today) /\ Count(k)' = 0
<1>1. CASE InitCount(r)
  <2>1. PICK c \in Key : c = MyKey(request[r])  BY KeyOfType DEF MyKey, TypeOK, Request
  <2>2. CASE counter' = [counter EXCEPT ![c] = IF @ = Missing THEN 0 ELSE @]
    BY <2>2 DEF TypeOK, Count, Missing
  <2>3. CASE UNCHANGED counter  BY <2>3 DEF Count
  <2> QED BY <1>1, <2>1, <2>2, <2>3 DEF InitCount
<1>2. CASE CleanCounters(r)
  <2>1. PICK d \in Days : d = request[r].day  BY DEF TypeOK, Request
  <2>2. \A k \in Key : Older(k, d) => Older(k, today)
    BY <2>1, OlderLater DEF TypeOK, Phases
  <2>3. CASE counter' = [k \in Key |-> IF Older(k, d) THEN Missing ELSE counter[k]]
    BY <2>2, <2>3 DEF Count
  <2>4. CASE UNCHANGED counter  BY <2>4 DEF Count
  <2> QED BY <1>2, <2>1, <2>3, <2>4 DEF CleanCounters
<1>3. CASE UNCHANGED counter  BY <1>3 DEF Count
<1> QED BY <1>1, <1>2, <1>3
    DEF SendMail, Kill, Begin, ReadConfig, TakeRefused, SkipBalance, TakeBalance,
        BalanceRefused, Deliver, DeliverFails, RefundBalance, RefundFails, ReleaseFails

LEMMA SendKeepsSlots ==
  ASSUME SendQuotaAssumption, TypeOK, Phases, Slots, NEW r \in Requests, SendMail(r) \/ Kill(r)
  PROVE  Slots'
<1>1. CASE TakeCount(r)  BY <1>1, TakeKeepsSlots
<1>2. CASE ReleaseCount(r)  BY <1>2, ReleaseKeepsSlots
<1>3. CASE ~TakeCount(r) /\ ~ReleaseCount(r)
  <2>1. \E q : Become(r, q) /\ SameSlots(request[r], q)
    <3>1. PICK p \in Request : p = request[r]  BY RequestType
    <3>2. Quiet(r) \/ TakeBalance(r) \/ RefundBalance(r)
      BY <1>3, BeginIsQuiet, ReadConfigIsQuiet, RefusalIsQuiet, PassageIsQuiet,
         DeliverFailsIsQuiet, RefundFailsIsQuiet, EndIsQuiet DEF SendMail
    <3> QED BY <3>1, <3>2, TakeBalanceRequest, RefundBalanceRequest DEF Quiet
  <2>2. \A k \in Key : ~Older(k, today) => Count(k)' = Count(k)  BY <1>3, CountsStay
  <2>3. today' = today  BY SendMoves
  <2> QED BY <2>1, <2>2, <2>3, SameSlotsKept
<1> QED BY <1>1, <1>2, <1>3

LEMMA SlotsStep ==
  ASSUME SendQuotaAssumption, TypeOK, Phases, Slots, [Next]_vars
  PROVE  Slots'
<1>1. CASE \E r \in Requests : SendMail(r) \/ Kill(r)  BY <1>1, SendKeepsSlots
<1>2. CASE request' = request /\ counter' = counter /\ (today' = today \/ NextDay)
  <2>1. \A k \in Key : Older(k, today) => Older(k, today')
    <3>1. CASE today' = today  BY <3>1
    <3>2. CASE NextDay
      <4>1. PICK d \in Days, e \in Days : d = today /\ e = today' /\ d <= e
        BY <3>2 DEF NextDay, TypeOK, Days, SendQuotaAssumption
      <4> QED BY <4>1, OlderLater
    <3> QED BY <1>2, <3>1, <3>2
  <2>2. \A k \in Key : Cardinality(Holders(k))' = Cardinality(Holders(k))
    BY <1>2 DEF Holders, Relies
  <2>3. \A k \in Key : Count(k)' = Count(k)  BY <1>2 DEF Count
  <2>4. Smooth' = Smooth  BY <1>2 DEF Smooth
  <2>5. \A k \in Key : Older(k, today)' => Older(k, today')  BY DEF Older
  <2>6. \A k \in Key : Older(k, today') => Older(k, today)'  BY DEF Older
  <2> QED BY <2>1, <2>2, <2>3, <2>4, <2>6 DEF Slots
<1> QED BY <1>1, <1>2
    DEF Next, RequestAccess, UpdateSender, RemoveSender, SaveConfig, NextDay, vars

LEMMA CappedStep ==
  ASSUME SendQuotaAssumption, TypeOK, Phases, Capped, [Next]_vars
  PROVE  Capped'
<1>1. CASE \E r \in Requests : TakeCount(r)
  <2>1. PICK r \in Requests : TakeCount(r)  BY <1>1
  <2>2. PICK p \in Request : p = request[r]  BY RequestType
  <2>3. PICK c \in Key : c = MyKey(p) /\ c[1] = p.kind  BY KeyOfType DEF MyKey, Request
  <2>4. /\ counter[c] # Missing /\ counter[c] < p.limits[p.kind]
        /\ counter' = [counter EXCEPT ![c] = @ + 1]
    BY <2>1, <2>2, <2>3 DEF TakeCount, Available
  <2>5. p.limits \in Configs /\ p.limits[p.kind] \in Int
    BY DEF Request, SendQuotaAssumption, Config, Off, Unlimited
  <2>6. Count(c)' <= p.limits[c[1]]
    BY <2>3, <2>4, <2>5 DEF Count, TypeOK, Missing
  <2>7. \A k \in Key : k # c => Count(k)' = Count(k)  BY <2>4 DEF Count
  <2> QED BY <2>5, <2>6, <2>7 DEF Capped
<1>2. CASE \E r \in Requests : ReleaseCount(r)
  <2>1. PICK r \in Requests : ReleaseCount(r)  BY <1>2
  <2>2. PICK c : c = KeyOf(LastHeld(request[r]), request[r].day)  OBVIOUS
  <2>3. counter' = [counter EXCEPT ![c] = IF @ > 0 THEN @ - 1 ELSE 0]
    BY <2>1, <2>2 DEF ReleaseCount
  <2>4. \A k \in Key : Count(k)' <= Count(k)
    BY <2>3 DEF Count, TypeOK, Missing
  <2>5. \A k \in Key : Count(k) \in Nat /\ Count(k)' \in Nat
    BY <2>3 DEF Count, TypeOK, Missing
  <2>6. \A c0 \in Configs : \A k \in Key : c0[k[1]] \in Int
    BY KeyType DEF SendQuotaAssumption, Config, Off, Unlimited
  <2> SUFFICES ASSUME NEW k \in Key, Count(k)' > 0
               PROVE  \E c0 \in Configs : Count(k)' <= c0[k[1]]
    BY DEF Capped
  <2>7. PICK n \in Nat, m \in Nat : n = Count(k) /\ m = Count(k)'  BY <2>5
  <2>8. m <= n /\ m > 0  BY <2>4, <2>7
  <2>9. PICK c0 \in Configs : n <= c0[k[1]]  BY <2>7, <2>8 DEF Capped
  <2>10. m <= c0[k[1]]  BY <2>6, <2>8, <2>9
  <2> QED BY <2>7, <2>10
<1>3. CASE \A k \in Key : Count(k)' = Count(k) \/ Count(k)' = 0
  BY <1>3 DEF Capped
<1>4. CASE UNCHANGED counter  BY <1>3, <1>4 DEF Count
<1> QED BY <1>1, <1>2, <1>3, <1>4, CountsStay
    DEF Next, RequestAccess, UpdateSender, RemoveSender, SaveConfig, NextDay, vars

-----------------------------------------------------------------------------
(***************************************************************************)
(* The balances.                                                           *)
(***************************************************************************)

LEMMA LeftType ==
  ASSUME TypeOK, NEW a \in Addresses
  PROVE  Left(a) \in Nat /\ granted[a] \in Nat
BY DEF TypeOK, Left, Missing

\* A request that is paid no more than before, while what is left was granted.
LEMMA GrantsCover ==
  ASSUME SendQuotaAssumption, TypeOK, TypeOK', NoOverdraft, NEW r \in Requests,
         NEW q \in Request, Become(r, q), NoMorePaid(request[r], q), Granted
  PROVE  NoOverdraft'
<1> SUFFICES ASSUME NEW a \in Addresses
             PROVE  Cardinality(PaidBy(a))' + Left(a)' <= granted'[a]
  BY DEF NoOverdraft, Left
<1>1. PICK before, after : before = Cardinality(PaidBy(a)) /\ after = Cardinality(PaidBy(a))'
  OBVIOUS
<1>2. /\ before \in Nat /\ after \in Nat
      /\ Paying(q, a) => after = IF Paying(request[r], a) THEN before ELSE before + 1
      /\ ~Paying(q, a) => after = IF Paying(request[r], a) THEN before - 1 ELSE before
  BY <1>1, PaidByMove
<1>3. after <= before  BY <1>2 DEF NoMorePaid
<1>4. PICK x \in Nat, y \in Nat, g \in Nat, h \in Nat :
        x = Left(a) /\ y = Left(a)' /\ g = granted[a] /\ h = granted'[a]
  BY LeftType DEF TypeOK, Left, Missing
<1>5. before + x <= g  BY <1>1, <1>4 DEF NoOverdraft, Left
<1>6. y + g <= x + h  BY <1>4 DEF Granted
<1> QED BY <1>1, <1>2, <1>3, <1>4, <1>5, <1>6

\* The debit moves a unit from the row to the request.
LEMMA DebitIsCovered ==
  ASSUME SendQuotaAssumption, TypeOK, Phases, NoOverdraft, NEW r \in Requests, TakeBalance(r)
  PROVE  NoOverdraft'
<1>1. PICK p \in Request : p = request[r]  BY RequestType
<1>2. PICK q : /\ Become(r, q) /\ Proper(q) /\ SameSlots(p, q)
               /\ \A a \in Addresses : Paying(q, a) => a = p.address
  BY <1>1, TakeBalanceRequest
<1>3. /\ balance[p.address] > 0 /\ granted' = granted
      /\ balance' = [balance EXCEPT ![p.address] = @ - 1]
  BY <1>1 DEF TakeBalance, Solvent
<1> SUFFICES ASSUME NEW a \in Addresses
             PROVE  Cardinality(PaidBy(a))' + Left(a)' <= granted'[a]
  BY DEF NoOverdraft, Left
<1>4. PICK before, after : before = Cardinality(PaidBy(a)) /\ after = Cardinality(PaidBy(a))'
  OBVIOUS
<1>5. /\ before \in Nat /\ after \in Nat
      /\ Paying(q, a) => after = IF Paying(p, a) THEN before ELSE before + 1
      /\ ~Paying(q, a) => after = IF Paying(p, a) THEN before - 1 ELSE before
  BY <1>1, <1>2, <1>4, PaidByMove DEF Proper
<1>6. PICK x \in Nat, g \in Nat : x = Left(a) /\ g = granted[a]  BY LeftType
<1>7. before + x <= g  BY <1>4, <1>6 DEF NoOverdraft, Left
<1>8. CASE a = p.address
  <2>1. Left(a)' = x - 1  BY <1>3, <1>6, <1>8 DEF Left, TypeOK, Missing
  <2>2. after <= before + 1  BY <1>5
  <2> QED BY <1>3, <1>4, <1>5, <1>6, <1>7, <2>1, <2>2
<1>9. CASE a # p.address
  <2>1. Left(a)' = x  BY <1>3, <1>6, <1>9 DEF Left
  <2>2. after <= before  BY <1>2, <1>5, <1>9
  <2> QED BY <1>3, <1>4, <1>5, <1>6, <1>7, <2>1, <2>2
<1> QED BY <1>8, <1>9

\* The refund moves it back.
LEMMA RefundIsCovered ==
  ASSUME SendQuotaAssumption, TypeOK, Phases, NoOverdraft, NEW r \in Requests, RefundBalance(r)
  PROVE  NoOverdraft'
<1>1. PICK p \in Request : p = request[r]  BY RequestType
<1>2. PICK q : /\ Become(r, q) /\ Proper(q) /\ SameSlots(p, q)
               /\ NoMorePaid(p, q) /\ ~q.paid
  BY <1>1, RefundBalanceRequest
<1>3. /\ granted' = granted /\ p.pc = "refund" /\ p.paid
      /\ balance' = [balance EXCEPT ![p.address] = @ + 1]
  BY <1>1, RequestType DEF RefundBalance, Phase
<1> SUFFICES ASSUME NEW a \in Addresses
             PROVE  Cardinality(PaidBy(a))' + Left(a)' <= granted'[a]
  BY DEF NoOverdraft, Left
<1>4. PICK before, after : before = Cardinality(PaidBy(a)) /\ after = Cardinality(PaidBy(a))'
  OBVIOUS
<1>5. /\ before \in Nat /\ after \in Nat
      /\ ~Paying(q, a) => after = IF Paying(p, a) THEN before - 1 ELSE before
  BY <1>1, <1>2, <1>4, PaidByMove DEF Proper
<1>6. PICK x \in Nat, g \in Nat : x = Left(a) /\ g = granted[a]  BY LeftType
<1>7. before + x <= g  BY <1>4, <1>6 DEF NoOverdraft, Left
<1>8. ~Paying(q, a)  BY <1>2 DEF Paying
<1>9. CASE a = p.address
  <2>1. Left(a)' \in Nat /\ Left(a)' <= x + 1
    BY <1>3, <1>6, <1>9 DEF Left, TypeOK, Missing
  <2>2. Paying(p, a)  BY <1>3, <1>9 DEF Paying
  <2>3. after = before - 1  BY <1>5, <1>8, <2>2
  <2>4. PICK y \in Nat : y = Left(a)'  BY <2>1
  <2> QED BY <1>3, <1>4, <1>5, <1>6, <1>7, <2>1, <2>3, <2>4
<1>10. CASE a # p.address
  <2>1. Left(a)' = x  BY <1>3, <1>6, <1>10 DEF Left
  <2>2. after <= before  BY <1>5, <1>8
  <2> QED BY <1>3, <1>4, <1>5, <1>6, <1>7, <2>1, <2>2
<1> QED BY <1>9, <1>10

LEMMA SendIsCovered ==
  ASSUME SendQuotaAssumption, TypeOK, TypeOK', Phases, NoOverdraft,
         NEW r \in Requests, SendMail(r) \/ Kill(r)
  PROVE  NoOverdraft'
<1>1. CASE TakeBalance(r)  BY <1>1, DebitIsCovered
<1>2. CASE RefundBalance(r)  BY <1>2, RefundIsCovered
<1>3. CASE ~TakeBalance(r) /\ ~RefundBalance(r)
  <2>1. PICK q \in Request : Become(r, q) /\ NoMorePaid(request[r], q)
    <3>1. PICK p \in Request : p = request[r]  BY RequestType
    <3>2. Quiet(r) \/ TakeCount(r) \/ ReleaseCount(r)
      BY <1>3, BeginIsQuiet, ReadConfigIsQuiet, RefusalIsQuiet, PassageIsQuiet,
         DeliverFailsIsQuiet, RefundFailsIsQuiet, EndIsQuiet DEF SendMail
    <3> QED BY <3>1, <3>2, TakeCountRequest, ReleaseCountRequest DEF Quiet, Proper
  <2>2. Granted
    <3>1. CASE Begin(r)
      <4>1. request[r].address \in Addresses  BY DEF TypeOK, Request
      <4> QED BY <3>1, <4>1, EditsAreGranted
    <3>2. CASE KeepBalance  BY <3>2, KeepBalanceIsGranted
    <3> QED BY <1>3, <3>1, <3>2
        DEF SendMail, Kill, KeepBalance, ReadConfig, InitCount, TakeCount, TakeRefused,
            CleanCounters, SkipBalance, BalanceRefused, Deliver, DeliverFails, RefundFails,
            ReleaseCount, ReleaseFails
  <2> QED BY <2>1, <2>2, GrantsCover
<1> QED BY <1>1, <1>2, <1>3

LEMMA OverdraftStep ==
  ASSUME SendQuotaAssumption, TypeOK, TypeOK', Phases, NoOverdraft, [Next]_vars
  PROVE  NoOverdraft'
<1>1. CASE \E r \in Requests : SendMail(r) \/ Kill(r)  BY <1>1, SendIsCovered
<1>2. CASE request' = request /\ Granted
  <2> SUFFICES ASSUME NEW a \in Addresses
               PROVE  Cardinality(PaidBy(a))' + Left(a)' <= granted'[a]
    BY DEF NoOverdraft, Left
  <2>1. PICK n \in Nat : n = Cardinality(PaidBy(a))  BY PaidByFinite
  <2>2. Cardinality(PaidBy(a))' = n  BY <1>2, <2>1 DEF PaidBy
  <2>3. PICK x \in Nat, y \in Nat, g \in Nat, h \in Nat :
          x = Left(a) /\ y = Left(a)' /\ g = granted[a] /\ h = granted'[a]
    BY LeftType DEF TypeOK, Left, Missing
  <2>4. n + x <= g  BY <2>1, <2>3 DEF NoOverdraft, Left
  <2>5. y + g <= x + h  BY <1>2, <2>3 DEF Granted
  <2> QED BY <2>2, <2>3, <2>4, <2>5
<1>3. CASE request' = request /\ KeepBalance  BY <1>2, <1>3, KeepBalanceIsGranted
<1>4. CASE \E a \in Addresses : RequestAccess(a) \/ UpdateSender(a) \/ RemoveSender(a)
  <2>1. request' = request  BY <1>4 DEF RequestAccess, UpdateSender, RemoveSender
  <2> QED BY <1>2, <1>4, <2>1, EditsAreGranted
<1> QED BY <1>1, <1>3, <1>4 DEF Next, SaveConfig, NextDay, vars, KeepBalance

-----------------------------------------------------------------------------
(***************************************************************************)
(* The theorems.                                                           *)
(***************************************************************************)

LEMMA InitBooks ==
  ASSUME SendQuotaAssumption, Init
  PROVE  Books
<1>1. TypeOK  BY InitType
<1>2. PICK a0 \in Addresses : request = [r \in Requests |->
        [pc |-> "idle", address |-> a0, pays |-> FALSE, limits |-> config, day |-> 1,
         kind |-> "daily", held |-> {}, paid |-> FALSE, error |-> FALSE]]
  BY DEF Init
<1>3. today = 1  BY DEF Init
<1>4. Phases  BY <1>2, <1>3 DEF Phases, Phase
<1>5. \A k \in Key : Count(k) = 0  BY DEF Init, Count
<1>6. \A k : Holders(k) = {}  BY <1>2 DEF Holders, Relies
<1>7. Slots  BY <1>5, <1>6, FS_EmptySet DEF Slots
<1>8. Capped  BY <1>5 DEF Capped
<1>9. \A a \in Addresses : PaidBy(a) = {} /\ balance[a] = Missing /\ granted[a] = 0
  BY <1>2 DEF Init, PaidBy
<1>10. NoOverdraft  BY <1>9, FS_EmptySet DEF NoOverdraft
<1> QED BY <1>1, <1>4, <1>7, <1>8, <1>10 DEF Books

LEMMA BooksStep ==
  ASSUME SendQuotaAssumption, Books, [Next]_vars
  PROVE  Books'
<1>1. TypeOK /\ Phases /\ Slots /\ Capped /\ NoOverdraft  BY DEF Books
<1>2. TypeOK'  BY <1>1, TypeStep
<1>3. Phases'  BY <1>1, PhasesStep
<1>4. Slots'  BY <1>1, SlotsStep
<1>5. Capped'  BY <1>1, CappedStep
<1>6. NoOverdraft'  BY <1>1, <1>2, OverdraftStep
<1> QED BY <1>2, <1>3, <1>4, <1>5, <1>6 DEF Books

\* The books balance in every state.
LEMMA BooksAlways == SendQuotaAssumption => (Spec => []Books)
<1> SUFFICES ASSUME SendQuotaAssumption PROVE Spec => []Books  OBVIOUS
<1> QED BY InitBooks, BooksStep, PTL DEF Spec

\* Every variable keeps its type: counters and balances never fall below zero.
THEOREM TypeCorrect == SendQuotaAssumption => (Spec => []TypeOK)
<1> SUFFICES ASSUME SendQuotaAssumption PROVE Spec => []TypeOK  OBVIOUS
<1>1. Books => TypeOK  BY DEF Books
<1> QED BY <1>1, BooksAlways, PTL

\* No more mails leave under a counter of the current date than the largest limit that
\* was configured (reserveSendMailLimit, releaseSendMailLimit).
THEOREM LimitsHold == SendQuotaAssumption => (Spec => []LimitHeld)
<1> SUFFICES ASSUME SendQuotaAssumption PROVE Spec => []LimitHeld  OBVIOUS
<1>1. Books => LimitHeld
  <2> SUFFICES ASSUME Books, NEW k \in Key, Current(k), Holders(k) # {}
               PROVE  \E c \in Configs : Cardinality(Holders(k)) <= c[k[1]]
    BY DEF LimitHeld
  <2>1. TypeOK /\ Slots /\ Capped  BY DEF Books
  <2>2. PICK n \in Nat, m \in Nat : n = Cardinality(Holders(k)) /\ m = Count(k)
    BY <2>1, HoldersFinite, CountType
  <2>3. n # 0  BY <2>2, HoldersFinite, FS_EmptySet
  <2>4. n <= m  BY <2>1, <2>2, CurrentIsNotOlder DEF Slots
  <2>5. PICK c \in Configs : m <= c[k[1]]  BY <2>1, <2>2, <2>3, <2>4 DEF Capped
  <2>6. c[k[1]] \in Int  BY KeyType DEF SendQuotaAssumption, Config, Off, Unlimited
  <2> QED BY <2>2, <2>4, <2>5, <2>6
<1> QED BY <1>1, BooksAlways, PTL

\* A send that is refused or fails cleanly leaves no slot of the current date reserved
\* (releaseSendMailLimit on every path out of sendMail).
THEOREM SlotsReturn == SendQuotaAssumption => (Spec => []NoSlotLost)
<1> SUFFICES ASSUME SendQuotaAssumption PROVE Spec => []NoSlotLost  OBVIOUS
<1>1. Books => NoSlotLost
  BY CurrentIsNotOlder DEF Books, Slots, Smooth, Count, NoSlotLost
<1> QED BY <1>1, BooksAlways, PTL

\* No address sends more than it was granted (reserveSendBalance, releaseSendBalance).
THEOREM GrantsHold == SendQuotaAssumption => (Spec => []NoOverdraft)
<1> SUFFICES ASSUME SendQuotaAssumption PROVE Spec => []NoOverdraft  OBVIOUS
<1>1. Books => NoOverdraft  BY DEF Books
<1> QED BY <1>1, BooksAlways, PTL

-----------------------------------------------------------------------------
(***************************************************************************)
(* AuthLimits: what has been allowed in and before the window of a row.    *)
(***************************************************************************)

\* Cardinality in the two parts is that of FiniteSets.
LEMMA OneCardinality ==
  ASSUME NEW S
  PROVE  /\ Attempts!IsFiniteSet(S) <=> IsFiniteSet(S)
         /\ Access!IsFiniteSet(S) <=> IsFiniteSet(S)
         /\ Attempts!Cardinality(S) = Cardinality(S)
         /\ Access!Cardinality(S) = Cardinality(S)
<1>1. Attempts!IsFiniteSet(S) <=> IsFiniteSet(S)
  BY Zenon DEF Attempts!IsFiniteSet, IsFiniteSet
<1>2. Access!IsFiniteSet(S) <=> IsFiniteSet(S)
  BY Zenon DEF Access!IsFiniteSet, IsFiniteSet
<1>3. Attempts!Cardinality(S) = Cardinality(S)
  BY Zenon DEF Attempts!Cardinality, Cardinality, Attempts!IsFiniteSet, IsFiniteSet
<1>4. Access!Cardinality(S) = Cardinality(S)
  BY Zenon DEF Access!Cardinality, Cardinality, Access!IsFiniteSet, IsFiniteSet
<1> QED BY <1>1, <1>2, <1>3, <1>4

\* Login x has counted for key k between a and b.
CountedFor(x, k, a, b) == x.keys[k[1]] = k /\ x.counted[k[1]] \in a..b

Seen(k, a, b) == {r \in Logins : CountedFor(login[r], k, a, b)}

\* Those of them that have passed what they have been counted for.
Allowed(k, a, b) == {r \in Seen(k, a, b) : login[r].pc \in {"account", "passed"}}

LoginRecord ==
  [pc : {"idle", "account", "passed", "refused", "failed"},
   keys    : [Attempts!Kinds -> Attempts!RateKeys \cup {None}],
   counted : [Attempts!Kinds -> Attempts!Times \cup {None}],
   by      : Attempts!Kinds \cup {None}]

\* How far a login has come.
LoginFits(x) ==
  /\ \A kind \in Attempts!Kinds :
       /\ x.keys[kind] # None => x.keys[kind][1] = kind
       /\ x.counted[kind] # None => x.counted[kind] <= now
  /\ x.pc = "idle" => x.counted["ip"] = None /\ x.counted["account"] = None
  /\ x.pc = "account" => x.counted["account"] = None /\ x.keys["account"] # None
  /\ x.pc = "refused" => /\ x.by # None
                         /\ x.keys[x.by] # None
                         /\ x.counted[x.by] # None

\* The row [attempts |-> n, started |-> s, updated |-> u] of key k: what has been
\* allowed in its window, after the attempt that opened it, and in the time of a window
\* before.
RowFits(k, n, s, u) ==
  /\ n >= 1 /\ s <= u /\ u <= now /\ u < s + Window
  /\ \A r \in Logins, t \in Attempts!Times : CountedFor(login[r], k, t, t) => t <= u
  /\ s > now - Window => n <= Cardinality(Seen(k, s, now))
  /\ Cardinality(Allowed(k, s, MaxTime)) <= n
  /\ Cardinality(Allowed(k, s, MaxTime)) <= Limit
  /\ Cardinality(Allowed(k, s + 1, MaxTime)) <= n - 1
  /\ Cardinality(Allowed(k, s + 1, MaxTime)) <= Limit - 1
  /\ Cardinality(Allowed(k, s - Window + 1, s - 1)) <= Limit - 1

KeyFits(k) ==
  IF rows[k] = None
  THEN \A r \in Logins, t \in Attempts!Times :
         CountedFor(login[r], k, t, t) => t < now - Window
  ELSE RowFits(k, rows[k].attempts, rows[k].started, rows[k].updated)

Refusal(x) ==
  x.pc = "refused" =>
    Cardinality(Seen(x.keys[x.by], x.counted[x.by] - Window + 1, x.counted[x.by])) > Limit

Windows ==
  /\ Attempts!TypeOK
  /\ \A r \in Logins : LoginFits(login[r])
  /\ \A k \in Attempts!RateKeys : KeyFits(k)
  /\ \A k \in Attempts!RateKeys, t \in Attempts!Times :
       Cardinality(Allowed(k, t - Window + 1, t)) < 2 * Limit
  /\ \A r \in Logins : Refusal(login[r])

-----------------------------------------------------------------------------

LEMMA KeyKinds ==
  ASSUME NEW k \in Attempts!RateKeys  PROVE k[1] \in Attempts!Kinds
BY DEF Attempts!RateKeys, Attempts!Kinds

LEMMA SetFacts ==
  ASSUME Attempts!AuthLimitsAssumption, NEW k, NEW a, NEW b
  PROVE  /\ IsFiniteSet(Seen(k, a, b)) /\ Cardinality(Seen(k, a, b)) \in Nat
         /\ IsFiniteSet(Allowed(k, a, b)) /\ Cardinality(Allowed(k, a, b)) \in Nat
<1>1. Seen(k, a, b) \in SUBSET Logins /\ Allowed(k, a, b) \in SUBSET Logins
  BY DEF Seen, Allowed
<1> QED BY <1>1, FS_Subset, FS_CardinalityType, OneCardinality DEF Attempts!AuthLimitsAssumption

\* A shorter time does not have more.
LEMMA Shorter ==
  ASSUME Attempts!AuthLimitsAssumption, NEW k, NEW a, NEW b, NEW c, NEW d, a..b \subseteq c..d
  PROVE  /\ Cardinality(Allowed(k, a, b)) <= Cardinality(Allowed(k, c, d))
         /\ Cardinality(Seen(k, a, b)) <= Cardinality(Seen(k, c, d))
<1>1. Seen(k, a, b) \in SUBSET Seen(k, c, d)  BY DEF Seen, CountedFor
<1>2. Allowed(k, a, b) \in SUBSET Allowed(k, c, d)  BY <1>1 DEF Allowed
<1> QED BY <1>1, <1>2, SetFacts, FS_Subset

\* The time of what is counted.
LEMMA CountedTime ==
  ASSUME Windows, Attempts!AuthLimitsAssumption, NEW r \in Logins, NEW k \in Attempts!RateKeys,
         NEW a, NEW b, CountedFor(login[r], k, a, b), a \in Int, b \in Int
  PROVE  \E t \in Attempts!Times : t \in a..b /\ t <= now /\ CountedFor(login[r], k, t, t)
<1>1. k[1] \in Attempts!Kinds  BY KeyKinds
<1>2. login[r].counted[k[1]] \in Attempts!Times \cup {None}
  BY <1>1 DEF Windows, Attempts!TypeOK, Attempts!Kinds
<1>3. login[r].counted[k[1]] \in Attempts!Times
  BY <1>2 DEF CountedFor, Attempts!AuthLimitsAssumption
<1>4. login[r].counted[k[1]] <= now
  BY <1>1, <1>3 DEF Windows, LoginFits, Attempts!AuthLimitsAssumption, Attempts!Times
<1> QED BY <1>3, <1>4 DEF CountedFor, Attempts!Times

-----------------------------------------------------------------------------
(* Time passes, and rows are purged.                                       *)

\* What stays when no login has changed.
LEMMA SameLogins ==
  ASSUME login' = login
  PROVE  /\ \A k, a, b : Seen(k, a, b)' = Seen(k, a, b)
         /\ \A k, a, b : Allowed(k, a, b)' = Allowed(k, a, b)
<1>1. \A k, a, b : Seen(k, a, b)' = Seen(k, a, b)  BY DEF Seen, CountedFor
<1>2. \A k, a, b : Allowed(k, a, b)' = Allowed(k, a, b)  BY <1>1 DEF Allowed
<1> QED BY <1>1, <1>2

LEMMA TickWindows ==
  ASSUME Attempts!AuthLimitsAssumption, Windows, Attempts!Tick  PROVE Windows'
<1>1. /\ now' = now + 1 /\ now' \in Attempts!Times /\ now \in Int /\ Window \in Int
      /\ rows' = rows /\ login' = login
  BY DEF Attempts!Tick, Windows, Attempts!TypeOK, Attempts!Times, Attempts!AuthLimitsAssumption
<1>2. Attempts!TypeOK'  BY <1>1 DEF Windows, Attempts!TypeOK
<1>3. \A r \in Logins : LoginFits(login[r])'
  <2> SUFFICES ASSUME NEW r \in Logins  PROVE LoginFits(login[r])'
    OBVIOUS
  <2>1. LoginFits(login[r])  BY DEF Windows
  <2>2. \A kind \in Attempts!Kinds : login[r].counted[kind] \in Attempts!Times \cup {None}
    BY DEF Windows, Attempts!TypeOK, Attempts!Kinds
  <2>3. \A kind \in Attempts!Kinds :
          login[r].counted[kind] # None => login[r].counted[kind] <= now + 1
    BY <1>1, <2>1, <2>2 DEF LoginFits, Attempts!Times
  <2> QED BY <1>1, <2>1, <2>3 DEF LoginFits
<1>4. \A k \in Attempts!RateKeys : KeyFits(k)'
  <2> SUFFICES ASSUME NEW k \in Attempts!RateKeys  PROVE KeyFits(k)'
    OBVIOUS
  <2>1. KeyFits(k)  BY DEF Windows
  <2>2. CASE rows[k] = None
    <3>1. \A r \in Logins, t \in Attempts!Times :
            CountedFor(login[r], k, t, t)' => t < now' - Window
      BY <1>1, <2>1, <2>2 DEF KeyFits, CountedFor, Attempts!Times
    <3> QED BY <1>1, <2>2, <3>1 DEF KeyFits, CountedFor
  <2>3. CASE rows[k] # None
    <3>1. PICK n \in Nat, s \in Attempts!Times, u \in Attempts!Times :
            n = rows[k].attempts /\ s = rows[k].started /\ u = rows[k].updated
      BY <2>3 DEF Windows, Attempts!TypeOK, Attempts!RateRow
    <3>2. RowFits(k, n, s, u)  BY <2>1, <2>3, <3>1 DEF KeyFits
    <3>3. s > now' - Window => n <= Cardinality(Seen(k, s, now'))
      <4>1. s..now \subseteq s..now'  BY <1>1, <3>1 DEF Attempts!Times
      <4>2. Cardinality(Seen(k, s, now)) <= Cardinality(Seen(k, s, now + 1))
        BY <1>1, <4>1, Shorter
      <4>3. /\ Cardinality(Seen(k, s, now)) \in Nat
            /\ Cardinality(Seen(k, s, now + 1)) \in Nat
        BY SetFacts
      <4>4. s > now + 1 - Window => n <= Cardinality(Seen(k, s, now))
        BY <1>1, <3>1, <3>2 DEF RowFits, Attempts!Times
      <4> QED BY <1>1, <3>1, <4>2, <4>3, <4>4
    <3>4. RowFits(k, n, s, u)'
      <4>1. u <= now'  BY <1>1, <3>1, <3>2 DEF RowFits, Attempts!Times
      <4>2. \A a, b : /\ Seen(k, a, b)' = Seen(k, a, b)
                      /\ Allowed(k, a, b)' = Allowed(k, a, b)
        BY <1>1, SameLogins
      <4>3. Seen(k, s, now)' = Seen(k, s, now')
        BY <1>1 DEF Seen, CountedFor
      <4>4. \A r \in Logins, t \in Attempts!Times : CountedFor(login[r], k, t, t)' => t <= u
        BY <1>1, <3>2 DEF RowFits, CountedFor
      <4> QED BY <3>2, <3>3, <4>1, <4>2, <4>3, <4>4 DEF RowFits
    <3> QED BY <1>1, <2>3, <3>1, <3>4 DEF KeyFits
  <2> QED BY <2>2, <2>3
<1>5. \A k \in Attempts!RateKeys, t \in Attempts!Times :
        Cardinality(Allowed(k, t - Window + 1, t))' < 2 * Limit
  BY <1>1, SameLogins DEF Windows
<1>6. \A r \in Logins : Refusal(login[r])'
  BY <1>1 DEF Windows, Refusal, Seen, CountedFor
<1> QED BY <1>2, <1>3, <1>4, <1>5, <1>6 DEF Windows

LEMMA PurgeWindows ==
  ASSUME Attempts!AuthLimitsAssumption, Windows, Attempts!Purge  PROVE Windows'
<1>1. /\ now' = now /\ login' = login /\ now \in Int /\ Window \in Int /\ Keep \in Int
      /\ Keep >= Window
      /\ rows' = [k \in Attempts!RateKeys |->
           IF rows[k] # None /\ rows[k].updated < now - Keep THEN None ELSE rows[k]]
  BY DEF Attempts!Purge, Windows, Attempts!TypeOK, Attempts!Times, Attempts!AuthLimitsAssumption
<1>2. Attempts!TypeOK'  BY <1>1 DEF Windows, Attempts!TypeOK
<1>3. \A r \in Logins : LoginFits(login[r])'
  BY <1>1 DEF Windows, LoginFits
<1>4. \A k \in Attempts!RateKeys : KeyFits(k)'
  <2> SUFFICES ASSUME NEW k \in Attempts!RateKeys  PROVE KeyFits(k)'
    OBVIOUS
  <2>1. KeyFits(k)  BY DEF Windows
  <2>2. CASE rows'[k] = rows[k]
    <3>1. \A n, s, u : RowFits(k, n, s, u)' <=> RowFits(k, n, s, u)
      BY <1>1 DEF RowFits, Seen, Allowed, CountedFor
    <3> QED BY <1>1, <2>1, <2>2, <3>1 DEF KeyFits, CountedFor
  <2>3. CASE rows'[k] # rows[k]
    <3>1. rows'[k] = None /\ rows[k] # None /\ rows[k].updated < now - Keep
      BY <1>1, <2>3
    <3>2. rows[k].updated \in Attempts!Times  BY <3>1
         DEF Windows, Attempts!TypeOK, Attempts!RateRow
    <3>3. \A r \in Logins, t \in Attempts!Times :
            CountedFor(login[r], k, t, t) => t <= rows[k].updated
      BY <2>1, <3>1 DEF KeyFits, RowFits
    <3>4. \A r \in Logins, t \in Attempts!Times :
            CountedFor(login[r], k, t, t) => t < now - Window
      BY <1>1, <3>1, <3>2, <3>3 DEF Attempts!Times
    <3> QED BY <1>1, <3>1, <3>4 DEF KeyFits, CountedFor
  <2> QED BY <2>2, <2>3
<1>5. \A k \in Attempts!RateKeys, t \in Attempts!Times :
        Cardinality(Allowed(k, t - Window + 1, t))' < 2 * Limit
  BY <1>1, SameLogins DEF Windows
<1>6. \A r \in Logins : Refusal(login[r])'
  BY <1>1 DEF Windows, Refusal, Seen, CountedFor
<1> QED BY <1>2, <1>3, <1>4, <1>5, <1>6 DEF Windows

-----------------------------------------------------------------------------
(* Login r, which has come as far as x, counts for key k of kind kind and  *)
(* becomes y; the row of k becomes [n, s, u].                              *)

Ready(r, x, kind) ==
  /\ login[r].pc \in {"idle", "account"}
  /\ kind = "account" => login[r].pc = "account"
  /\ kind = "ip" => x.keys["account"] # None
  /\ x.keys[kind] \in Attempts!RateKeys
  /\ login[r].counted[kind] = None /\ login[r].counted["account"] = None
  /\ \A kd \in Attempts!Kinds :
       /\ x.counted[kd] = login[r].counted[kd]
       /\ login[r].counted[kd] # None => x.keys[kd] = login[r].keys[kd]
       /\ x.keys[kd] # None => x.keys[kd][1] = kd

Counts(r, x, y, kind, row) ==
  /\ login' = [login EXCEPT ![r] = y]
  /\ y.keys = x.keys
  /\ y.counted[kind] = now
  /\ \A kd \in Attempts!Kinds : kd # kind => y.counted[kd] = x.counted[kd]
  /\ now' = now
  /\ rows' = [rows EXCEPT ![x.keys[kind]] = row]
  /\ \/ row.attempts <= Limit /\ y.pc = Attempts!After[kind]
     \/ row.attempts > Limit /\ y.pc = "refused" /\ y.by = kind
     \/ y.pc = "failed"

LEMMA OtherKey ==
  ASSUME Attempts!AuthLimitsAssumption, Windows, NEW r \in Logins, NEW x \in LoginRecord,
         NEW y \in LoginRecord, NEW kind \in Attempts!Kinds, NEW row \in Attempts!RateRow,
         Ready(r, x, kind), Counts(r, x, y, kind, row),
         NEW j \in Attempts!RateKeys, j # x.keys[kind], NEW a \in Int, NEW b \in Int
  PROVE  /\ Seen(j, a, b)' = Seen(j, a, b)
         /\ Allowed(j, a, b)' \subseteq Allowed(j, a, b)
<1>1. j[1] \in Attempts!Kinds  BY KeyKinds
<1>2. None \notin a..b  BY DEF Attempts!AuthLimitsAssumption
<1>3. CountedFor(y, j, a, b) <=> CountedFor(login[r], j, a, b)
  BY <1>1, <1>2 DEF CountedFor, Ready, Counts
<1>4. login'[r] = y /\ \A q \in Logins : q # r => login'[q] = login[q]
  BY DEF Counts, Windows, Attempts!TypeOK
<1>5. Seen(j, a, b)' = {q \in Logins : CountedFor(login'[q], j, a, b)}
  BY DEF Seen, CountedFor
<1>6. Seen(j, a, b)' = Seen(j, a, b)  BY <1>3, <1>4, <1>5 DEF Seen
<1>7. ASSUME NEW q \in Allowed(j, a, b)'  PROVE q \in Allowed(j, a, b)
  <2>1. q \in Seen(j, a, b) /\ q \in Logins /\ login'[q].pc \in {"account", "passed"}
    BY <1>6, <1>7 DEF Allowed, Seen
  <2>2. CASE q # r  BY <1>4, <2>1, <2>2 DEF Allowed
  <2>3. CASE q = r
    <3>1. login[r].counted[j[1]] # None  BY <1>2, <2>1, <2>3 DEF Seen, CountedFor
    <3>2. login[r].pc = "account"
      BY <1>1, <3>1 DEF Ready, Windows, LoginFits, Attempts!Kinds
    <3> QED BY <2>1, <2>3, <3>2 DEF Allowed
  <2> QED BY <2>2, <2>3
<1> QED BY <1>6, <1>7

CountsOnce(r, row, k, a, b) ==
  /\ r \notin Seen(k, a, b)
  /\ now \in a..b => Seen(k, a, b)' = Seen(k, a, b) \cup {r}
  /\ now \notin a..b => Seen(k, a, b)' = Seen(k, a, b)
  /\ Allowed(k, a, b)' \subseteq Allowed(k, a, b) \cup {r}
  /\ now \notin a..b \/ row.attempts > Limit =>
       Allowed(k, a, b)' \subseteq Allowed(k, a, b)

LEMMA ThisKey ==
  ASSUME Attempts!AuthLimitsAssumption, Windows, NEW r \in Logins, NEW x \in LoginRecord,
         NEW y \in LoginRecord, NEW kind \in Attempts!Kinds, NEW row \in Attempts!RateRow,
         Ready(r, x, kind), Counts(r, x, y, kind, row),
         NEW k, k = x.keys[kind], NEW a \in Int, NEW b \in Int
  PROVE  CountsOnce(r, row, k, a, b)
<1>1. k \in Attempts!RateKeys /\ k[1] = kind
  BY DEF Ready, Attempts!AuthLimitsAssumption
<1>2. None \notin a..b  BY DEF Attempts!AuthLimitsAssumption
<1>3. ~CountedFor(login[r], k, a, b)  BY <1>1, <1>2 DEF CountedFor, Ready
<1>4. CountedFor(y, k, a, b) <=> now \in a..b
  BY <1>1 DEF CountedFor, Counts
<1>5. login'[r] = y /\ \A q \in Logins : q # r => login'[q] = login[q]
  BY DEF Counts, Windows, Attempts!TypeOK
<1>6. Seen(k, a, b)' = {q \in Logins : CountedFor(login'[q], k, a, b)}
  BY DEF Seen, CountedFor
<1>7. r \notin Seen(k, a, b)  BY <1>3 DEF Seen
<1>8. now \in a..b => Seen(k, a, b)' = Seen(k, a, b) \cup {r}
  BY <1>4, <1>5, <1>6 DEF Seen
<1>9. now \notin a..b => Seen(k, a, b)' = Seen(k, a, b)
  BY <1>3, <1>4, <1>5, <1>6 DEF Seen
<1>10. Allowed(k, a, b)' = {q \in Seen(k, a, b)' : login'[q].pc \in {"account", "passed"}}
  BY DEF Allowed
<1>11. Allowed(k, a, b)' \subseteq Allowed(k, a, b) \cup {r}
  <2> SUFFICES ASSUME NEW q \in Allowed(k, a, b)', q # r  PROVE q \in Allowed(k, a, b)
    OBVIOUS
  <2>1. q \in Seen(k, a, b)  BY <1>8, <1>9, <1>10
  <2>2. q \in Logins  BY <2>1 DEF Seen
  <2> QED BY <1>5, <1>10, <2>1, <2>2 DEF Allowed
<1>12. ASSUME now \notin a..b \/ row.attempts > Limit
       PROVE  Allowed(k, a, b)' \subseteq Allowed(k, a, b)
  <2>1. CASE now \notin a..b  BY <1>7, <1>9, <1>10, <1>11, <2>1
  <2>2. CASE row.attempts > Limit
    <3>1. ~(row.attempts <= Limit)  BY <2>2 DEF Attempts!RateRow, Attempts!AuthLimitsAssumption
    <3>2. y.pc \in {"refused", "failed"}  BY <3>1 DEF Counts
    <3>3. r \notin Allowed(k, a, b)'  BY <1>5, <1>10, <3>2
    <3> QED BY <1>11, <3>3
  <2> QED BY <1>12, <2>1, <2>2
<1> QED BY <1>7, <1>8, <1>9, <1>11, <1>12 DEF CountsOnce

\* The row after one more attempt, by its window.
LEMMA UpsertedRow ==
  ASSUME Attempts!AuthLimitsAssumption, Windows, NEW k \in Attempts!RateKeys
  PROVE  /\ Attempts!Upserted(rows[k]) \in Attempts!RateRow
         /\ Attempts!Upserted(rows[k]).updated = now
         /\ \/ /\ rows[k] = None \/ rows[k].started <= now - Window
               /\ Attempts!Upserted(rows[k]).attempts = 1
               /\ Attempts!Upserted(rows[k]).started = now
            \/ /\ rows[k] # None /\ rows[k].started > now - Window
               /\ Attempts!Upserted(rows[k]).attempts = rows[k].attempts + 1
               /\ Attempts!Upserted(rows[k]).started = rows[k].started
<1>1. now \in Attempts!Times /\ now \in Int /\ Window \in Int
  BY DEF Windows, Attempts!TypeOK, Attempts!Times, Attempts!AuthLimitsAssumption
<1>2. CASE rows[k] = None
  <2>1. [attempts |-> 1, started |-> now, updated |-> now] \in Attempts!RateRow
    BY <1>1 DEF Attempts!RateRow
  <2> QED BY <1>2, <2>1 DEF Attempts!Upserted
<1>3. CASE rows[k] # None
  <2>1. rows[k] \in Attempts!RateRow  BY <1>3 DEF Windows, Attempts!TypeOK
  <2>2. /\ rows[k].attempts + 1 \in Nat
        /\ rows[k].started \in Attempts!Times /\ rows[k].started \in Int
    BY <2>1 DEF Attempts!RateRow, Attempts!Times
  <2>3. CASE rows[k].started <= now - Window
    <3>1. [attempts |-> 1, started |-> now, updated |-> now] \in Attempts!RateRow
      BY <1>1 DEF Attempts!RateRow
    <3>2. Attempts!Upserted(rows[k]) = [attempts |-> 1, started |-> now, updated |-> now]
      BY <1>3, <2>3 DEF Attempts!Upserted
    <3> QED BY <2>3, <3>1, <3>2
  <2>4. CASE ~(rows[k].started <= now - Window)
    <3> DEFINE x == [attempts |-> rows[k].attempts + 1, started |-> rows[k].started,
                     updated |-> now]
    <3>1. Attempts!Upserted(rows[k]) = x  BY <1>3, <2>4 DEF Attempts!Upserted
    <3>2. x \in Attempts!RateRow  BY <1>1, <2>2 DEF Attempts!RateRow
    <3>3. rows[k].started > now - Window  BY <1>1, <2>2, <2>4
    <3> QED BY <1>3, <3>1, <3>2, <3>3
  <2> QED BY <2>3, <2>4
<1> QED BY <1>2, <1>3

\* A window is opened: the one before is over, and with it the attempt that opened it.
LEMMA OpenedRow ==
  ASSUME Attempts!AuthLimitsAssumption, Windows, NEW r \in Logins, NEW x \in LoginRecord,
         NEW y \in LoginRecord, NEW kind \in Attempts!Kinds, NEW row \in Attempts!RateRow,
         Ready(r, x, kind), Counts(r, x, y, kind, row),
         NEW k, k = x.keys[kind],
         rows[k] = None \/ rows[k].started <= now - Window,
         row.attempts = 1, row.started = now, row.updated = now
  PROVE  RowFits(k, 1, now, now)'
<1>1. k \in Attempts!RateKeys /\ k[1] = kind /\ KeyFits(k)
  BY DEF Ready, Attempts!AuthLimitsAssumption, Windows
<1>2. /\ now' = now /\ now \in Attempts!Times /\ now \in Int /\ now >= 0
      /\ Window \in Int /\ Window >= 1
      /\ MaxTime \in Int /\ now <= MaxTime /\ Limit \in Int /\ Limit >= 1
  BY DEF Counts, Windows, Attempts!TypeOK, Attempts!Times, Attempts!AuthLimitsAssumption
<1>0. ASSUME NEW a \in Int, NEW b \in Int  PROVE CountsOnce(r, row, k, a, b)
  BY ThisKey
<1>3. \A q \in Logins, t \in Attempts!Times : CountedFor(login[q], k, t, t) => t < now
  <2>1. CASE rows[k] = None  BY <1>1, <1>2, <2>1 DEF KeyFits, Attempts!Times
  <2>2. CASE rows[k] # None
    <3>1. PICK n \in Nat, s \in Attempts!Times, u \in Attempts!Times :
            n = rows[k].attempts /\ s = rows[k].started /\ u = rows[k].updated
      BY <1>1, <2>2 DEF Windows, Attempts!TypeOK, Attempts!RateRow
    <3>2. RowFits(k, n, s, u)  BY <1>1, <2>2, <3>1 DEF KeyFits
    <3>3. s <= now - Window  BY <2>2, <3>1
    <3> QED BY <1>2, <3>1, <3>2, <3>3 DEF RowFits, Attempts!Times
  <2> QED BY <2>1, <2>2
<1>4. \A a, b \in Int : a >= now => Allowed(k, a, b) = {}
  <2> SUFFICES ASSUME NEW a \in Int, NEW b \in Int, a >= now,
                      NEW q \in Allowed(k, a, b)
               PROVE  FALSE
    OBVIOUS
  <2>1. q \in Logins /\ CountedFor(login[q], k, a, b)  BY DEF Allowed, Seen
  <2>2. PICK t \in Attempts!Times : t \in a..b /\ CountedFor(login[q], k, t, t)
    BY <1>1, <2>1, CountedTime
  <2> QED BY <1>2, <1>3, <2>1, <2>2 DEF Attempts!Times
<1>5. Cardinality(Allowed(k, now - Window + 1, now - 1)) <= Limit - 1
  <2>1. CASE rows[k] = None
    <3>1. Allowed(k, now - Window + 1, now - 1) = {}
      <4> SUFFICES ASSUME NEW q \in Allowed(k, now - Window + 1, now - 1)
                   PROVE  FALSE
        OBVIOUS
      <4>1. q \in Logins /\ CountedFor(login[q], k, now - Window + 1, now - 1)
        BY DEF Allowed, Seen
      <4>2. now - Window + 1 \in Int /\ now - 1 \in Int  BY <1>2
      <4>3. PICK t \in Attempts!Times :
              t \in (now - Window + 1)..(now - 1) /\ CountedFor(login[q], k, t, t)
        BY <1>1, <4>1, <4>2, CountedTime
      <4>4. t < now - Window  BY <1>1, <2>1, <4>1, <4>3 DEF KeyFits
      <4> QED BY <1>2, <4>3, <4>4 DEF Attempts!Times
    <3>2. Cardinality({}) = 0  BY FS_EmptySet
    <3>3. Cardinality(Allowed(k, now - Window + 1, now - 1)) = 0  BY <3>1, <3>2
    <3> QED BY <1>2, <3>3
  <2>2. CASE rows[k] # None
    <3>1. PICK n \in Nat, s \in Attempts!Times, u \in Attempts!Times :
            n = rows[k].attempts /\ s = rows[k].started /\ u = rows[k].updated
      BY <1>1, <2>2 DEF Windows, Attempts!TypeOK, Attempts!RateRow
    <3>2. RowFits(k, n, s, u)  BY <1>1, <2>2, <3>1 DEF KeyFits
    <3>3. s <= now - Window  BY <2>2, <3>1
    <3>4. (now - Window + 1)..(now - 1) \subseteq (s + 1)..MaxTime
      BY <1>2, <3>1, <3>3 DEF Attempts!Times
    <3>5. Cardinality(Allowed(k, now - Window + 1, now - 1))
            <= Cardinality(Allowed(k, s + 1, MaxTime))
      BY <3>4, Shorter
    <3>6. /\ Cardinality(Allowed(k, now - Window + 1, now - 1)) \in Nat
          /\ Cardinality(Allowed(k, s + 1, MaxTime)) \in Nat
      BY SetFacts
    <3> QED BY <1>2, <3>2, <3>5, <3>6 DEF RowFits
  <2> QED BY <2>1, <2>2
<1>6. \A q \in Logins, t \in Attempts!Times : CountedFor(login[q], k, t, t)' => t <= now
  <2>1. \A q \in Logins : login'[q] = IF q = r THEN y ELSE login[q]
    BY DEF Counts, Windows, Attempts!TypeOK
  <2>2. \A t \in Attempts!Times : CountedFor(y, k, t, t) => t = now
    BY <1>1, <1>2 DEF CountedFor, Counts, Attempts!Times
  <2> QED BY <1>2, <1>3, <2>1, <2>2 DEF CountedFor, Attempts!Times
<1>8. PICK m \in Int : m = now  BY <1>2
<1>7. Cardinality(Seen(k, m, m)') >= 1
  <2>1. Seen(k, m, m)' = Seen(k, m, m) \cup {r} /\ r \notin Seen(k, m, m)
    BY <1>0, <1>8 DEF CountsOnce
  <2>2. IsFiniteSet(Seen(k, m, m)) /\ Cardinality(Seen(k, m, m)) \in Nat
    BY SetFacts
  <2>3. Cardinality(Seen(k, m, m)') = Cardinality(Seen(k, m, m)) + 1
    BY <2>1, <2>2, FS_AddElement
  <2> QED BY <2>2, <2>3
<1>9. Cardinality(Allowed(k, m, MaxTime)') <= 1
  <2>1. Allowed(k, m, MaxTime)' \in SUBSET {r}
    BY <1>0, <1>2, <1>4, <1>8 DEF CountsOnce
  <2>2. IsFiniteSet({r}) /\ Cardinality({r}) = 1  BY FS_Singleton
  <2> QED BY <2>1, <2>2, FS_Subset
<1>10. Cardinality(Allowed(k, m + 1, MaxTime)') = 0
  <2>1. m + 1 \in Int /\ now \notin (m + 1)..MaxTime  BY <1>2, <1>8
  <2>2. Allowed(k, m + 1, MaxTime)' \subseteq Allowed(k, m + 1, MaxTime)
    BY <1>0, <1>2, <2>1 DEF CountsOnce
  <2>3. Allowed(k, m + 1, MaxTime) = {}  BY <1>2, <1>4, <1>8, <2>1
  <2> QED BY <2>2, <2>3, FS_EmptySet
<1>11. Cardinality(Allowed(k, m - Window + 1, m - 1)') <= Limit - 1
  <2>1. /\ m - Window + 1 \in Int /\ m - 1 \in Int
        /\ now \notin (m - Window + 1)..(m - 1)
    BY <1>2, <1>8
  <2>2. Allowed(k, m - Window + 1, m - 1)' \in SUBSET Allowed(k, m - Window + 1, m - 1)
    BY <1>0, <2>1 DEF CountsOnce
  <2>3. /\ IsFiniteSet(Allowed(k, m - Window + 1, m - 1))
        /\ Cardinality(Allowed(k, m - Window + 1, m - 1)) \in Nat
    BY SetFacts
  <2>4. /\ Cardinality(Allowed(k, m - Window + 1, m - 1)')
             <= Cardinality(Allowed(k, m - Window + 1, m - 1))
        /\ Cardinality(Allowed(k, m - Window + 1, m - 1)') \in Nat
    BY <2>2, <2>3, FS_Subset, FS_CardinalityType
  <2> QED BY <1>2, <1>5, <1>8, <2>3, <2>4
<1>12. /\ Cardinality(Allowed(k, m, MaxTime)') \in Nat
       /\ Cardinality(Allowed(k, m + 1, MaxTime)') = 0
  <2>1. Allowed(k, m, MaxTime)' \in SUBSET {r}
    BY <1>0, <1>2, <1>4, <1>8 DEF CountsOnce
  <2>2. IsFiniteSet({r})  BY FS_Singleton
  <2> QED BY <1>10, <2>1, <2>2, FS_Subset, FS_CardinalityType
<1>13. RowFits(k, 1, m, m)'
  <2>1. Cardinality(Seen(k, m, now)') >= 1
    BY <1>2, <1>7, <1>8 DEF Seen, CountedFor
  <2> QED BY <1>2, <1>6, <1>8, <1>9, <1>10, <1>11, <1>12, <2>1 DEF RowFits
<1> QED BY <1>2, <1>8, <1>13 DEF RowFits, Seen, Allowed, CountedFor

\* How many there are then.
LEMMA CountsCards ==
  ASSUME Attempts!AuthLimitsAssumption, NEW r, NEW row, NEW k, NEW a, NEW b,
         CountsOnce(r, row, k, a, b)
  PROVE  /\ Cardinality(Allowed(k, a, b)) \in Nat /\ Cardinality(Allowed(k, a, b)') \in Nat
         /\ Cardinality(Seen(k, a, b)) \in Nat /\ Cardinality(Seen(k, a, b)') \in Nat
         /\ Cardinality(Allowed(k, a, b)') <= Cardinality(Allowed(k, a, b)) + 1
         /\ now \notin a..b \/ row.attempts > Limit =>
              Cardinality(Allowed(k, a, b)') <= Cardinality(Allowed(k, a, b))
         /\ Cardinality(Seen(k, a, b)') >= Cardinality(Seen(k, a, b))
         /\ now \in a..b => Cardinality(Seen(k, a, b)') = Cardinality(Seen(k, a, b)) + 1
<1>1. /\ IsFiniteSet(Seen(k, a, b)) /\ Cardinality(Seen(k, a, b)) \in Nat
      /\ IsFiniteSet(Allowed(k, a, b)) /\ Cardinality(Allowed(k, a, b)) \in Nat
  BY SetFacts
<1>2. /\ IsFiniteSet(Allowed(k, a, b) \cup {r})
      /\ Cardinality(Allowed(k, a, b) \cup {r}) <= Cardinality(Allowed(k, a, b)) + 1
      /\ Cardinality(Allowed(k, a, b) \cup {r}) \in Nat
  <2>1. /\ IsFiniteSet(Allowed(k, a, b) \cup {r})
        /\ \/ Cardinality(Allowed(k, a, b) \cup {r}) = Cardinality(Allowed(k, a, b))
           \/ Cardinality(Allowed(k, a, b) \cup {r}) = Cardinality(Allowed(k, a, b)) + 1
    BY <1>1, FS_AddElement
  <2> QED BY <1>1, <2>1
<1>3. /\ IsFiniteSet(Allowed(k, a, b)')
      /\ Cardinality(Allowed(k, a, b)') <= Cardinality(Allowed(k, a, b) \cup {r})
      /\ Cardinality(Allowed(k, a, b)') \in Nat
  <2>1. Allowed(k, a, b)' \in SUBSET (Allowed(k, a, b) \cup {r})  BY DEF CountsOnce
  <2> QED BY <1>2, <2>1, FS_Subset, FS_CardinalityType
<1>4. ASSUME now \notin a..b \/ row.attempts > Limit
      PROVE  Cardinality(Allowed(k, a, b)') <= Cardinality(Allowed(k, a, b))
  <2>1. Allowed(k, a, b)' \in SUBSET Allowed(k, a, b)  BY <1>4 DEF CountsOnce
  <2> QED BY <1>1, <2>1, FS_Subset
<1>5. CASE now \in a..b
  <2>1. /\ Cardinality(Seen(k, a, b)') = Cardinality(Seen(k, a, b)) + 1
        /\ Cardinality(Seen(k, a, b)') \in Nat
    BY <1>1, <1>5, FS_AddElement DEF CountsOnce
  <2> QED BY <1>1, <1>2, <1>3, <1>4, <1>5, <2>1
<1>6. CASE now \notin a..b
  <2>1. Seen(k, a, b)' = Seen(k, a, b)  BY <1>6 DEF CountsOnce
  <2> QED BY <1>1, <1>2, <1>3, <1>4, <1>6, <2>1
<1> QED BY <1>5, <1>6

\* The attempt falls into the window that is open.
LEMMA GrownRow ==
  ASSUME Attempts!AuthLimitsAssumption, Windows, NEW r \in Logins, NEW x \in LoginRecord,
         NEW y \in LoginRecord, NEW kind \in Attempts!Kinds, NEW row \in Attempts!RateRow,
         Ready(r, x, kind), Counts(r, x, y, kind, row),
         NEW k, k = x.keys[kind],
         rows[k] # None, rows[k].started > now - Window,
         row.attempts = rows[k].attempts + 1, row.started = rows[k].started,
         row.updated = now
  PROVE  RowFits(k, row.attempts, row.started, row.updated)'
<1>1. k \in Attempts!RateKeys /\ k[1] = kind /\ KeyFits(k)
  BY DEF Ready, Attempts!AuthLimitsAssumption, Windows
<1>2. /\ now' = now /\ now \in Attempts!Times /\ now \in Int /\ now >= 0
      /\ Window \in Int /\ Window >= 1
      /\ MaxTime \in Int /\ now <= MaxTime /\ Limit \in Int /\ Limit >= 1
  BY DEF Counts, Windows, Attempts!TypeOK, Attempts!Times, Attempts!AuthLimitsAssumption
<1>3. PICK n \in Nat, s \in Attempts!Times, u \in Attempts!Times :
        n = rows[k].attempts /\ s = rows[k].started /\ u = rows[k].updated
  BY <1>1 DEF Windows, Attempts!TypeOK, Attempts!RateRow
<1>4. RowFits(k, n, s, u)  BY <1>1, <1>3 DEF KeyFits
<1>5. /\ s > now - Window /\ row.attempts = n + 1 /\ row.started = s
      /\ s \in Int /\ s >= 0 /\ s <= now
  BY <1>2, <1>3, <1>4 DEF RowFits, Attempts!Times
<1>6. ASSUME NEW a \in Int, NEW b \in Int  PROVE CountsOnce(r, row, k, a, b)
  BY ThisKey
<1>7. \A q \in Logins, t \in Attempts!Times : CountedFor(login[q], k, t, t)' => t <= now
  <2>1. \A q \in Logins : login'[q] = IF q = r THEN y ELSE login[q]
    BY DEF Counts, Windows, Attempts!TypeOK
  <2>2. \A t \in Attempts!Times : CountedFor(y, k, t, t) => t = now
    BY <1>1, <1>2 DEF CountedFor, Counts, Attempts!Times
  <2>3. \A q \in Logins, t \in Attempts!Times : CountedFor(login[q], k, t, t) => t <= now
    BY <1>2, <1>3, <1>4 DEF RowFits, Attempts!Times
  <2> QED BY <1>2, <2>1, <2>2, <2>3 DEF CountedFor, Attempts!Times
<1>8. PICK m \in Int : m = now  BY <1>2
<1>9. n + 1 <= Cardinality(Seen(k, s, m)')
  <2>1. now \in s..m  BY <1>2, <1>5, <1>8
  <2>2. /\ Cardinality(Seen(k, s, m)') = Cardinality(Seen(k, s, m)) + 1
        /\ Cardinality(Seen(k, s, m)) \in Nat
    <3>1. CountsOnce(r, row, k, s, m)  BY <1>5, <1>6
    <3> QED BY <2>1, <3>1, CountsCards
  <2>3. n <= Cardinality(Seen(k, s, m))  BY <1>4, <1>5, <1>8 DEF RowFits
  <2> QED BY <1>3, <2>2, <2>3
<1>10. /\ Cardinality(Allowed(k, s, MaxTime)') <= n + 1
       /\ Cardinality(Allowed(k, s, MaxTime)') <= Limit
  <2>1. /\ Cardinality(Allowed(k, s, MaxTime)) \in Nat
        /\ Cardinality(Allowed(k, s, MaxTime)') \in Nat
        /\ Cardinality(Allowed(k, s, MaxTime)') <= Cardinality(Allowed(k, s, MaxTime)) + 1
        /\ row.attempts > Limit =>
             Cardinality(Allowed(k, s, MaxTime)') <= Cardinality(Allowed(k, s, MaxTime))
    BY <1>2, <1>5, <1>6, CountsCards
  <2>2. /\ Cardinality(Allowed(k, s, MaxTime)) <= n
        /\ Cardinality(Allowed(k, s, MaxTime)) <= Limit
    BY <1>4 DEF RowFits
  <2> QED BY <1>2, <1>3, <1>5, <2>1, <2>2
<1>11. /\ Cardinality(Allowed(k, s + 1, MaxTime)') <= n
       /\ Cardinality(Allowed(k, s + 1, MaxTime)') <= Limit - 1
  <2>1. PICK p \in Int : p = s + 1  BY <1>5
  <2>2. /\ Cardinality(Allowed(k, p, MaxTime)) \in Nat
        /\ Cardinality(Allowed(k, p, MaxTime)') \in Nat
        /\ Cardinality(Allowed(k, p, MaxTime)') <= Cardinality(Allowed(k, p, MaxTime)) + 1
        /\ row.attempts > Limit =>
             Cardinality(Allowed(k, p, MaxTime)') <= Cardinality(Allowed(k, p, MaxTime))
    BY <1>2, <1>6, <2>1, CountsCards
  <2>3. /\ Cardinality(Allowed(k, p, MaxTime)) <= n - 1
        /\ Cardinality(Allowed(k, p, MaxTime)) <= Limit - 1
    BY <1>4, <2>1 DEF RowFits
  <2>4. /\ Cardinality(Allowed(k, p, MaxTime)') <= n
        /\ Cardinality(Allowed(k, p, MaxTime)') <= Limit - 1
    BY <1>2, <1>3, <1>5, <2>2, <2>3
  <2> QED BY <2>1, <2>4
<1>12. Cardinality(Allowed(k, s - Window + 1, s - 1)') <= Limit - 1
  <2>1. PICK p \in Int, q \in Int : p = s - Window + 1 /\ q = s - 1  BY <1>2, <1>5
  <2>2. now \notin p..q  BY <1>2, <1>5, <2>1
  <2>3. /\ Cardinality(Allowed(k, p, q)) \in Nat
        /\ Cardinality(Allowed(k, p, q)') \in Nat
        /\ Cardinality(Allowed(k, p, q)') <= Cardinality(Allowed(k, p, q))
    BY <1>6, <2>1, <2>2, CountsCards
  <2>4. Cardinality(Allowed(k, p, q)) <= Limit - 1  BY <1>4, <2>1 DEF RowFits
  <2>5. Cardinality(Allowed(k, p, q)') <= Limit - 1  BY <1>2, <2>3, <2>4
  <2> QED BY <2>1, <2>5
<1>13. RowFits(k, n + 1, s, m)'
  <2>1. n + 1 <= Cardinality(Seen(k, s, now)')
    BY <1>2, <1>8, <1>9 DEF Seen, CountedFor
  <2>2. n + 1 - 1 = n /\ n + 1 >= 1  BY <1>3
  <2>3. m < s + Window /\ s <= m  BY <1>2, <1>5, <1>8
  <2> QED BY <1>2, <1>7, <1>8, <1>10, <1>11, <1>12, <2>1, <2>2, <2>3 DEF RowFits
<1> QED BY <1>5, <1>8, <1>13

\* The rows of other keys.
LEMMA OtherRow ==
  ASSUME Attempts!AuthLimitsAssumption, Windows, NEW r \in Logins, NEW x \in LoginRecord,
         NEW y \in LoginRecord, NEW kind \in Attempts!Kinds, NEW row \in Attempts!RateRow,
         Ready(r, x, kind), Counts(r, x, y, kind, row),
         NEW j \in Attempts!RateKeys, j # x.keys[kind]
  PROVE  KeyFits(j)'
<1>1. ASSUME NEW a \in Int, NEW b \in Int
      PROVE  /\ Seen(j, a, b)' = Seen(j, a, b)
             /\ Cardinality(Allowed(j, a, b)') <= Cardinality(Allowed(j, a, b))
             /\ Cardinality(Allowed(j, a, b)) \in Nat
             /\ Cardinality(Allowed(j, a, b)') \in Nat
  <2>1. Allowed(j, a, b)' \in SUBSET Allowed(j, a, b)  BY OtherKey
  <2>2. IsFiniteSet(Allowed(j, a, b)) /\ Cardinality(Allowed(j, a, b)) \in Nat  BY SetFacts
  <2> QED BY <2>1, <2>2, OtherKey, FS_Subset, FS_CardinalityType
<1>2. now' = now /\ rows'[j] = rows[j] /\ KeyFits(j)
  BY DEF Counts, Windows, Attempts!TypeOK
<1>3. /\ now \in Int /\ Window \in Int /\ MaxTime \in Int /\ Limit \in Int
  BY DEF Windows, Attempts!TypeOK, Attempts!Times, Attempts!AuthLimitsAssumption
<1>4. \A q \in Logins, t \in Attempts!Times :
        CountedFor(login[q], j, t, t)' => CountedFor(login[q], j, t, t)
  <2> SUFFICES ASSUME NEW q \in Logins, NEW t \in Attempts!Times, CountedFor(login[q], j, t, t)'
               PROVE  CountedFor(login[q], j, t, t)
    OBVIOUS
  <2>1. q \in Seen(j, t, t)'  BY DEF Seen
  <2>2. Seen(j, t, t)' = Seen(j, t, t)  BY <1>1 DEF Attempts!Times
  <2> QED BY <2>1, <2>2 DEF Seen
<1>5. CASE rows[j] = None
  BY <1>2, <1>4, <1>5 DEF KeyFits
<1>6. CASE rows[j] # None
  <2>1. PICK n \in Nat, s \in Attempts!Times, u \in Attempts!Times :
          n = rows[j].attempts /\ s = rows[j].started /\ u = rows[j].updated
    BY <1>6 DEF Windows, Attempts!TypeOK, Attempts!RateRow
  <2>2. RowFits(j, n, s, u)  BY <1>2, <1>6, <2>1 DEF KeyFits
  <2>3. PICK m \in Int, p \in Int, v \in Int, w \in Int :
          m = now /\ p = s + 1 /\ v = s - Window + 1 /\ w = s - 1
    BY <1>3 DEF Attempts!Times
  <2>4. s > m - Window => n <= Cardinality(Seen(j, s, m)')
    <3>1. Seen(j, s, m)' = Seen(j, s, m)  BY <1>1, <2>3 DEF Attempts!Times
    <3> QED BY <2>2, <2>3, <3>1 DEF RowFits
  <2>5. /\ Cardinality(Allowed(j, s, MaxTime)') <= n
        /\ Cardinality(Allowed(j, s, MaxTime)') <= Limit
    <3>1. s \in Int  BY DEF Attempts!Times
    <3>2. /\ Cardinality(Allowed(j, s, MaxTime)) <= n
          /\ Cardinality(Allowed(j, s, MaxTime)) <= Limit
      BY <2>2 DEF RowFits
    <3>3. /\ Cardinality(Allowed(j, s, MaxTime)') <= Cardinality(Allowed(j, s, MaxTime))
          /\ Cardinality(Allowed(j, s, MaxTime)) \in Nat
          /\ Cardinality(Allowed(j, s, MaxTime)') \in Nat
      BY <1>1, <1>3, <3>1
    <3> QED BY <1>3, <2>1, <3>2, <3>3
  <2>6. /\ Cardinality(Allowed(j, p, MaxTime)') <= n - 1
        /\ Cardinality(Allowed(j, p, MaxTime)') <= Limit - 1
    <3>1. /\ Cardinality(Allowed(j, p, MaxTime)) <= n - 1
          /\ Cardinality(Allowed(j, p, MaxTime)) <= Limit - 1
      BY <2>2, <2>3 DEF RowFits
    <3>2. /\ Cardinality(Allowed(j, p, MaxTime)') <= Cardinality(Allowed(j, p, MaxTime))
          /\ Cardinality(Allowed(j, p, MaxTime)) \in Nat
          /\ Cardinality(Allowed(j, p, MaxTime)') \in Nat
      BY <1>1, <1>3, <2>3
    <3> QED BY <1>3, <2>1, <3>1, <3>2
  <2>7. Cardinality(Allowed(j, v, w)') <= Limit - 1
    <3>1. Cardinality(Allowed(j, v, w)) <= Limit - 1  BY <2>2, <2>3 DEF RowFits
    <3>2. /\ Cardinality(Allowed(j, v, w)') <= Cardinality(Allowed(j, v, w))
          /\ Cardinality(Allowed(j, v, w)) \in Nat
          /\ Cardinality(Allowed(j, v, w)') \in Nat
      BY <1>1, <2>3
    <3> QED BY <1>3, <3>1, <3>2
  <2>8. s > now' - Window => n <= Cardinality(Seen(j, s, now)')
    BY <1>2, <2>3, <2>4 DEF Seen, CountedFor
  <2>9. RowFits(j, n, s, u)'
    BY <1>2, <1>4, <2>2, <2>3, <2>5, <2>6, <2>7, <2>8 DEF RowFits
  <2> QED BY <1>2, <1>6, <2>1, <2>9 DEF KeyFits
<1> QED BY <1>5, <1>6

\* The row of the key.
LEMMA ThisRow ==
  ASSUME Attempts!AuthLimitsAssumption, Windows, NEW r \in Logins, NEW x \in LoginRecord,
         NEW y \in LoginRecord, NEW kind \in Attempts!Kinds, NEW k, k = x.keys[kind], NEW row,
         row = Attempts!Upserted(rows[k]), Ready(r, x, kind), Counts(r, x, y, kind, row)
  PROVE  /\ k \in Attempts!RateKeys /\ row \in Attempts!RateRow /\ row # None /\ rows'[k] = row
         /\ row.started \in Int /\ row.started > now - Window /\ row.started <= now
         /\ RowFits(k, row.attempts, row.started, row.updated)'
<1>1. k \in Attempts!RateKeys /\ rows \in [Attempts!RateKeys -> Attempts!RateRow \cup {None}]
  BY DEF Ready, Windows, Attempts!TypeOK
<1>2. /\ row \in Attempts!RateRow /\ row.updated = now
      /\ \/ /\ rows[k] = None \/ rows[k].started <= now - Window
            /\ row.attempts = 1 /\ row.started = now
         \/ /\ rows[k] # None /\ rows[k].started > now - Window
            /\ row.attempts = rows[k].attempts + 1 /\ row.started = rows[k].started
  BY <1>1, UpsertedRow
<1>3. row # None /\ rows'[k] = row  BY <1>1, <1>2 DEF Attempts!AuthLimitsAssumption, Counts
<1>4. /\ now \in Attempts!Times /\ now \in Int /\ Window \in Int /\ Window >= 1
      /\ row.started \in Int
  BY <1>2
     DEF Windows, Attempts!TypeOK, Attempts!Times, Attempts!RateRow, Attempts!AuthLimitsAssumption
<1>5. CASE /\ rows[k] = None \/ rows[k].started <= now - Window
           /\ row.attempts = 1 /\ row.started = now
  <2>1. RowFits(k, 1, now, now)'  BY <1>2, <1>5, OpenedRow
  <2>2. row.attempts = 1 /\ row.started = now' /\ row.updated = now'
    BY <1>2, <1>5 DEF Counts
  <2>3. RowFits(k, row.attempts, row.started, row.updated)'
    <3>1. PICK m : m = now  OBVIOUS
    <3>2. RowFits(k, 1, m, m)'
      BY <2>1, <2>2, <3>1, <1>2, <1>5 DEF RowFits, Seen, Allowed, CountedFor
    <3> QED BY <1>2, <1>5, <3>1, <3>2
  <2> QED BY <1>1, <1>2, <1>3, <1>4, <1>5, <2>3
<1>6. CASE /\ rows[k] # None /\ rows[k].started > now - Window
           /\ row.attempts = rows[k].attempts + 1 /\ row.started = rows[k].started
  <2>1. RowFits(k, row.attempts, row.started, row.updated)'
    BY <1>2, <1>6, GrownRow
  <2>2. KeyFits(k)  BY <1>1 DEF Windows
  <2>3. rows[k] \in Attempts!RateRow  BY <1>1, <1>6
  <2>4. row.started <= rows[k].updated /\ rows[k].updated <= now
    BY <1>6, <2>2 DEF KeyFits, RowFits
  <2>5. rows[k].updated \in Int  BY <2>3 DEF Attempts!RateRow, Attempts!Times
  <2> QED BY <1>1, <1>2, <1>3, <1>4, <1>6, <2>1, <2>4, <2>5
<1> QED BY <1>2, <1>5, <1>6

\* An attempt keeps the bound: those before the window that is open are fewer than
\* the limit, and those in it are as many at most.
LEMMA CountKeepsBound ==
  ASSUME Attempts!AuthLimitsAssumption, Windows, NEW r \in Logins, NEW x \in LoginRecord,
         NEW y \in LoginRecord, NEW kind \in Attempts!Kinds, NEW k, k = x.keys[kind], NEW row,
         row = Attempts!Upserted(rows[k]), Ready(r, x, kind), Counts(r, x, y, kind, row),
         NEW j \in Attempts!RateKeys, NEW t \in Attempts!Times
  PROVE  Cardinality(Allowed(j, t - Window + 1, t)') < 2 * Limit
<1>1. /\ now \in Int /\ Window \in Int /\ Window >= 1 /\ Limit \in Int /\ t \in Int
      /\ MaxTime \in Int /\ t <= MaxTime
  BY DEF Windows, Attempts!TypeOK, Attempts!Times, Attempts!AuthLimitsAssumption
<1>2. PICK a \in Int : a = t - Window + 1  BY <1>1
<1>3. Cardinality(Allowed(j, a, t)) < 2 * Limit  BY <1>2 DEF Windows
<1>4. IsFiniteSet(Allowed(j, a, t)) /\ Cardinality(Allowed(j, a, t)) \in Nat
  BY SetFacts
<1>5. ASSUME Allowed(j, a, t)' \subseteq Allowed(j, a, t)
      PROVE  Cardinality(Allowed(j, a, t)') < 2 * Limit
  <2>1. Allowed(j, a, t)' \in SUBSET Allowed(j, a, t)  BY <1>5
  <2>2. /\ Cardinality(Allowed(j, a, t)') <= Cardinality(Allowed(j, a, t))
        /\ Cardinality(Allowed(j, a, t)') \in Nat
    BY <1>4, <2>1, FS_Subset, FS_CardinalityType
  <2> QED BY <1>1, <1>3, <1>4, <2>2
<1>6. row \in Attempts!RateRow  BY ThisRow
<1>7. CASE j # k
  BY <1>1, <1>2, <1>5, <1>6, <1>7, OtherKey
<1>8. CASE j = k /\ (now \notin a..t \/ row.attempts > Limit)
  <2>1. CountsOnce(r, row, k, a, t)  BY <1>1, <1>6, ThisKey
  <2> QED BY <1>2, <1>5, <1>8, <2>1 DEF CountsOnce
<1>9. CASE j = k /\ now \in a..t
  <2>1. PICK s \in Int : s = row.started /\ s > now - Window /\ s <= now  BY ThisRow
  <2>2. PICK p \in Int, q \in Int : p = s - Window + 1 /\ q = s - 1  BY <1>1, <2>1
  <2>3. RowFits(k, row.attempts, s, row.updated)'  BY <2>1, ThisRow
  <2>4. /\ Cardinality(Allowed(k, p, q)') <= Limit - 1
        /\ Cardinality(Allowed(k, s, MaxTime)') <= Limit
    BY <2>2, <2>3 DEF RowFits
  <2>5. /\ IsFiniteSet(Allowed(k, p, q)') /\ IsFiniteSet(Allowed(k, s, MaxTime)')
    <3>1. /\ Allowed(k, p, q)' \in SUBSET Logins
          /\ Allowed(k, s, MaxTime)' \in SUBSET Logins
      BY DEF Allowed, Seen
    <3> QED BY <3>1, FS_Subset, OneCardinality DEF Attempts!AuthLimitsAssumption
  <2>6. Allowed(k, a, t)' \in SUBSET (Allowed(k, p, q)' \cup Allowed(k, s, MaxTime)')
    <3>1. \A c \in a..t : c \in p..q \/ c \in s..MaxTime
      BY <1>1, <1>2, <1>9, <2>1, <2>2
    <3>2. \A z : CountedFor(z, k, a, t) =>
            CountedFor(z, k, p, q) \/ CountedFor(z, k, s, MaxTime)
      BY <3>1 DEF CountedFor
    <3> QED BY <3>2 DEF Allowed, Seen, CountedFor
  <2>7. PICK C \in Nat, D \in Nat, E \in Nat, F \in Nat :
          /\ C = Cardinality(Allowed(k, p, q)')
          /\ D = Cardinality(Allowed(k, s, MaxTime)')
          /\ E = Cardinality(Allowed(k, p, q)' \cap Allowed(k, s, MaxTime)')
          /\ F = Cardinality(Allowed(k, p, q)' \cup Allowed(k, s, MaxTime)')
    <3>1. IsFiniteSet(Allowed(k, p, q)' \cap Allowed(k, s, MaxTime)')
      BY <2>5, FS_Intersection
    <3>2. IsFiniteSet(Allowed(k, p, q)' \cup Allowed(k, s, MaxTime)')
      BY <2>5, FS_Union
    <3> QED BY <2>5, <3>1, <3>2, FS_CardinalityType
  <2>8. F = C + D - E  BY <2>5, <2>7, FS_Union
  <2>9. /\ Cardinality(Allowed(k, a, t)') <= F
        /\ Cardinality(Allowed(k, a, t)') \in Nat
    <3>1. IsFiniteSet(Allowed(k, p, q)' \cup Allowed(k, s, MaxTime)')
      BY <2>5, FS_Union
    <3> QED BY <2>6, <2>7, <3>1, FS_Subset, FS_CardinalityType
  <2>10. Cardinality(Allowed(k, a, t)') < 2 * Limit
    BY <1>1, <2>4, <2>7, <2>8, <2>9
  <2> QED BY <1>2, <1>9, <2>10
<1> QED BY <1>7, <1>8, <1>9

\* A refusal stays earned, and the one of an attempt is.
LEMMA CountKeepsRefusals ==
  ASSUME Attempts!AuthLimitsAssumption, Windows, NEW r \in Logins, NEW x \in LoginRecord,
         NEW y \in LoginRecord, NEW kind \in Attempts!Kinds, NEW k, k = x.keys[kind], NEW row,
         row = Attempts!Upserted(rows[k]), Ready(r, x, kind), Counts(r, x, y, kind, row),
         NEW q \in Logins
  PROVE  Refusal(login[q])'
<1>1. /\ now \in Int /\ now \in Attempts!Times /\ Window \in Int /\ Window >= 1 /\ Limit \in Int
      /\ now' = now
  BY DEF Windows, Attempts!TypeOK, Attempts!Times, Attempts!AuthLimitsAssumption, Counts
<1>2. login'[r] = y /\ \A l \in Logins : l # r => login'[l] = login[l]
  BY DEF Counts, Windows, Attempts!TypeOK
<1>3. row \in Attempts!RateRow  BY ThisRow
<1>4. CASE q # r
  <2> SUFFICES ASSUME login[q].pc = "refused"
               PROVE  Cardinality(Seen(login[q].keys[login[q].by],
                        login[q].counted[login[q].by] - Window + 1,
                        login[q].counted[login[q].by])') > Limit
    BY <1>2, <1>4 DEF Refusal, Seen, CountedFor
  <2>1. LoginFits(login[q]) /\ Refusal(login[q])  BY DEF Windows
  <2>2. login[q].by \in Attempts!Kinds
    BY <2>1 DEF LoginFits, Windows, Attempts!TypeOK
  <2>3. PICK j \in Attempts!RateKeys, c \in Attempts!Times :
          j = login[q].keys[login[q].by] /\ c = login[q].counted[login[q].by]
    BY <2>1, <2>2 DEF LoginFits, Windows, Attempts!TypeOK
  <2>4. PICK a \in Int : a = c - Window + 1 /\ c \in Int  BY <1>1 DEF Attempts!Times
  <2>5. Cardinality(Seen(j, a, c)) > Limit  BY <2>1, <2>3, <2>4 DEF Refusal
  <2>6. /\ IsFiniteSet(Seen(j, a, c)) /\ Cardinality(Seen(j, a, c)) \in Nat
    BY SetFacts
  <2>7. Seen(j, a, c) \in SUBSET Seen(j, a, c)'
    <3>1. CASE j # k  BY <1>3, <2>4, <3>1, OtherKey
    <3>2. CASE j = k
      <4>1. CountsOnce(r, row, k, a, c)  BY <1>3, <2>4, ThisKey
      <4> QED BY <3>2, <4>1 DEF CountsOnce
    <3> QED BY <3>1, <3>2
  <2>8. IsFiniteSet(Seen(j, a, c)')
    <3>1. Seen(j, a, c)' \in SUBSET Logins  BY DEF Seen
    <3> QED BY <3>1, FS_Subset, OneCardinality DEF Attempts!AuthLimitsAssumption
  <2>9. /\ Cardinality(Seen(j, a, c)) <= Cardinality(Seen(j, a, c)')
        /\ Cardinality(Seen(j, a, c)') \in Nat
    BY <2>7, <2>8, FS_Subset, FS_CardinalityType
  <2>10. Cardinality(Seen(j, a, c)') > Limit  BY <1>1, <2>5, <2>6, <2>9
  <2> QED BY <1>2, <1>4, <2>3, <2>4, <2>10 DEF Seen, CountedFor
<1>5. CASE q = r
  <2> SUFFICES ASSUME y.pc = "refused"
               PROVE  Cardinality(Seen(y.keys[y.by], y.counted[y.by] - Window + 1,
                                       y.counted[y.by])') > Limit
    BY <1>2, <1>5 DEF Refusal, Seen, CountedFor
  <2>1. row.attempts > Limit /\ y.by = kind  BY DEF Counts, Attempts!After, Attempts!Kinds
  <2>2. y.keys[y.by] = k /\ y.counted[y.by] = now  BY <2>1 DEF Counts
  <2>3. PICK m \in Int, a \in Int, s \in Int :
          m = now /\ a = now - Window + 1 /\ s = row.started
    BY <1>1, ThisRow
  <2>4. s > now - Window /\ s <= now  BY <2>3, ThisRow
  <2>5. RowFits(k, row.attempts, s, row.updated)'  BY <2>3, ThisRow
  <2>6. row.attempts <= Cardinality(Seen(k, s, m)')
    BY <1>1, <2>3, <2>4, <2>5 DEF RowFits, Seen, CountedFor
  <2>7. Seen(k, s, m)' \in SUBSET Seen(k, a, m)'
    <3>1. s..m \subseteq a..m  BY <1>1, <2>3, <2>4
    <3> QED BY <3>1 DEF Seen, CountedFor
  <2>8. IsFiniteSet(Seen(k, s, m)') /\ IsFiniteSet(Seen(k, a, m)')
    <3>1. Seen(k, s, m)' \in SUBSET Logins /\ Seen(k, a, m)' \in SUBSET Logins
      BY DEF Seen
    <3> QED BY <3>1, FS_Subset, OneCardinality DEF Attempts!AuthLimitsAssumption
  <2>9. /\ Cardinality(Seen(k, s, m)') <= Cardinality(Seen(k, a, m)')
        /\ Cardinality(Seen(k, s, m)') \in Nat /\ Cardinality(Seen(k, a, m)') \in Nat
    BY <2>7, <2>8, FS_Subset, FS_CardinalityType
  <2>10. Cardinality(Seen(k, a, m)') > Limit
    BY <1>1, <1>3, <2>1, <2>6, <2>9 DEF Attempts!RateRow
  <2> QED BY <2>2, <2>3, <2>10
<1> QED BY <1>4, <1>5

LEMMA CountWindows ==
  ASSUME Attempts!AuthLimitsAssumption, Windows, NEW r \in Logins, NEW x \in LoginRecord,
         NEW y \in LoginRecord, NEW kind \in Attempts!Kinds, NEW k, k = x.keys[kind], NEW row,
         row = Attempts!Upserted(rows[k]), Ready(r, x, kind), Counts(r, x, y, kind, row)
  PROVE  Windows'
<1>1. /\ now \in Int /\ now \in Attempts!Times /\ now' = now
      /\ k \in Attempts!RateKeys /\ row \in Attempts!RateRow
      /\ row # None /\ None \notin Int
      /\ rows \in [Attempts!RateKeys -> Attempts!RateRow \cup {None}] /\ rows'[k] = row
      /\ rows' = [rows EXCEPT ![k] = row] /\ login' = [login EXCEPT ![r] = y]
      /\ login \in [Logins -> LoginRecord]
  <2>1. k \in Attempts!RateKeys /\ row \in Attempts!RateRow /\ row # None /\ rows'[k] = row
    BY ThisRow
  <2>2. now \in Int /\ now \in Attempts!Times /\ now' = now /\ None \notin Int
    BY DEF Windows, Attempts!TypeOK, Attempts!Times, Counts, Attempts!AuthLimitsAssumption
  <2>3. /\ rows \in [Attempts!RateKeys -> Attempts!RateRow \cup {None}]
        /\ login \in [Logins -> LoginRecord]
    BY DEF Windows, Attempts!TypeOK, LoginRecord
  <2>4. rows' = [rows EXCEPT ![k] = row] /\ login' = [login EXCEPT ![r] = y]
    BY DEF Counts
  <2> QED BY <2>1, <2>2, <2>3, <2>4
<1>2. Attempts!TypeOK'
  <2>1. rows' \in [Attempts!RateKeys -> Attempts!RateRow \cup {None}]  BY <1>1
  <2>2. login' \in [Logins -> LoginRecord]  BY <1>1
  <2> QED BY <1>1, <2>1, <2>2 DEF Attempts!TypeOK, LoginRecord
<1>3. \A q \in Logins : LoginFits(login[q])'
  <2> SUFFICES ASSUME NEW q \in Logins  PROVE LoginFits(login[q])'
    OBVIOUS
  <2>0. LoginFits(login[q])  BY DEF Windows
  <2>1. CASE q # r  BY <1>1, <2>0, <2>1 DEF LoginFits
  <2>2. CASE q = r
    <3>1. login'[q] = y  BY <1>1, <2>2
    <3>2. \A kd \in Attempts!Kinds :
            /\ y.keys[kd] # None => y.keys[kd][1] = kd
            /\ y.counted[kd] # None => y.counted[kd] <= now
      <4> SUFFICES ASSUME NEW kd \in Attempts!Kinds
                   PROVE  /\ y.keys[kd] # None => y.keys[kd][1] = kd
                          /\ y.counted[kd] # None => y.counted[kd] <= now
        OBVIOUS
      <4>1. y.keys[kd] # None => y.keys[kd][1] = kd  BY DEF Ready, Counts
      <4>2. CASE kd = kind
        <5>1. y.counted[kd] = now  BY <4>2 DEF Counts
        <5> QED BY <1>1, <4>1, <5>1
      <4>3. CASE kd # kind
        <5>1. y.counted[kd] = login[q].counted[kd]  BY <2>2, <4>3 DEF Counts, Ready
        <5> QED BY <2>0, <4>1, <5>1 DEF LoginFits
      <4> QED BY <4>2, <4>3
    <3>3. y.pc # "idle"  BY DEF Counts, Attempts!After, Attempts!Kinds
    <3>4. y.pc = "account" => y.counted["account"] = None /\ y.keys["account"] # None
      <4> SUFFICES ASSUME y.pc = "account"
                   PROVE  y.counted["account"] = None /\ y.keys["account"] # None
        OBVIOUS
      <4>1. kind = "ip"  BY DEF Counts, Attempts!After, Attempts!Kinds
      <4>2. y.counted["account"] = x.counted["account"]  BY <4>1 DEF Counts, Attempts!Kinds
      <4> QED BY <4>1, <4>2 DEF Ready, Counts, Attempts!Kinds
    <3>5. y.pc = "refused" => /\ y.by # None
                              /\ y.keys[y.by] # None
                              /\ y.counted[y.by] # None
      <4> SUFFICES ASSUME y.pc = "refused"
                   PROVE  y.by # None /\ y.keys[y.by] # None /\ y.counted[y.by] # None
        OBVIOUS
      <4>1. y.by = kind  BY DEF Counts, Attempts!After, Attempts!Kinds
      <4>2. y.by # None  BY <4>1 DEF Attempts!AuthLimitsAssumption
      <4>3. y.keys[y.by] = k /\ y.counted[y.by] = now  BY <4>1 DEF Counts
      <4> QED BY <1>1, <4>2, <4>3 DEF Attempts!AuthLimitsAssumption
    <3>6. LoginFits(y)'
      BY <1>1, <3>2, <3>3, <3>4, <3>5 DEF LoginFits
    <3> QED BY <3>1, <3>6 DEF LoginFits
  <2> QED BY <2>1, <2>2
<1>4. \A j \in Attempts!RateKeys : KeyFits(j)'
  <2> SUFFICES ASSUME NEW j \in Attempts!RateKeys  PROVE KeyFits(j)'
    OBVIOUS
  <2>1. CASE j # k  BY <1>1, <2>1, OtherRow
  <2>2. CASE j = k
    <3>1. RowFits(k, row.attempts, row.started, row.updated)'  BY ThisRow
    <3> QED BY <1>1, <2>2, <3>1 DEF KeyFits
  <2> QED BY <2>1, <2>2
<1>5. \A j \in Attempts!RateKeys, t \in Attempts!Times :
        Cardinality(Allowed(j, t - Window + 1, t))' < 2 * Limit
  BY CountKeepsBound
<1>6. \A q \in Logins : Refusal(login[q])'
  BY CountKeepsRefusals
<1> QED BY <1>2, <1>3, <1>4, <1>5, <1>6 DEF Windows

-----------------------------------------------------------------------------
(* The steps.                                                              *)

LEMMA AbandonWindows ==
  ASSUME Attempts!AuthLimitsAssumption, Windows, NEW r \in Logins, Attempts!Abandon(r)
  PROVE  Windows'
<1> DEFINE y == [login[r] EXCEPT !.pc = "failed"]
<1>1. /\ now' = now /\ rows' = rows /\ login' = [login EXCEPT ![r] = y]
      /\ login[r].pc = "account" /\ login \in [Logins -> LoginRecord]
  BY DEF Attempts!Abandon, Attempts!Become, Windows, Attempts!TypeOK, LoginRecord
<1>2. /\ y \in LoginRecord /\ y.pc = "failed" /\ y.keys = login[r].keys
      /\ y.counted = login[r].counted
  BY <1>1 DEF LoginRecord
<1> HIDE DEF y
<1>3. login' \in [Logins -> LoginRecord]  BY <1>1, <1>2
<1>4. Attempts!TypeOK'  BY <1>1, <1>3 DEF Windows, Attempts!TypeOK, LoginRecord
<1>5. \A q \in Logins : login'[q] = IF q = r THEN y ELSE login[q]
  BY <1>1
<1>6. \A q \in Logins : \A k, a, b :
        CountedFor(login'[q], k, a, b) <=> CountedFor(login[q], k, a, b)
  BY <1>2, <1>5 DEF CountedFor
<1>7. \A k, a, b : Seen(k, a, b)' = Seen(k, a, b)
  <2>1. \A k, a, b : Seen(k, a, b)' = {q \in Logins : CountedFor(login'[q], k, a, b)}
    BY DEF Seen, CountedFor
  <2> QED BY <1>6, <2>1 DEF Seen
<1>8. \A k, a, b : Allowed(k, a, b)' \in SUBSET Allowed(k, a, b)
  <2>1. \A k, a, b : Allowed(k, a, b)' =
          {q \in Seen(k, a, b)' : login'[q].pc \in {"account", "passed"}}
    BY DEF Allowed
  <2> QED BY <1>2, <1>5, <1>7, <2>1 DEF Allowed, Seen
<1>9. \A k, a, b : /\ Cardinality(Allowed(k, a, b)') <= Cardinality(Allowed(k, a, b))
                   /\ Cardinality(Allowed(k, a, b)') \in Nat
                   /\ Cardinality(Allowed(k, a, b)) \in Nat
  <2> SUFFICES ASSUME NEW k, NEW a, NEW b
               PROVE  /\ Cardinality(Allowed(k, a, b)') <= Cardinality(Allowed(k, a, b))
                      /\ Cardinality(Allowed(k, a, b)') \in Nat
                      /\ Cardinality(Allowed(k, a, b)) \in Nat
    OBVIOUS
  <2>1. IsFiniteSet(Allowed(k, a, b)) /\ Cardinality(Allowed(k, a, b)) \in Nat
    BY SetFacts
  <2> QED BY <1>8, <2>1, FS_Subset, FS_CardinalityType
<1>10. /\ now \in Int /\ Window \in Int /\ MaxTime \in Int /\ Limit \in Int
  BY DEF Windows, Attempts!TypeOK, Attempts!Times, Attempts!AuthLimitsAssumption
<1>11. \A q \in Logins : LoginFits(login[q])'
  BY <1>1, <1>2, <1>5 DEF Windows, LoginFits
<1>12. \A k \in Attempts!RateKeys : KeyFits(k)'
  <2> SUFFICES ASSUME NEW k \in Attempts!RateKeys  PROVE KeyFits(k)'
    OBVIOUS
  <2>1. KeyFits(k)  BY DEF Windows
  <2>2. CASE rows[k] = None  BY <1>1, <1>6, <2>1, <2>2 DEF KeyFits, CountedFor
  <2>3. CASE rows[k] # None
    <3>1. PICK n \in Nat, s \in Attempts!Times, u \in Attempts!Times :
            n = rows[k].attempts /\ s = rows[k].started /\ u = rows[k].updated
      BY <2>3 DEF Windows, Attempts!TypeOK, Attempts!RateRow
    <3>2. RowFits(k, n, s, u)  BY <2>1, <2>3, <3>1 DEF KeyFits
    <3>3. PICK m \in Int, p \in Int, v \in Int, w \in Int :
            m = now /\ p = s + 1 /\ v = s - Window + 1 /\ w = s - 1
      BY <1>10 DEF Attempts!Times
    <3>4. s > now' - Window => n <= Cardinality(Seen(k, s, now)')
      <4>1. Seen(k, s, m)' = Seen(k, s, m)  BY <1>7
      <4>2. Seen(k, s, now)' = Seen(k, s, m)'  BY <1>1, <3>3 DEF Seen, CountedFor
      <4> QED BY <1>1, <3>2, <3>3, <4>1, <4>2 DEF RowFits
    <3>5. /\ Cardinality(Allowed(k, s, MaxTime)') <= n
          /\ Cardinality(Allowed(k, s, MaxTime)') <= Limit
      BY <1>9, <1>10, <3>1, <3>2 DEF RowFits
    <3>6. /\ Cardinality(Allowed(k, p, MaxTime)') <= n - 1
          /\ Cardinality(Allowed(k, p, MaxTime)') <= Limit - 1
      <4>1. /\ Cardinality(Allowed(k, p, MaxTime)) <= n - 1
            /\ Cardinality(Allowed(k, p, MaxTime)) <= Limit - 1
        BY <3>2, <3>3 DEF RowFits
      <4> QED BY <1>9, <1>10, <3>1, <4>1
    <3>7. Cardinality(Allowed(k, v, w)') <= Limit - 1
      <4>1. Cardinality(Allowed(k, v, w)) <= Limit - 1  BY <3>2, <3>3 DEF RowFits
      <4> QED BY <1>9, <1>10, <4>1
    <3>8. \A q \in Logins, t \in Attempts!Times : CountedFor(login[q], k, t, t)' => t <= u
      BY <1>6, <3>2 DEF RowFits, CountedFor
    <3>9. RowFits(k, n, s, u)'
      BY <1>1, <3>2, <3>3, <3>4, <3>5, <3>6, <3>7, <3>8 DEF RowFits
    <3> QED BY <1>1, <2>3, <3>1, <3>9 DEF KeyFits
  <2> QED BY <2>2, <2>3
<1>13. \A k \in Attempts!RateKeys, t \in Attempts!Times :
         Cardinality(Allowed(k, t - Window + 1, t))' < 2 * Limit
  <2> SUFFICES ASSUME NEW k \in Attempts!RateKeys, NEW t \in Attempts!Times
               PROVE  Cardinality(Allowed(k, t - Window + 1, t))' < 2 * Limit
    OBVIOUS
  <2>1. PICK a \in Int : a = t - Window + 1  BY <1>10 DEF Attempts!Times
  <2>2. Cardinality(Allowed(k, a, t)) < 2 * Limit  BY <2>1 DEF Windows
  <2>3. Cardinality(Allowed(k, a, t)') < 2 * Limit  BY <1>9, <1>10, <2>2
  <2> QED BY <2>1, <2>3
<1>14. \A q \in Logins : Refusal(login[q])'
  <2> SUFFICES ASSUME NEW q \in Logins  PROVE Refusal(login[q])'
    OBVIOUS
  <2>1. CASE q = r  BY <1>2, <1>5, <2>1 DEF Refusal
  <2>2. CASE q # r
    <3>1. login'[q] = login[q] /\ Refusal(login[q])  BY <1>5, <2>2 DEF Windows
    <3>2. PICK k, a, b :
            /\ k = login[q].keys[login[q].by]
            /\ a = login[q].counted[login[q].by] - Window + 1
            /\ b = login[q].counted[login[q].by]
      OBVIOUS
    <3>3. Seen(k, a, b)' = Seen(k, a, b)  BY <1>7
    <3>4. Seen(login[q].keys[login[q].by], login[q].counted[login[q].by] - Window + 1,
               login[q].counted[login[q].by])' = Seen(k, a, b)'
      BY <3>1, <3>2 DEF Seen, CountedFor
    <3>5. login[q].pc = "refused" => Cardinality(Seen(k, a, b)) > Limit
      BY <3>1, <3>2 DEF Refusal
    <3> QED BY <3>1, <3>3, <3>4, <3>5 DEF Refusal
  <2> QED BY <2>1, <2>2
<1> QED BY <1>4, <1>11, <1>12, <1>13, <1>14 DEF Windows

\* What an attempt does, for the login that has come as far as x.
LEMMA ConsumeWindows ==
  ASSUME Attempts!AuthLimitsAssumption, Windows, NEW r \in Logins, NEW x \in LoginRecord,
         NEW kind \in Attempts!Kinds, Ready(r, x, kind), Attempts!Consume(r, x, kind)
  PROVE  Windows'
<1>1. PICK k \in Attempts!RateKeys : k = x.keys[kind]  BY DEF Ready
<1>2. PICK row : row = Attempts!Upserted(rows[k])  OBVIOUS
<1>3. now \in Attempts!Times /\ now \in Int  BY DEF Windows, Attempts!TypeOK, Attempts!Times
<1> DEFINE z == [x EXCEPT !.counted[kind] = now]
<1>4. /\ z \in LoginRecord /\ z.keys = x.keys /\ z.counted[kind] = now
      /\ \A kd \in Attempts!Kinds : kd # kind => z.counted[kd] = x.counted[kd]
  BY <1>3 DEF LoginRecord
<1>5. /\ rows' = [rows EXCEPT ![k] = row] /\ now' = now
      /\ \/ /\ row.attempts <= Limit
            /\ login' = [login EXCEPT ![r] = [z EXCEPT !.pc = Attempts!After[kind]]]
         \/ row.attempts > Limit
            /\ login' = [login EXCEPT ![r] = [z EXCEPT !.pc = "refused", !.by = kind]]
         \/ login' = [login EXCEPT ![r] = [z EXCEPT !.pc = "failed"]]
  BY <1>1, <1>2 DEF Attempts!Consume, Attempts!Become
<1> HIDE DEF z
<1>6. ASSUME NEW y, y \in LoginRecord, y.keys = z.keys, y.counted = z.counted,
             login' = [login EXCEPT ![r] = y],
             \/ row.attempts <= Limit /\ y.pc = Attempts!After[kind]
             \/ row.attempts > Limit /\ y.pc = "refused" /\ y.by = kind
             \/ y.pc = "failed"
      PROVE  Windows'
  <2>1. Counts(r, x, y, kind, row)
    BY <1>1, <1>4, <1>5, <1>6 DEF Counts
  <2> QED BY <1>1, <1>2, <1>6, <2>1, CountWindows
<1>7. Attempts!After[kind] \in {"account", "passed"}  BY DEF Attempts!After, Attempts!Kinds
<1>8. CASE row.attempts <= Limit
           /\ login' = [login EXCEPT ![r] = [z EXCEPT !.pc = Attempts!After[kind]]]
  <2> DEFINE y == [z EXCEPT !.pc = Attempts!After[kind]]
  <2>1. /\ y \in LoginRecord /\ y.keys = z.keys /\ y.counted = z.counted
        /\ y.pc = Attempts!After[kind]
    BY <1>4, <1>7 DEF LoginRecord
  <2> HIDE DEF y
  <2> QED BY <1>6, <1>8, <2>1 DEF y
<1>9. CASE row.attempts > Limit
           /\ login' = [login EXCEPT ![r] = [z EXCEPT !.pc = "refused", !.by = kind]]
  <2> DEFINE y == [z EXCEPT !.pc = "refused", !.by = kind]
  <2>1. /\ y \in LoginRecord /\ y.keys = z.keys /\ y.counted = z.counted
        /\ y.pc = "refused" /\ y.by = kind
    BY <1>4 DEF LoginRecord
  <2> QED BY <1>6, <1>9, <2>1
<1>10. CASE login' = [login EXCEPT ![r] = [z EXCEPT !.pc = "failed"]]
  <2> DEFINE y == [z EXCEPT !.pc = "failed"]
  <2>1. /\ y \in LoginRecord /\ y.keys = z.keys /\ y.counted = z.counted
        /\ y.pc = "failed"
    BY <1>4 DEF LoginRecord
  <2> QED BY <1>6, <1>10, <2>1
<1> QED BY <1>5, <1>8, <1>9, <1>10

LEMMA CountIpWindows ==
  ASSUME Attempts!AuthLimitsAssumption, Windows, NEW r \in Logins, NEW i \in Ips,
         NEW a \in Accounts,
         Attempts!CountIp(r, i, a)
  PROVE  Windows'
<1> DEFINE x == [Attempts!Idle EXCEPT !.keys = [ip |-> <<"ip", i>>, account |-> <<"account", a>>]]
<1>1. <<"ip", i>> \in Attempts!RateKeys /\ <<"account", a>> \in Attempts!RateKeys  BY
DEF Attempts!RateKeys
<1>2. [ip |-> <<"ip", i>>, account |-> <<"account", a>>] \in [Attempts!Kinds -> Attempts!RateKeys]
  BY <1>1 DEF Attempts!Kinds
<1>3. /\ x \in LoginRecord
      /\ x.keys["ip"] = <<"ip", i>> /\ x.keys["account"] = <<"account", a>>
      /\ x.counted["ip"] = None /\ x.counted["account"] = None
  BY <1>1, <1>2 DEF Attempts!Idle, LoginRecord, Attempts!Kinds
<1>4. Attempts!Consume(r, x, "ip") /\ login[r].pc = "idle"  BY DEF Attempts!CountIp
<1> HIDE DEF x
<1>5. login[r].counted["ip"] = None /\ login[r].counted["account"] = None
  BY <1>4 DEF Windows, LoginFits
<1>6. x.keys["account"] # None
  BY <1>1, <1>3 DEF Attempts!AuthLimitsAssumption
<1>7. Ready(r, x, "ip")
  BY <1>1, <1>3, <1>4, <1>5, <1>6 DEF Ready, Attempts!Kinds
<1> QED BY <1>3, <1>4, <1>7, ConsumeWindows DEF Attempts!Kinds

LEMMA CountAccountWindows ==
  ASSUME Attempts!AuthLimitsAssumption, Windows, NEW r \in Logins, Attempts!CountAccount(r)
  PROVE  Windows'
<1>1. PICK x \in LoginRecord : x = login[r]  BY DEF Windows, Attempts!TypeOK, LoginRecord
<1>2. Attempts!Consume(r, x, "account") /\ x.pc = "account"  BY <1>1 DEF Attempts!CountAccount
<1>3. LoginFits(x)  BY <1>1 DEF Windows
<1>4. x.keys["account"] \in Attempts!RateKeys /\ x.counted["account"] = None
  BY <1>2, <1>3 DEF LoginFits, LoginRecord, Attempts!Kinds
<1>5. \A kd \in Attempts!Kinds : x.keys[kd] # None => x.keys[kd][1] = kd
  BY <1>3 DEF LoginFits
<1>6. Ready(r, x, "account")
  BY <1>1, <1>2, <1>4, <1>5 DEF Ready, Attempts!Kinds
<1> QED BY <1>2, <1>6, ConsumeWindows DEF Attempts!Kinds

LEMMA InitWindows ==
  ASSUME Attempts!AuthLimitsAssumption, Attempts!Init  PROVE Windows
<1>1. /\ Window \in Nat /\ Window >= 1 /\ Limit \in Nat /\ Limit >= 1 /\ MaxTime \in Nat
      /\ MaxTime >= Window
  BY DEF Attempts!AuthLimitsAssumption
<1> DEFINE row == [attempts |-> Limit + 1, started |-> 0, updated |-> 0]
<1>2. row \in Attempts!RateRow /\ row # None
  BY <1>1 DEF Attempts!RateRow, Attempts!Times, Attempts!AuthLimitsAssumption
<1>3. row.attempts = Limit + 1 /\ row.started = 0 /\ row.updated = 0  OBVIOUS
<1>4. rows \in [Attempts!RateKeys -> {None, row}] /\ now = Window  BY DEF Attempts!Init
<1> HIDE DEF row
<1>5. login \in [Logins -> LoginRecord]
  BY DEF Attempts!Init, Attempts!Idle, LoginRecord
<1>6. \A r \in Logins : /\ login[r].pc = "idle"
                        /\ \A kd \in Attempts!Kinds : login[r].keys[kd] = None
                        /\ \A kd \in Attempts!Kinds : login[r].counted[kd] = None
  BY DEF Attempts!Init, Attempts!Idle
<1>7. now \in Attempts!Times  BY <1>1, <1>4 DEF Attempts!Times
<1>8. Attempts!TypeOK  BY <1>2, <1>4, <1>5, <1>7 DEF Attempts!TypeOK, LoginRecord
<1>9. ASSUME NEW k \in Attempts!RateKeys, NEW a, NEW b
      PROVE  /\ \A r \in Logins : ~CountedFor(login[r], k, a, b)
             /\ Seen(k, a, b) = {} /\ Allowed(k, a, b) = {}
  <2>1. None # k  BY DEF Attempts!AuthLimitsAssumption
  <2>2. \A r \in Logins : login[r].keys[k[1]] = None  BY <1>6, KeyKinds
  <2> QED BY <2>1, <2>2 DEF Seen, Allowed, CountedFor
<1>10. Cardinality({}) = 0  BY FS_EmptySet
<1>11. \A k \in Attempts!RateKeys : KeyFits(k)
  <2> SUFFICES ASSUME NEW k \in Attempts!RateKeys  PROVE KeyFits(k)
    OBVIOUS
  <2>1. CASE rows[k] = None  BY <1>9, <2>1 DEF KeyFits
  <2>2. CASE rows[k] # None
    <3>1. rows[k] = row  BY <1>4, <2>2
    <3>2. PICK z \in Int, n \in Int : z = 0 /\ n = Limit + 1  BY <1>1
    <3>3. RowFits(k, n, z, z)
      <4>1. ~(z > now - Window)  BY <1>1, <1>4, <3>2
      <4>2. /\ Cardinality(Allowed(k, z, MaxTime)) = 0
            /\ Cardinality(Allowed(k, z + 1, MaxTime)) = 0
            /\ Cardinality(Allowed(k, z - Window + 1, z - 1)) = 0
        BY <1>9, <1>10
      <4>3. \A r \in Logins, t \in Attempts!Times : CountedFor(login[r], k, t, t) => t <= z
        BY <1>9
      <4>4. /\ z <= z /\ z <= now /\ z < z + Window /\ n >= 1
            /\ 0 <= Limit /\ 0 <= n /\ 0 <= n - 1 /\ 0 <= Limit - 1
        BY <1>1, <1>4, <3>2
      <4> QED BY <4>1, <4>2, <4>3, <4>4 DEF RowFits
    <3> QED BY <1>3, <2>2, <3>1, <3>2, <3>3 DEF KeyFits
  <2> QED BY <2>1, <2>2
<1>12. \A k \in Attempts!RateKeys, t \in Attempts!Times :
         Cardinality(Allowed(k, t - Window + 1, t)) < 2 * Limit
  BY <1>1, <1>9, <1>10
<1>13. \A r \in Logins : LoginFits(login[r]) /\ Refusal(login[r])
  BY <1>6 DEF LoginFits, Refusal, Attempts!Kinds
<1> QED BY <1>8, <1>11, <1>12, <1>13 DEF Windows

LEMMA NextWindows ==
  ASSUME Attempts!AuthLimitsAssumption, Windows, [Attempts!Next]_(Attempts!vars)  PROVE Windows'
<1>1. CASE Attempts!Tick  BY <1>1, TickWindows
<1>2. CASE Attempts!Purge  BY <1>2, PurgeWindows
<1>3. CASE \E r \in Logins, i \in Ips, a \in Accounts : Attempts!CountIp(r, i, a)
  BY <1>3, CountIpWindows
<1>4. CASE \E r \in Logins : Attempts!CountAccount(r)  BY <1>4, CountAccountWindows
<1>5. CASE \E r \in Logins : Attempts!Abandon(r)  BY <1>5, AbandonWindows
<1>6. CASE UNCHANGED Attempts!vars
  <2>1. now' = now /\ rows' = rows /\ login' = login  BY <1>6 DEF Attempts!vars
  <2>2. \A k, a, b : Seen(k, a, b)' = Seen(k, a, b) /\ Allowed(k, a, b)' = Allowed(k, a, b)
    BY <2>1, SameLogins
  <2>3. Attempts!TypeOK'  BY <2>1 DEF Windows, Attempts!TypeOK
  <2>4. \A r \in Logins : LoginFits(login[r])'  BY <2>1 DEF Windows, LoginFits
  <2>5. \A r \in Logins : Refusal(login[r])'
    BY <2>1 DEF Windows, Refusal, Seen, CountedFor
  <2>6. \A k, n, s, u : RowFits(k, n, s, u)' <=> RowFits(k, n, s, u)
    BY <2>1 DEF RowFits, Seen, Allowed, CountedFor
  <2>7. \A k \in Attempts!RateKeys : KeyFits(k)'  BY <2>1, <2>6 DEF Windows, KeyFits, CountedFor
  <2>8. \A k \in Attempts!RateKeys, t \in Attempts!Times :
          Cardinality(Allowed(k, t - Window + 1, t))' < 2 * Limit
    BY <2>1, <2>2 DEF Windows
  <2> QED BY <2>3, <2>4, <2>5, <2>7, <2>8 DEF Windows
<1> QED BY <1>1, <1>2, <1>3, <1>4, <1>5, <1>6 DEF Attempts!Next

\* The inductive invariant of the windows.
THEOREM WindowsHold == Attempts!AuthLimitsAssumption => (Attempts!Spec => []Windows)
<1> SUFFICES ASSUME Attempts!AuthLimitsAssumption  PROVE Attempts!Spec => []Windows
  OBVIOUS
<1>1. Attempts!Init => Windows  BY InitWindows
<1>2. Windows /\ [Attempts!Next]_(Attempts!vars) => Windows'  BY NextWindows
<1> QED BY <1>1, <1>2, PTL DEF Attempts!Spec

-----------------------------------------------------------------------------
\* The attempts for a key, in the words of the properties.
LEMMA AttemptsSeen ==
  ASSUME Attempts!AuthLimitsAssumption, Windows, NEW k \in Attempts!RateKeys, NEW t \in Int
  PROVE  Attempts!Attempts(k, t) = Seen(k, t - Window + 1, t)
<1>1. k[1] \in Attempts!Kinds /\ k # None  BY KeyKinds DEF Attempts!AuthLimitsAssumption
<1>2. \A r \in Logins, kind \in Attempts!Kinds : login[r].keys[kind] = k => kind = k[1]
  BY <1>1 DEF Windows, LoginFits
<1> QED BY <1>1, <1>2 DEF Attempts!Attempts, Seen, CountedFor

\* Property WindowBound.
LEMMA WindowsBound ==
  ASSUME Attempts!AuthLimitsAssumption, Windows  PROVE Attempts!WindowBound
<1> SUFFICES ASSUME NEW k \in Attempts!RateKeys, NEW t \in Attempts!Times
             PROVE  Cardinality({r \in Attempts!Attempts(k, t) : login[r].pc = "passed"})
                      < 2 * Limit
  BY OneCardinality DEF Attempts!WindowBound
<1>1. PICK a \in Int : a = t - Window + 1  BY DEF Attempts!Times, Attempts!AuthLimitsAssumption
<1>2. Attempts!Attempts(k, t) = Seen(k, a, t)  BY <1>1, AttemptsSeen DEF Attempts!Times
<1>3. {r \in Attempts!Attempts(k, t) : login[r].pc = "passed"} \in SUBSET Allowed(k, a, t)
  BY <1>2 DEF Allowed
<1>4. IsFiniteSet(Allowed(k, a, t)) /\ Cardinality(Allowed(k, a, t)) \in Nat  BY SetFacts
<1>5. /\ Cardinality({r \in Attempts!Attempts(k, t) : login[r].pc = "passed"})
           <= Cardinality(Allowed(k, a, t))
      /\ Cardinality({r \in Attempts!Attempts(k, t) : login[r].pc = "passed"}) \in Nat
  BY <1>3, <1>4, FS_Subset, FS_CardinalityType
<1>6. Cardinality(Allowed(k, a, t)) < 2 * Limit  BY <1>1 DEF Windows
<1> QED BY <1>4, <1>5, <1>6 DEF Attempts!AuthLimitsAssumption

\* Property RefusedForRecent.
LEMMA WindowsRefuse ==
  ASSUME Attempts!AuthLimitsAssumption, Windows  PROVE Attempts!RefusedForRecent
<1> SUFFICES ASSUME NEW r \in Logins, login[r].pc = "refused"
             PROVE  Cardinality(Attempts!Attempts(login[r].keys[login[r].by],
                                         login[r].counted[login[r].by])) > Limit
  BY OneCardinality DEF Attempts!RefusedForRecent
<1>1. LoginFits(login[r]) /\ Refusal(login[r])  BY DEF Windows
<1>2. login[r].by \in Attempts!Kinds  BY <1>1 DEF LoginFits, Windows, Attempts!TypeOK
<1>3. PICK k \in Attempts!RateKeys, t \in Attempts!Times :
        k = login[r].keys[login[r].by] /\ t = login[r].counted[login[r].by]
  BY <1>1, <1>2 DEF LoginFits, Windows, Attempts!TypeOK
<1>4. Attempts!Attempts(k, t) = Seen(k, t - Window + 1, t)  BY AttemptsSeen DEF Attempts!Times
<1> QED BY <1>1, <1>3, <1>4 DEF Refusal

\* A key lets through fewer than twice the limit in any stretch of the length of a
\* window, whichever attempts and lost answers come together (consumeAuthRateLimit).
THEOREM WindowsAreBounded ==
  Attempts!AuthLimitsAssumption => (Attempts!Spec => []WindowBound)
<1> SUFFICES ASSUME Attempts!AuthLimitsAssumption  PROVE Attempts!Spec => []WindowBound
  OBVIOUS
<1>1. Windows => WindowBound  BY WindowsBound DEF WindowBound
<1> QED BY <1>1, WindowsHold, PTL

\* An attempt is refused only after more than the limit within the last window, the
\* refused one included (enforceAuthRateLimit).
THEOREM RefusalsAreEarned ==
  Attempts!AuthLimitsAssumption => (Attempts!Spec => []RefusedForRecent)
<1> SUFFICES ASSUME Attempts!AuthLimitsAssumption
             PROVE  Attempts!Spec => []RefusedForRecent
  OBVIOUS
<1>1. Windows => RefusedForRecent  BY WindowsRefuse DEF RefusedForRecent
<1> QED BY <1>1, WindowsHold, PTL

-----------------------------------------------------------------------------
(***************************************************************************)
(* AccessControl: the count of a day and those it has admitted.            *)
(***************************************************************************)

RequestRecord ==
  [pc : Access!Statuses, client : Clients \cup {None},
   day   : Access!Days, limit : Nat, read : Nat, metered : BOOLEAN, excused : BOOLEAN]

\* How far a request has come: what it will write is below its limit.
RequestFits(x) ==
  /\ x.pc \in {"get", "put"} => x.client \in Clients
  /\ x.pc = "put" => x.read < x.limit
  /\ x.metered \/ x.excused => x.pc \in {"admitted", "dead"}

\* No request of client c and day d has an excuse.
Blameless(c, d) ==
  \A r \in Logins : use[r].client = c /\ use[r].day = d => ~use[r].excused

\* Those that have been admitted are counted.
Held(c, d) ==
  Blameless(c, d) =>
    Cardinality(Access!Metered(c, d)) <= count[<<c, d>>] /\ Access!WithinLimit(c, d)

Daily ==
  /\ Access!TypeOK
  /\ \A r \in Logins : RequestFits(use[r])
  /\ \A c \in Clients, d \in Access!Days : Held(c, d)

LEMMA MeteredFinite ==
  ASSUME Access!AccessControlAssumption, NEW c, NEW d
  PROVE  IsFiniteSet(Access!Metered(c, d)) /\ Cardinality(Access!Metered(c, d)) \in Nat
<1>1. Access!Metered(c, d) \in SUBSET Logins  BY DEF Access!Metered
<1> QED BY <1>1, FS_Subset, FS_CardinalityType, OneCardinality DEF Access!AccessControlAssumption

\* A step of request r, which becomes y.
Moves(r, y) ==
  /\ y \in RequestRecord /\ RequestFits(y)
  /\ use' = [use EXCEPT ![r] = y]
  /\ ~use[r].metered /\ ~use[r].excused
  /\ date' \in Access!Days /\ settings' \in Settings \cup {NoConfig} /\ saves' \in 0..MaxSaves
  /\ count' \in [Clients \X Access!Days -> Nat]

LEMMA MovesTypes ==
  ASSUME Daily, NEW r \in Logins, NEW y, Moves(r, y)
  PROVE  /\ Access!TypeOK'
         /\ \A q \in Logins : use'[q] = IF q = r THEN y ELSE use[q]
         /\ \A q \in Logins : RequestFits(use[q])'
<1>1. use \in [Logins -> RequestRecord]  BY DEF Daily, Access!TypeOK, RequestRecord
<1>2. use' \in [Logins -> RequestRecord]  BY <1>1 DEF Moves
<1>3. Access!TypeOK'  BY <1>2 DEF Moves, Access!TypeOK, RequestRecord
<1>4. \A q \in Logins : use'[q] = IF q = r THEN y ELSE use[q]
  BY <1>1 DEF Moves
<1>5. \A q \in Logins : RequestFits(use[q])'
  BY <1>4 DEF Moves, Daily, RequestFits
<1> QED BY <1>3, <1>4, <1>5

\* What the move does not concern.
LEMMA OtherHeld ==
  ASSUME Daily, NEW r \in Logins, NEW y, Moves(r, y),
         NEW c \in Clients, NEW d \in Access!Days, count'[<<c, d>>] = count[<<c, d>>],
         y.metered => ~(y.client = c /\ y.day = d)
  PROVE  Held(c, d)'
<1>1. \A q \in Logins : use'[q] = IF q = r THEN y ELSE use[q]  BY MovesTypes
<1>2. Access!Metered(c, d)' = Access!Metered(c, d)  BY <1>1 DEF Access!Metered, Moves
<1>3. \A q \in Access!Metered(c, d) : use'[q].limit = use[q].limit
  BY <1>1 DEF Access!Metered, Moves
<1>4. Access!WithinLimit(c, d) => Access!WithinLimit(c, d)'
  BY <1>2, <1>3 DEF Access!WithinLimit
<1>5. Blameless(c, d)' => Blameless(c, d)
  BY <1>1 DEF Blameless, Moves
<1> QED BY <1>2, <1>4, <1>5 DEF Daily, Held

\* A request that is not counted.
LEMMA UncountedStep ==
  ASSUME Daily, NEW r \in Logins, NEW y, Moves(r, y), count' = count, ~y.metered
  PROVE  Daily'
<1>1. \A c \in Clients, d \in Access!Days : Held(c, d)'
  BY OtherHeld
<1> QED BY <1>1, MovesTypes DEF Daily

\* One that has an excuse.
LEMMA ExcusedStep ==
  ASSUME Daily, NEW r \in Logins, NEW y, Moves(r, y), y.excused,
         \A c \in Clients, d \in Access!Days :
           ~(y.client = c /\ y.day = d) => count'[<<c, d>>] = count[<<c, d>>]
  PROVE  Daily'
<1>1. ASSUME NEW c \in Clients, NEW d \in Access!Days  PROVE Held(c, d)'
  <2>1. CASE y.client = c /\ y.day = d
    <3>1. use'[r] = y  BY MovesTypes
    <3>2. ~Blameless(c, d)'  BY <2>1, <3>1 DEF Blameless
    <3> QED BY <3>2 DEF Held
  <2>2. CASE ~(y.client = c /\ y.day = d)  BY <2>2, OtherHeld
  <2> QED BY <2>1, <2>2
<1> QED BY <1>1, MovesTypes DEF Daily

\* One that writes what the count is, plus one.
LEMMA CountedStep ==
  ASSUME Access!AccessControlAssumption, Daily, NEW r \in Logins, NEW y, Moves(r, y),
         y.client \in Clients, y.day \in Access!Days,
         NEW n \in Nat, n = count[<<y.client, y.day>>], n < y.limit,
         count' = [count EXCEPT ![<<y.client, y.day>>] = n + 1]
  PROVE  Daily'
<1>1. count \in [Clients \X Access!Days -> Nat]  BY DEF Daily, Access!TypeOK
<1>2. count'[<<y.client, y.day>>] = n + 1  BY <1>1
<1>3. ASSUME NEW c \in Clients, NEW d \in Access!Days, ~(y.client = c /\ y.day = d)
      PROVE  count'[<<c, d>>] = count[<<c, d>>]
  BY <1>1, <1>3
<1>4. ASSUME NEW c \in Clients, NEW d \in Access!Days, y.client = c /\ y.day = d, Blameless(c, d)'
      PROVE  Cardinality(Access!Metered(c, d)') <= n + 1 /\ Access!WithinLimit(c, d)'
  <2>1. \A q \in Logins : use'[q] = IF q = r THEN y ELSE use[q]  BY MovesTypes
  <2>2. Blameless(c, d)
    BY <1>4, <2>1 DEF Blameless, Moves
  <2>3. /\ Cardinality(Access!Metered(c, d)) <= n /\ Access!WithinLimit(c, d)
        /\ IsFiniteSet(Access!Metered(c, d)) /\ Cardinality(Access!Metered(c, d)) \in Nat
    BY <1>4, <2>2, MeteredFinite DEF Daily, Held
  <2>4. r \notin Access!Metered(c, d)  BY DEF Access!Metered, Moves
  <2>5. CASE y.metered
    <3>1. Access!Metered(c, d)' = Access!Metered(c, d) \cup {r}
      BY <1>4, <2>1, <2>5 DEF Access!Metered, Moves
    <3>2. Cardinality(Access!Metered(c, d)') = Cardinality(Access!Metered(c, d)) + 1
      BY <2>3, <2>4, <3>1, FS_AddElement
    <3>3. r \in Access!Metered(c, d)' /\ use'[r] = y  BY <2>1, <3>1
    <3>4. y.limit \in Nat  BY DEF Moves, RequestRecord
    <3>5. Cardinality(Access!Metered(c, d)') <= y.limit
      BY <2>3, <3>2, <3>4
    <3>6. Access!Cardinality(Access!Metered(c, d)') = Cardinality(Access!Metered(c, d)')
      BY OneCardinality
    <3>7. Access!WithinLimit(c, d)'  BY <3>3, <3>5, <3>6 DEF Access!WithinLimit
    <3> QED BY <2>3, <3>2, <3>7
  <2>6. CASE ~y.metered
    <3>1. Access!Metered(c, d)' = Access!Metered(c, d)  BY <2>1, <2>6 DEF Access!Metered, Moves
    <3>2. \A q \in Access!Metered(c, d) : use'[q] = use[q]
      BY <2>1, <2>4 DEF Access!Metered
    <3>3. Access!WithinLimit(c, d)'  BY <2>3, <3>1, <3>2 DEF Access!WithinLimit
    <3> QED BY <2>3, <3>1, <3>3
  <2> QED BY <2>5, <2>6
<1>5. ASSUME NEW c \in Clients, NEW d \in Access!Days  PROVE Held(c, d)'
  <2>1. CASE y.client = c /\ y.day = d  BY <1>2, <1>4, <2>1 DEF Held
  <2>2. CASE ~(y.client = c /\ y.day = d)  BY <1>3, <2>2, OtherHeld
  <2> QED BY <2>1, <2>2
<1> QED BY <1>5, MovesTypes DEF Daily

LEMMA IdleRecord ==
  ASSUME Access!AccessControlAssumption, NEW pc \in Access!Statuses \ {"get", "put"}
  PROVE  /\ [Access!Idle EXCEPT !.pc = pc] \in RequestRecord
         /\ RequestFits([Access!Idle EXCEPT !.pc = pc])
         /\ ~[Access!Idle EXCEPT !.pc = pc].metered
<1>1. 1 \in Access!Days  BY DEF Access!Days, Access!AccessControlAssumption
<1> QED BY <1>1 DEF Access!Idle, RequestRecord, RequestFits

\* What a step of a request leaves alone.
LEMMA SameWorld ==
  ASSUME Daily, Access!KeepWorld, count' \in [Clients \X Access!Days -> Nat], NEW r \in Logins,
         use[r].pc \in {"idle", "settings", "get", "put"},
         NEW y \in RequestRecord, RequestFits(y), Access!Become(r, y)
  PROVE  Moves(r, y)
<1>1. RequestFits(use[r]) /\ use[r] \in RequestRecord
  BY DEF Daily, Access!TypeOK, RequestRecord
<1>2. ~use[r].metered /\ ~use[r].excused
  BY <1>1 DEF RequestFits, RequestRecord
<1> QED BY <1>2 DEF Moves, Access!KeepWorld, Access!Become, Daily, Access!TypeOK

LEMMA EndsStep ==
  ASSUME Access!AccessControlAssumption, Daily, Access!KeepWorld, count' = count,
         NEW r \in Logins,
         use[r].pc \in {"idle", "settings", "get", "put"},
         NEW pc \in Access!Statuses \ {"get", "put"}, Access!Ends(r, pc)
  PROVE  Daily'
<1> DEFINE y == [Access!Idle EXCEPT !.pc = pc]
<1>1. y \in RequestRecord /\ RequestFits(y) /\ ~y.metered  BY IdleRecord
<1>2. Access!Become(r, y)  BY DEF Access!Ends
<1> HIDE DEF y
<1>3. count' \in [Clients \X Access!Days -> Nat]  BY DEF Daily, Access!TypeOK
<1>4. Moves(r, y)  BY <1>1, <1>2, <1>3, SameWorld
<1> QED BY <1>1, <1>4, UncountedStep

LEMMA BeginDaily ==
  ASSUME Access!AccessControlAssumption, Daily, NEW r \in Logins, NEW c \in Clients \cup {None},
         Access!Begin(r, c)
  PROVE  Daily'
<1>1. use[r].pc = "idle" /\ count' = count /\ Access!KeepWorld  BY DEF Access!Begin
<1>2. count' \in [Clients \X Access!Days -> Nat] /\ 1 \in Access!Days
  BY <1>1 DEF Daily, Access!TypeOK, Access!Days, Access!AccessControlAssumption
<1>3. CASE Access!Become(r, [Access!Idle EXCEPT !.pc = "settings", !.client = c])
  <2> DEFINE y == [Access!Idle EXCEPT !.pc = "settings", !.client = c]
  <2>1. y \in RequestRecord /\ RequestFits(y) /\ ~y.metered
    BY <1>2 DEF Access!Idle, RequestRecord, RequestFits, Access!Statuses
  <2>2. Access!Become(r, y)  BY <1>3
  <2> HIDE DEF y
  <2>3. Moves(r, y)  BY <1>1, <1>2, <2>1, <2>2, SameWorld
  <2> QED BY <1>1, <2>1, <2>3, UncountedStep
<1>4. CASE Access!Ends(r, "refused")
  <2>1. "refused" \in Access!Statuses \ {"get", "put"}  BY DEF Access!Statuses
  <2> QED BY <1>1, <1>4, <2>1, EndsStep
<1> QED BY <1>3, <1>4 DEF Access!Begin

LEMMA CheckListsDaily ==
  ASSUME Access!AccessControlAssumption, Daily, NEW r \in Logins, Access!CheckLists(r)
  PROVE  Daily'
<1>1. use[r].pc = "settings" /\ count' = count /\ Access!KeepWorld  BY DEF Access!CheckLists
<1>2. count' \in [Clients \X Access!Days -> Nat]  BY <1>1 DEF Daily, Access!TypeOK
<1>3. PICK x \in RequestRecord : x = use[r] /\ RequestFits(x)
  BY DEF Daily, Access!TypeOK, RequestRecord
<1>4. CASE \E pc \in {"admitted", "refused"} : Access!Ends(r, pc)
  <2>1. \A pc \in {"admitted", "refused"} : pc \in Access!Statuses \ {"get", "put"}  BY
  DEF Access!Statuses
  <2> QED BY <1>1, <1>4, <2>1, EndsStep
<1>5. CASE settings # NoConfig /\ x.client # None
           /\ Access!Become(r, [x EXCEPT !.pc = "get", !.day = date, !.limit = settings.daily])
  <2> DEFINE y == [x EXCEPT !.pc = "get", !.day = date, !.limit = settings.daily]
  <2>1. settings.daily \in Nat /\ date \in Access!Days
    BY <1>5 DEF Daily, Access!TypeOK, Access!AccessControlAssumption
  <2>2. x.client \in Clients /\ ~x.metered /\ ~x.excused
    BY <1>1, <1>3, <1>5 DEF RequestRecord, RequestFits
  <2>3. y \in RequestRecord /\ RequestFits(y) /\ ~y.metered
    BY <2>1, <2>2 DEF RequestRecord, RequestFits, Access!Statuses
  <2>4. Access!Become(r, y)  BY <1>5
  <2> HIDE DEF y
  <2>5. Moves(r, y)  BY <1>1, <1>2, <2>3, <2>4, SameWorld
  <2> QED BY <1>1, <2>3, <2>5, UncountedStep
<1>6. \/ \E pc \in {"admitted", "refused"} : Access!Ends(r, pc)
      \/ settings # NoConfig /\ x.client # None
           /\ Access!Become(r, [x EXCEPT !.pc = "get", !.day = date, !.limit = settings.daily])
  BY <1>3 DEF Access!CheckLists
<1> QED BY <1>4, <1>5, <1>6

LEMMA ReadCountDaily ==
  ASSUME Access!AccessControlAssumption, Daily, NEW r \in Logins, Access!ReadCount(r)
  PROVE  Daily'
<1>1. use[r].pc = "get" /\ count' = count /\ Access!KeepWorld  BY DEF Access!ReadCount
<1>2. count' \in [Clients \X Access!Days -> Nat]  BY <1>1 DEF Daily, Access!TypeOK
<1>3. PICK x \in RequestRecord : x = use[r] /\ RequestFits(x)
  BY DEF Daily, Access!TypeOK, RequestRecord
<1>4. x.pc = "get" /\ x.client \in Clients /\ ~x.metered /\ ~x.excused /\ x.day \in Access!Days
      /\ x.limit \in Nat
  BY <1>1, <1>3 DEF RequestFits, RequestRecord
<1>5. PICK n \in Nat : n = count[<<x.client, x.day>>]
  BY <1>4 DEF Daily, Access!TypeOK
<1>6. \/ Access!Ends(r, "refused")
      \/ n < x.limit /\ Access!Become(r, [x EXCEPT !.pc = "put", !.read = n])
      \/ Access!Become(r, [x EXCEPT !.pc = "admitted", !.metered = TRUE, !.excused = TRUE])
  BY <1>3, <1>4, <1>5 DEF Access!ReadCount
<1>7. CASE Access!Ends(r, "refused")
  <2>1. "refused" \in Access!Statuses \ {"get", "put"}  BY DEF Access!Statuses
  <2> QED BY <1>1, <1>7, <2>1, EndsStep
<1>8. CASE n < x.limit /\ Access!Become(r, [x EXCEPT !.pc = "put", !.read = n])
  <2> DEFINE y == [x EXCEPT !.pc = "put", !.read = n]
  <2>1. y \in RequestRecord /\ RequestFits(y) /\ ~y.metered
    BY <1>4, <1>8 DEF RequestRecord, RequestFits, Access!Statuses
  <2>2. Access!Become(r, y)  BY <1>8
  <2> HIDE DEF y
  <2>3. Moves(r, y)  BY <1>1, <1>2, <2>1, <2>2, SameWorld
  <2> QED BY <1>1, <2>1, <2>3, UncountedStep
<1>9. CASE Access!Become(r, [x EXCEPT !.pc = "admitted", !.metered = TRUE, !.excused = TRUE])
  <2> DEFINE y == [x EXCEPT !.pc = "admitted", !.metered = TRUE, !.excused = TRUE]
  <2>1. y \in RequestRecord /\ RequestFits(y) /\ y.excused
    BY <1>4 DEF RequestRecord, RequestFits, Access!Statuses
  <2>2. Access!Become(r, y)  BY <1>9
  <2> HIDE DEF y
  <2>3. Moves(r, y)  BY <1>1, <1>2, <2>1, <2>2, SameWorld
  <2> QED BY <1>1, <2>1, <2>3, ExcusedStep
<1> QED BY <1>6, <1>7, <1>8, <1>9

\* Request r writes, or not, and has been it.
LEMMA WriteDaily ==
  ASSUME Access!AccessControlAssumption, Daily, NEW r \in Logins, use[r].pc = "put",
         Access!KeepWorld, Access!Written(use[r]) \/ count' = count,
         NEW pc \in {"admitted", "dead"}, NEW metered \in BOOLEAN, NEW excused \in BOOLEAN,
         excused \/ (Access!Written(use[r]) /\ ~Access!Stale(use[r])),
         Access!Become(r, [use[r] EXCEPT !.pc = pc, !.read = 0, !.metered = metered,
                                      !.excused = excused])
  PROVE  Daily'
<1>1. PICK x \in RequestRecord : x = use[r] /\ RequestFits(x)
  BY DEF Daily, Access!TypeOK, RequestRecord
<1>2. /\ x.client \in Clients /\ x.day \in Access!Days /\ x.limit \in Nat /\ x.read \in Nat
      /\ x.read < x.limit
  BY <1>1 DEF RequestFits, RequestRecord
<1> DEFINE y == [x EXCEPT !.pc = pc, !.read = 0, !.metered = metered, !.excused = excused]
<1>3. /\ y \in RequestRecord /\ RequestFits(y) /\ y.excused = excused
      /\ y.client = x.client /\ y.day = x.day /\ y.limit = x.limit
  BY <1>1, <1>2 DEF RequestRecord, RequestFits, Access!Statuses
<1>4. Access!Become(r, y)  BY <1>1
<1> HIDE DEF y
<1>5. count \in [Clients \X Access!Days -> Nat]  BY DEF Daily, Access!TypeOK
<1>6. Access!Written(x) => count' = [count EXCEPT ![<<x.client, x.day>>] = x.read + 1]
  BY DEF Access!Written
<1>7. /\ count' \in [Clients \X Access!Days -> Nat]
      /\ \A c \in Clients, d \in Access!Days :
           ~(x.client = c /\ x.day = d) => count'[<<c, d>>] = count[<<c, d>>]
  <2>1. CASE Access!Written(x)  BY <1>2, <1>5, <1>6, <2>1
  <2>2. CASE count' = count  BY <1>5, <2>2
  <2> QED BY <1>1, <2>1, <2>2
<1>8. Moves(r, y)  BY <1>3, <1>4, <1>7, SameWorld
<1>9. CASE excused  BY <1>3, <1>7, <1>8, <1>9, ExcusedStep
<1>10. CASE Access!Written(x) /\ ~Access!Stale(x)
  <2>1. PICK n \in Nat : n = count[<<x.client, x.day>>] /\ n = x.read
    BY <1>2, <1>10 DEF Access!Stale
  <2> QED BY <1>2, <1>3, <1>6, <1>8, <1>10, <2>1, CountedStep
<1> QED BY <1>1, <1>9, <1>10

LEMMA WriteCountDaily ==
  ASSUME Access!AccessControlAssumption, Daily, NEW r \in Logins, Access!WriteCount(r)
  PROVE  Daily'
<1>1. PICK x : x = use[r]  OBVIOUS
<1>2. /\ x.pc = "put" /\ Access!KeepWorld
      /\ \/ Access!Written(x) /\ \E excused \in {Access!Stale(x), TRUE} :
              Access!Become(r, [x EXCEPT !.pc = "admitted", !.read = 0, !.metered = TRUE,
                                  !.excused = excused])
         \/ /\ count' = count
            /\ Access!Become(r, [x EXCEPT !.pc = "admitted", !.read = 0, !.metered = TRUE,
                                   !.excused = TRUE])
  BY <1>1 DEF Access!WriteCount
<1>3. Access!Stale(x) \in BOOLEAN  BY DEF Access!Stale
<1>4. \/ Access!Written(x) /\ \E excused \in BOOLEAN :
           /\ excused \/ ~Access!Stale(x)
           /\ Access!Become(r, [x EXCEPT !.pc = "admitted", !.read = 0, !.metered = TRUE,
                                  !.excused = excused])
      \/ /\ count' = count
         /\ Access!Become(r, [x EXCEPT !.pc = "admitted", !.read = 0, !.metered = TRUE,
                                !.excused = TRUE])
  BY <1>2, <1>3
<1> QED BY <1>1, <1>2, <1>4, WriteDaily

LEMMA KillDaily ==
  ASSUME Access!AccessControlAssumption, Daily, NEW r \in Logins, Access!Kill(r)
  PROVE  Daily'
<1>1. PICK x \in RequestRecord : x = use[r] /\ RequestFits(x)
  BY DEF Daily, Access!TypeOK, RequestRecord
<1>2. /\ x.pc = "put" /\ Access!KeepWorld /\ Access!Written(x)
      /\ Access!Become(r, [x EXCEPT !.pc = "dead", !.read = 0, !.excused = Access!Stale(x)])
  BY <1>1 DEF Access!Kill
<1>3. Access!Stale(x) \in BOOLEAN /\ x.metered \in BOOLEAN  BY DEF Access!Stale, RequestRecord
<1>4. [x EXCEPT !.pc = "dead", !.read = 0, !.excused = Access!Stale(x)]
      = [x EXCEPT !.pc = "dead", !.read = 0, !.metered = x.metered, !.excused = Access!Stale(x)]
  BY DEF RequestRecord
<1> QED BY <1>1, <1>2, <1>3, <1>4, WriteDaily

LEMMA NextDaily ==
  ASSUME Access!AccessControlAssumption, Daily, [Access!Next]_(Access!vars)  PROVE Daily'
<1>1. CASE UNCHANGED <<count, use>> /\ Access!TypeOK'
  BY <1>1 DEF Daily, Held, RequestFits, Blameless, Access!Metered, Access!WithinLimit
<1>2. CASE Access!NextDay
  <2>1. Access!TypeOK'  BY <1>2
       DEF Access!NextDay, Daily, Access!TypeOK, Access!Days, Access!AccessControlAssumption
  <2> QED BY <1>1, <1>2, <2>1 DEF Access!NextDay
<1>3. CASE \E s \in Settings : Access!SaveSettings(s)
  <2>1. Access!TypeOK'  BY <1>3
       DEF Access!SaveSettings, Daily, Access!TypeOK, Access!AccessControlAssumption
  <2> QED BY <1>1, <1>3, <2>1 DEF Access!SaveSettings
<1>4. CASE UNCHANGED Access!vars
  <2>1. Access!TypeOK'  BY <1>4 DEF Access!vars, Daily, Access!TypeOK
  <2> QED BY <1>1, <1>4, <2>1 DEF Access!vars
<1>5. CASE \E r \in Logins, c \in Clients \cup {None} : Access!Begin(r, c)  BY <1>5, BeginDaily
<1>6. CASE \E r \in Logins : Access!CheckLists(r)  BY <1>6, CheckListsDaily
<1>7. CASE \E r \in Logins : Access!ReadCount(r)  BY <1>7, ReadCountDaily
<1>8. CASE \E r \in Logins : Access!WriteCount(r)  BY <1>8, WriteCountDaily
<1>9. CASE \E r \in Logins : Access!Kill(r)  BY <1>9, KillDaily
<1> QED BY <1>2, <1>3, <1>4, <1>5, <1>6, <1>7, <1>8, <1>9 DEF Access!Next

LEMMA InitDaily ==
  ASSUME Access!AccessControlAssumption, Access!Init
  PROVE  Daily
<1>0. 1 \in Access!Days  BY DEF Access!Days, Access!AccessControlAssumption
<1>1. Access!Idle \in RequestRecord /\ RequestFits(Access!Idle) /\ ~Access!Idle.metered
  BY <1>0 DEF Access!Idle, RequestRecord, RequestFits, Access!Statuses
<1>2. use = [r \in Logins |-> Access!Idle]  BY DEF Access!Init
<1> HIDE DEF Access!Idle
<1>3. use \in [Logins -> RequestRecord]  BY <1>1, <1>2
<1>7. 1 \in Access!Days /\ 0 \in 0..MaxSaves  BY DEF Access!Days, Access!AccessControlAssumption
<1>4. Access!TypeOK  BY <1>3, <1>7 DEF Access!Init, Access!TypeOK, RequestRecord
<1>5. \A r \in Logins : RequestFits(use[r])  BY <1>1, <1>2
<1>6. ASSUME NEW c \in Clients, NEW d \in Access!Days  PROVE Held(c, d)
  <2>1. Access!Metered(c, d) = {}  BY <1>1, <1>2 DEF Access!Metered
  <2>2. count[<<c, d>>] = 0  BY DEF Access!Init
  <2>3. Cardinality({}) = 0  BY FS_EmptySet
  <2>4. Cardinality(Access!Metered(c, d)) <= count[<<c, d>>]  BY <2>1, <2>2, <2>3
  <2>5. Access!WithinLimit(c, d)  BY <2>1 DEF Access!WithinLimit
  <2> QED BY <2>4, <2>5 DEF Held
<1> QED BY <1>4, <1>5, <1>6 DEF Daily

\* The daily limit is kept by those that have no excuse.
LEMMA DailyIsHeld ==
  ASSUME Daily  PROVE Access!DailyHeld
BY DEF Daily, Held, Blameless, Access!DailyHeld

\* The daily limit of a client is kept as long as no request of it is overtaken between
\* reading and writing the count and KV serves it, past midnight, after requests that
\* were killed and under limits that change (checkDailyLimit).
THEOREM DailyLimitHolds ==
  Access!AccessControlAssumption => (Access!Spec => []DailyHeld)
<1> SUFFICES ASSUME Access!AccessControlAssumption  PROVE Access!Spec => []DailyHeld
  OBVIOUS
<1>1. Access!Init => Daily  BY InitDaily
<1>2. Daily /\ [Access!Next]_(Access!vars) => Daily'  BY NextDaily
<1>3. Daily => DailyHeld  BY DailyIsHeld DEF DailyHeld
<1> QED BY <1>1, <1>2, <1>3, PTL DEF Access!Spec
=============================================================================
