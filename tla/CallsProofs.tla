------------------------------ MODULE CallsProofs ------------------------------
(***************************************************************************)
(* Voice calls, for any number of devices, calls, connections and lost     *)
(* sockets: who holds a microphone agreed to the call, nothing is left     *)
(* open behind it, two who talk are in the same call, and a call ends only *)
(* because it was given up.  The devices excepted are those whose call     *)
(* ended inside an await of start() or accept().                           *)
(***************************************************************************)
EXTENDS Calls, TLAPS

Mics == {"startMic", "acceptMic"}
Ices == {"startIce", "acceptIce"}
OnlyTask(a) == [NoTasks EXCEPT ![a] = 1]

\* A manager whose calls never ended inside an await: s, with suspended calls t, of a
\* user who accepted the calls mine.
TidyManager(s, t, mine) ==
  /\ ~s.leak
  /\ ~Busy(s) \/ s.phase = "incoming" => s.track = "none" /\ t = NoTasks /\ s.pc = None
  /\ s.phase = "incoming" => ~s.muted
  /\ Busy(s) => s.call # None
  /\ Busy(s) /\ s.phase # "incoming" => s.outgoing \/ s.call \in mine
  /\ s.phase = "active" => s.pc # None
  /\ s.muted /\ ~s.eager => s.track # "on"
  /\ s.call # None /\ s.offer # NoOffer => s.offer.call = s.call
  /\ \/ t = NoTasks
     \/ \E a \in Mics : /\ t = OnlyTask(a) /\ s.track = "none" /\ s.pc = None
                        /\ s.muted => s.eager
     \/ \E a \in Ices : t = OnlyTask(a) /\ s.track # "none" /\ s.pc = None

\* If p is the connection of its owner's call, then that call is c.
IsOf(p, c) ==
  LET d == pcs[p].owner IN d \notin overtaken /\ dev[d].pc = p => dev[d].call = c

\* d has heard of p as the connection of somebody else in call c.
Claims(d, p, c) == p \in 1 .. made /\ Owner[pcs[p].owner] # Owner[d] /\ IsOf(p, c)

\* What a message says of its sender's connection and of the call it ends.
Honest(s, m) ==
  m.type \in {"offer", "answer"} =>
    m.pc \in 1 .. made /\ pcs[m.pc].owner = s /\ IsOf(m.pc, m.call)
GivenUp(m, calls) == m.type \in {"end", "reject", "busy"} => m.call \in calls

Held(w, s, e) == {w[s][e][i] : i \in DOMAIN w[s][e]}
Wires == [Devices -> [Devices -> Seq(Message)]]

WireOK == \A s, e \in Devices : \A m \in Held(wire, s, e) : Honest(s, m) /\ GivenUp(m, quit)

ManagerOK(d) ==
  /\ dev[d].pc # None => dev[d].pc \in 1 .. made /\ pcs[dev[d].pc].owner = d
  /\ dev[d].phase = "incoming" => dev[d].call # None
  /\ dev[d].offer # NoOffer => Claims(d, dev[d].offer.pc, dev[d].offer.call)

SoundOK(d) ==
  /\ TidyManager(dev[d], todo[d], accepted[d])
  /\ \A p \in 1 .. made : pcs[p].open /\ pcs[p].owner = d => dev[d].pc = p
  /\ dev[d].pc # None => \/ pcs[dev[d].pc].remote = None
                         \/ Claims(d, pcs[dev[d].pc].remote, dev[d].call)

CallsInv ==
  /\ CallTypeOK /\ WireOK
  /\ \A d \in Devices : ManagerOK(d)
  /\ \A d \in Devices \ overtaken : SoundOK(d)

-----------------------------------------------------------------------------
\* A step is one device's: its manager becomes s.

ManagerStep(d, s) ==
  /\ s \in Manager /\ dev' = [dev EXCEPT ![d] = s]
  /\ s.pc # None => s.pc \in 1 .. made' /\ pcs'[s.pc].owner = d
  /\ s.phase = "incoming" => s.call # None
  /\ s.offer # NoOffer => Claims(d, s.offer.pc, s.offer.call)

TaskStep(d) ==
  /\ todo' \in [Devices -> [Awaits -> Nat]] /\ accepted' \in [Devices -> SUBSET Calls]
  /\ \A e \in Devices \ {d} : todo'[e] = todo[e] /\ accepted'[e] = accepted[e]

\* Only its own connections change, and they stay its own.
PcStep(d, table, n) ==
  /\ n \in 0 .. MaxPcs /\ made <= n
  /\ table \in [Pcs -> Connection \cup {Unmade}]
  /\ \A p \in Pcs : (p \in 1 .. n) <=> (table[p] \in Connection)
  /\ \A p \in 1 .. made : table[p].owner = pcs[p].owner
  /\ \A p \in 1 .. n : table[p].owner # d => p \in 1 .. made /\ table[p] = pcs[p]

Sends(w, d, calls) ==
  /\ w \in Wires
  /\ \A s, e \in Devices : \A m \in Held(w, s, e) :
       m \in Held(wire, s, e) \/ (s = d /\ Honest(d, m) /\ GivenUp(m, calls))

MarkStep ==
  /\ quit \subseteq quit' /\ quit' \in SUBSET Calls
  /\ overtaken \subseteq overtaken' /\ overtaken' \in SUBSET Devices

CountsOK ==
  /\ online \in SUBSET Devices
  /\ placed \in 0 .. MaxCalls /\ drops \in 0 .. MaxDrops /\ toggles \in 0 .. MaxToggles

SoundStep(d, s) ==
  /\ TidyManager(s, todo'[d], accepted'[d])
  /\ s.pc \in 1 .. made => s.pc = dev[d].pc /\ s.call = dev[d].call
  /\ \A p \in 1 .. made' : pcs'[p].open /\ pcs'[p].owner = d => s.pc = p
  /\ s.pc # None => pcs'[s.pc].remote = None \/ Claims(d, pcs'[s.pc].remote, s.call)

StepOf(d, s) ==
  /\ ManagerStep(d, s) /\ TaskStep(d) /\ PcStep(d, pcs', made')
  /\ Sends(wire', d, quit') /\ MarkStep /\ CountsOK'
  /\ d \notin overtaken' => SoundStep(d, s)

LEMMA Assumed ==
  /\ None \notin Devices
  /\ MaxCalls \in Nat /\ MaxPcs \in Nat /\ MaxDrops \in Nat /\ MaxToggles \in Nat
BY CallAssumption DEF CallAssumption

\* What is known of a connection stays true.
LEMMA IsOfStays ==
  ASSUME CallsInv, NEW d \in Devices, NEW s, StepOf(d, s), NEW p \in 1 .. made, NEW c, IsOf(p, c)
  PROVE  IsOf(p, c)'
<1>1. pcs'[p].owner = pcs[p].owner
  BY DEF StepOf, PcStep
<1>2. pcs[p].owner \in Devices
  BY Assumed DEF CallsInv, CallTypeOK, Connection, Pcs
<1>3. SUFFICES ASSUME pcs[p].owner \notin overtaken', dev'[pcs[p].owner].pc = p
               PROVE  dev'[pcs[p].owner].call = c
  BY <1>1 DEF IsOf
<1>4. pcs[p].owner \notin overtaken
  BY <1>3 DEF StepOf, MarkStep
<1>5. CASE pcs[p].owner = d
  <2>1. dev'[d] = s /\ s.pc = p
    BY <1>3, <1>5 DEF StepOf, ManagerStep, CallsInv, CallTypeOK
  <2>2. s.pc = dev[d].pc /\ s.call = dev[d].call
    BY <1>3, <1>5, <2>1 DEF StepOf, SoundStep
  <2> QED BY <1>4, <1>5, <2>1, <2>2 DEF IsOf
<1>6. CASE pcs[p].owner # d
  <2>1. dev'[pcs[p].owner] = dev[pcs[p].owner]
    BY <1>2, <1>6 DEF StepOf, ManagerStep, CallsInv, CallTypeOK
  <2> QED BY <1>3, <1>4, <2>1 DEF IsOf
<1> QED BY <1>5, <1>6

LEMMA ClaimsStay ==
  ASSUME CallsInv, NEW d \in Devices, NEW s, StepOf(d, s), NEW e, NEW p, NEW c, Claims(e, p, c)
  PROVE  Claims(e, p, c)'
<1>1. p \in 1 .. made /\ IsOf(p, c) /\ Owner[pcs[p].owner] # Owner[e]
  BY DEF Claims
<1>2. IsOf(p, c)'
  BY <1>1, IsOfStays
<1>3. p \in 1 .. made'
  BY <1>1 DEF StepOf, PcStep, CallsInv, CallTypeOK
<1>4. pcs'[p].owner = pcs[p].owner
  BY <1>1 DEF StepOf, PcStep
<1> QED BY <1>1, <1>2, <1>3, <1>4 DEF Claims

LEMMA HonestStays ==
  ASSUME CallsInv, NEW d \in Devices, NEW s, StepOf(d, s), NEW e, NEW m, Honest(e, m)
  PROVE  Honest(e, m)'
<1>1. SUFFICES ASSUME m.type \in {"offer", "answer"}
               PROVE  m.pc \in 1 .. made' /\ pcs'[m.pc].owner = e /\ IsOf(m.pc, m.call)'
  BY DEF Honest
<1>2. m.pc \in 1 .. made /\ IsOf(m.pc, m.call) /\ pcs[m.pc].owner = e
  BY <1>1 DEF Honest
<1>3. IsOf(m.pc, m.call)'
  BY <1>2, IsOfStays
<1>4. m.pc \in 1 .. made' /\ pcs'[m.pc].owner = pcs[m.pc].owner
  BY <1>2 DEF StepOf, PcStep, CallsInv, CallTypeOK
<1> QED BY <1>2, <1>3, <1>4

\* Such a step preserves the invariant.
LEMMA StepKeepsInv ==
  ASSUME CallsInv, NEW d \in Devices, NEW s, StepOf(d, s)
  PROVE  CallsInv'
<1>1. dev' \in [Devices -> Manager] /\ dev'[d] = s
      /\ \A e \in Devices \ {d} : dev'[e] = dev[e]
  BY DEF StepOf, ManagerStep, CallsInv, CallTypeOK
<1>2. CallTypeOK'
  BY <1>1 DEF StepOf, TaskStep, PcStep, Sends, Wires, MarkStep, CountsOK, CallTypeOK
<1>3. WireOK'
  <2>1. SUFFICES ASSUME NEW a \in Devices, NEW e \in Devices, NEW m \in Held(wire', a, e)
                 PROVE  Honest(a, m)' /\ GivenUp(m, quit')
    BY DEF WireOK, GivenUp
  <2>2. CASE m \in Held(wire, a, e)
    <3>1. Honest(a, m) /\ GivenUp(m, quit)
      BY <2>2 DEF CallsInv, WireOK
    <3> QED BY <3>1, HonestStays DEF GivenUp, StepOf, MarkStep
  <2>3. CASE a = d /\ Honest(d, m) /\ GivenUp(m, quit')
    BY <2>3, HonestStays
  <2> QED BY <2>1, <2>2, <2>3 DEF StepOf, Sends
<1>4. ASSUME NEW e \in Devices PROVE ManagerOK(e)'
  <2>1. CASE e = d
    <3>1. s.offer # NoOffer => Claims(d, s.offer.pc, s.offer.call)'
      BY ClaimsStay DEF StepOf, ManagerStep
    <3> QED BY <1>1, <2>1, <3>1 DEF StepOf, ManagerStep, ManagerOK
  <2>2. CASE e # d
    <3>1. dev'[e] = dev[e] /\ ManagerOK(e)
      BY <1>1, <2>2 DEF CallsInv
    <3>2. dev[e].offer # NoOffer => Claims(e, dev[e].offer.pc, dev[e].offer.call)'
      BY <3>1, ClaimsStay DEF ManagerOK
    <3>3. \A p \in 1 .. made : p \in 1 .. made' /\ pcs'[p].owner = pcs[p].owner
      BY DEF StepOf, PcStep, CallsInv, CallTypeOK
    <3> QED BY <3>1, <3>2, <3>3 DEF ManagerOK
  <2> QED BY <2>1, <2>2
<1>5. ASSUME NEW e \in Devices \ overtaken' PROVE SoundOK(e)'
  <2>1. CASE e = d
    <3>1. SoundStep(d, s)
      BY <1>5, <2>1 DEF StepOf
    <3>2. \A q : s.pc # None /\ q = pcs'[s.pc].remote /\ q # None => Claims(d, q, s.call)'
      BY <3>1, ClaimsStay DEF SoundStep
    <3> QED BY <1>1, <2>1, <3>1, <3>2 DEF SoundStep, SoundOK, Claims, IsOf
  <2>2. CASE e # d
    <3>1. dev'[e] = dev[e] /\ todo'[e] = todo[e] /\ accepted'[e] = accepted[e]
      BY <1>1, <2>2 DEF StepOf, TaskStep
    <3>2. SoundOK(e) /\ ManagerOK(e)
      BY <1>5 DEF CallsInv, StepOf, MarkStep
    <3>3. \A p \in 1 .. made' : pcs'[p].owner = e => p \in 1 .. made /\ pcs'[p] = pcs[p]
      BY <2>2 DEF StepOf, PcStep
    <3>4. TidyManager(dev'[e], todo'[e], accepted'[e])
      BY <3>1, <3>2 DEF SoundOK
    <3>5. \A p \in 1 .. made' : pcs'[p].open /\ pcs'[p].owner = e => dev'[e].pc = p
      BY <3>1, <3>2, <3>3 DEF SoundOK
    <3>6. ASSUME NEW p, p = dev[e].pc, p # None, NEW q, q = pcs'[p].remote, q # None,
                 NEW c, c = dev[e].call
          PROVE  Claims(e, q, c)'
      <4>1. p \in 1 .. made /\ pcs[p].owner = e
        BY <3>2, <3>6 DEF ManagerOK
      <4>2. p \in 1 .. made' /\ pcs'[p] = pcs[p]
        <5>1. p \in 1 .. made' /\ pcs'[p].owner = e
          BY <4>1 DEF StepOf, PcStep, CallsInv, CallTypeOK
        <5> QED BY <3>3, <5>1
      <4>3. Claims(e, q, c)
        BY <3>2, <3>6, <4>2 DEF SoundOK
      <4> QED BY <4>3, ClaimsStay
    <3>7. dev'[e].pc # None => \/ pcs'[dev'[e].pc].remote = None
                               \/ Claims(e, pcs[dev[e].pc].remote, dev[e].call)'
      BY <3>1, <3>6 DEF Claims, IsOf
    <3> QED BY <3>4, <3>5, <3>7 DEF SoundOK
  <2> QED BY <2>1, <2>2
<1> QED BY <1>2, <1>3, <1>4, <1>5 DEF CallsInv

-----------------------------------------------------------------------------
\* Managers.

\* They differ at most in their timers and in remoteSet.
Alike(r, s) ==
  /\ r.phase = s.phase /\ r.call = s.call /\ r.outgoing = s.outgoing /\ r.muted = s.muted
  /\ r.eager = s.eager /\ r.track = s.track /\ r.leak = s.leak /\ r.pc = s.pc
  /\ r.offer = s.offer

LEMMA AlikeTidy ==
  ASSUME NEW r, NEW s, NEW t, NEW mine, Alike(r, s), TidyManager(s, t, mine)
  PROVE  TidyManager(r, t, mine)
BY DEF Alike, TidyManager, Busy

LEMMA TimersAlike ==
  ASSUME NEW s \in Manager, NEW t \in Timers
  PROVE  /\ SetTimeout(s, t) \in Manager /\ Alike(SetTimeout(s, t), s)
         /\ ClearTimeout(s) \in Manager /\ Alike(ClearTimeout(s), s)
         /\ [s EXCEPT !.remoteSet = TRUE] \in Manager /\ Alike([s EXCEPT !.remoteSet = TRUE], s)
         /\ [s EXCEPT !.strays = @ \ {t}] \in Manager /\ Alike([s EXCEPT !.strays = @ \ {t}], s)
<1>1. SetTimeout(s, t) \in Manager
  BY DEF SetTimeout, Manager
<1>2. Alike(SetTimeout(s, t), s)
  BY DEF SetTimeout, Manager, Alike
<1>3. ClearTimeout(s) \in Manager /\ Alike(ClearTimeout(s), s)
  BY DEF ClearTimeout, Manager, Alike
<1>4. [s EXCEPT !.remoteSet = TRUE] \in Manager /\ Alike([s EXCEPT !.remoteSet = TRUE], s)
  BY DEF Manager, Alike
<1>5. [s EXCEPT !.strays = @ \ {t}] \in Manager /\ Alike([s EXCEPT !.strays = @ \ {t}], s)
  BY DEF Manager, Alike
<1> QED BY <1>1, <1>2, <1>3, <1>4, <1>5

\* The end of call_answer's handler, and of answering: two timers one after the other.
LEMMA AnsweredAlike ==
  ASSUME NEW s \in Manager
  PROVE  Answered(s) \in Manager /\ Alike(Answered(s), s)
<1> DEFINE r == [s EXCEPT !.remoteSet = TRUE]
           q == ClearTimeout(r)
<1>1. "connect" \in Timers
  BY DEF Timers
<1>2. r \in Manager /\ Alike(r, s)
  BY <1>1, TimersAlike
<1>3. Answered(s) = SetTimeout(q, "connect")
  BY DEF Answered
<1>4. q \in Manager /\ Alike(q, r)
  <2> HIDE DEF r
  <2> QED BY <1>1, <1>2, TimersAlike
<1> HIDE DEF r, q
<1>5. SetTimeout(q, "connect") \in Manager /\ Alike(SetTimeout(q, "connect"), q)
  BY <1>1, <1>4, TimersAlike
<1> QED BY <1>2, <1>3, <1>4, <1>5 DEF Alike

LEMMA FinishManager ==
  ASSUME NEW s \in Manager
  PROVE  /\ Finish(s) \in Manager
         /\ Finish(s).call = s.call /\ Finish(s).offer = s.offer
         /\ Busy(s) => Finish(s).phase = "ended" /\ Finish(s).pc = None
         /\ ~Busy(s) => Finish(s) = s
         /\ \A mine : TidyManager(s, NoTasks, mine) => TidyManager(Finish(s), NoTasks, mine)
<1>1. CASE Busy(s)
  <2>1. Finish(s) = [Teardown(s) EXCEPT !.timer = "none", !.phase = "ended"]
    BY <1>1 DEF Finish
  <2>2. /\ Finish(s) \in Manager
        /\ Finish(s).call = s.call /\ Finish(s).offer = s.offer /\ Finish(s).phase = "ended"
        /\ Finish(s).pc = None /\ Finish(s).track = "none" /\ Finish(s).leak = s.leak
    BY <2>1 DEF Teardown, Manager, Phases
  <2>3. ~Busy(Finish(s))
    BY <2>2 DEF Busy
  <2> QED BY <1>1, <2>2, <2>3 DEF TidyManager
<1>2. CASE ~Busy(s)
  BY <1>2 DEF Finish
<1> QED BY <1>1, <1>2

\* What start() and an offer begin with.
LEMMA ResetManager ==
  ASSUME NEW s \in Manager
  PROVE  /\ InitialState(Reset(s)) \in Manager
         /\ InitialState(Reset(s)).leak = s.leak
         /\ ~InitialState(Reset(s)).muted /\ ~InitialState(Reset(s)).eager
         /\ InitialState(Reset(s)).track = "none" /\ InitialState(Reset(s)).pc = None
         /\ InitialState(Reset(s)).offer = NoOffer
<1> DEFINE r == Reset(s)
<1>1. /\ r \in Manager /\ r.leak = s.leak /\ r.track = "none" /\ r.pc = None /\ r.offer = NoOffer
  BY DEF Reset, Teardown, Manager, NoOffer, Offer
<1> HIDE DEF r
<1>2. InitialState(r) \in Manager
  <2>1. "idle" \in Phases /\ None \in Calls \cup {None} /\ FALSE \in BOOLEAN
    BY DEF Phases
  <2> DEFINE q == [r EXCEPT !.phase = "idle", !.call = None, !.outgoing = FALSE]
  <2>2. q \in Manager
    BY <1>1, <2>1 DEF Manager
  <2>3. InitialState(r) = [q EXCEPT !.muted = FALSE, !.eager = FALSE]
    BY DEF InitialState
  <2> HIDE DEF q
  <2>4. [q EXCEPT !.muted = FALSE, !.eager = FALSE] \in Manager
    BY <2>1, <2>2 DEF Manager
  <2> QED BY <2>3, <2>4
<1>3. /\ InitialState(r).leak = r.leak /\ InitialState(r).track = r.track
      /\ InitialState(r).pc = r.pc /\ InitialState(r).offer = r.offer
      /\ InitialState(r).muted = FALSE /\ InitialState(r).eager = FALSE
  BY <1>1 DEF InitialState, Manager
<1> QED BY <1>1, <1>2, <1>3 DEF r

-----------------------------------------------------------------------------
\* Connections.

LEMMA SamePcs ==
  ASSUME CallsInv, NEW d \in Devices
  PROVE  PcStep(d, pcs, made)
BY Assumed DEF CallsInv, CallTypeOK, PcStep

LEMMA SetPc ==
  ASSUME CallsInv, NEW d \in Devices, NEW table, NEW n, PcStep(d, table, n), NEW p \in 1 .. n,
         table[p].owner = d, NEW row \in Connection, row.owner = d
  PROVE  PcStep(d, [table EXCEPT ![p] = row], n)
<1>1. n \in Nat /\ n <= MaxPcs /\ p \in Pcs /\ made \in Nat
  BY Assumed DEF PcStep, Pcs, CallsInv, CallTypeOK
<1> DEFINE after == [table EXCEPT ![p] = row]
<1>2. after \in [Pcs -> Connection \cup {Unmade}]
  BY DEF PcStep
<1>3. \A x \in Pcs : after[x] = IF x = p THEN row ELSE table[x]
  BY DEF PcStep
<1>4. 1 .. made \subseteq Pcs /\ 1 .. n \subseteq Pcs
  BY <1>1, Assumed DEF Pcs, PcStep
<1> HIDE DEF after
<1>5. PcStep(d, after, n)
  BY <1>1, <1>2, <1>3, <1>4 DEF PcStep
<1> QED BY <1>5 DEF after

LEMMA ClosePc ==
  ASSUME CallsInv, NEW d \in Devices, NEW table, NEW n, PcStep(d, table, n),
         NEW p, p # None => p \in 1 .. n /\ table[p].owner = d
  PROVE  /\ PcStep(d, CloseIn(table, p), n)
         /\ \A x \in 1 .. n : /\ CloseIn(table, p)[x].owner = table[x].owner
                              /\ CloseIn(table, p)[x].remote = table[x].remote
                              /\ CloseIn(table, p)[x].open => table[x].open /\ x # p
<1>1. CASE p = None
  BY <1>1 DEF CloseIn, None
<1>2. CASE p # None
  <2> DEFINE row == [table[p] EXCEPT !.open = FALSE, !.op = "none"]
  <2>1. p \in 1 .. n /\ table[p].owner = d /\ table[p] \in Connection /\ n \in Nat /\ n <= MaxPcs
    BY <1>2, Assumed DEF PcStep, Pcs
  <2>2. /\ row \in Connection /\ row.owner = d /\ row.remote = table[p].remote /\ row.open = FALSE
    BY <2>1 DEF Connection
  <2>3. CloseIn(table, p) = [table EXCEPT ![p] = row]
    BY <1>2 DEF CloseIn
  <2> HIDE DEF row
  <2>4. PcStep(d, [table EXCEPT ![p] = row], n)
    BY <2>1, <2>2, SetPc
  <2>5. DOMAIN table = Pcs /\ p \in Pcs
    BY <2>1, Assumed DEF PcStep, Pcs
  <2> QED BY <2>1, <2>2, <2>3, <2>4, <2>5
<1> QED BY <1>1, <1>2

-----------------------------------------------------------------------------
\* The wire.

LEMMA SendsNothing ==
  ASSUME CallsInv, NEW d \in Devices, NEW calls
  PROVE  Sends(wire, d, calls)
BY DEF Sends, CallsInv, CallTypeOK, Wires

LEMMA SendsTaken ==
  ASSUME CallsInv, NEW d \in Devices, NEW calls, NEW s \in Devices, NEW e \in Devices,
         wire[s][e] # << >>
  PROVE  /\ Sends(Taken(s, e), d, calls)
         /\ Msg(s, e) \in Message /\ Honest(s, Msg(s, e)) /\ GivenUp(Msg(s, e), quit)
<1>1. wire \in Wires /\ wire[s][e] \in Seq(Message)
  BY DEF CallsInv, CallTypeOK, Wires
<1>2. Tail(wire[s][e]) \in Seq(Message) /\ Msg(s, e) \in Message
  BY <1>1 DEF Msg
<1>3. Msg(s, e) \in Held(wire, s, e)
  BY <1>1 DEF Msg, Held
<1>4. \A m : m \in {Tail(wire[s][e])[i] : i \in DOMAIN Tail(wire[s][e])} => m \in Held(wire, s, e)
  BY <1>1 DEF Held
<1>5. Taken(s, e) \in Wires
  BY <1>1, <1>2 DEF Taken, Wires
<1>6. \A a, b \in Devices : Taken(s, e)[a][b] = IF a = s /\ b = e THEN Tail(wire[s][e]) ELSE wire[a][b]
  BY <1>1 DEF Taken, Wires
<1>7. ASSUME NEW a \in Devices, NEW b \in Devices
      PROVE  \A m \in Held(Taken(s, e), a, b) : m \in Held(wire, a, b)
  <2>1. CASE a = s /\ b = e
    <3>1. Taken(s, e)[a][b] = Tail(wire[s][e])
      BY <1>6, <2>1
    <3>2. Held(Taken(s, e), a, b) = {Tail(wire[s][e])[i] : i \in DOMAIN Tail(wire[s][e])}
      BY <3>1 DEF Held
    <3> QED BY <1>4, <2>1, <3>2
  <2>2. CASE ~(a = s /\ b = e)
    <3>1. Taken(s, e)[a][b] = wire[a][b]
      BY <1>6, <2>2
    <3> QED BY <3>1 DEF Held
  <2> QED BY <2>1, <2>2
<1> QED BY <1>2, <1>3, <1>5, <1>7 DEF Sends, CallsInv, WireOK

LEMMA SendsUnplugged ==
  ASSUME CallsInv, NEW d \in Devices, NEW calls, NEW w, Sends(w, d, calls), NEW e \in Devices
  PROVE  Sends(Unplugged(w, e), d, calls)
<1>1. w \in Wires
  BY DEF Sends
<1>2. << >> \in Seq(Message)
  OBVIOUS
<1>3. Unplugged(w, e) \in Wires
  BY <1>1, <1>2 DEF Unplugged, Wires
<1>4. \A a, b \in Devices : Unplugged(w, e)[a][b] = IF b = e THEN << >> ELSE w[a][b]
  BY <1>1 DEF Unplugged, Wires
<1>5. \A a, b \in Devices : \A m \in Held(Unplugged(w, e), a, b) : m \in Held(w, a, b)
  BY <1>4 DEF Held
<1> QED BY <1>3, <1>5 DEF Sends

LEMMA PostHolds ==
  ASSUME NEW w \in Wires, NEW d \in Devices, NEW to, NEW m \in Message
  PROVE  /\ Post(w, d, to, m) \in Wires
         /\ \A s, e \in Devices : \A x \in Held(Post(w, d, to, m), s, e) :
              x \in Held(w, s, e) \/ (s = d /\ x = m)
<1>1. \A s, e \in Devices : w[s][e] \in Seq(Message) /\ Append(w[s][e], m) \in Seq(Message)
  BY DEF Wires
<1>2. Post(w, d, to, m) \in Wires
  BY <1>1 DEF Post, Wires
<1>3. \A s, e \in Devices : Post(w, d, to, m)[s][e] =
        IF s = d /\ e \in to THEN Append(w[s][e], m) ELSE w[s][e]
  BY DEF Post, Wires
<1>4. ASSUME NEW s \in Devices, NEW e \in Devices, NEW i \in DOMAIN Append(w[s][e], m)
      PROVE  Append(w[s][e], m)[i] = m \/ Append(w[s][e], m)[i] \in Held(w, s, e)
  BY <1>1, <1>4 DEF Held
<1>5. ASSUME NEW s \in Devices, NEW e \in Devices, NEW x \in Held(Post(w, d, to, m), s, e)
      PROVE  x \in Held(w, s, e) \/ (s = d /\ x = m)
  <2>1. PICK i \in DOMAIN Post(w, d, to, m)[s][e] : x = Post(w, d, to, m)[s][e][i]
    BY <1>5 DEF Held
  <2>2. CASE s = d /\ e \in to
    <3>1. Post(w, d, to, m)[s][e] = Append(w[s][e], m)
      BY <1>3, <2>2
    <3> QED BY <1>4, <2>1, <2>2, <3>1
  <2>3. CASE ~(s = d /\ e \in to)
    <3>1. Post(w, d, to, m)[s][e] = w[s][e]
      BY <1>3, <2>3
    <3> QED BY <2>1, <3>1 DEF Held
  <2> QED BY <2>2, <2>3
<1> QED BY <1>2, <1>5

\* What the sender says truly is relayed truly.
LEMMA SendsRelayed ==
  ASSUME NEW d \in Devices, NEW calls, NEW w, Sends(w, d, calls), NEW m \in Message,
         Honest(d, m), GivenUp(m, calls)
  PROVE  Sends(Relay(w, d, m), d, calls)
<1> DEFINE back == [m EXCEPT !.type = "unavailable"]
<1>1. w \in Wires
  BY DEF Sends
<1>2. back \in Message /\ Honest(d, back) /\ GivenUp(back, calls)
  BY DEF Message, Kinds, Honest, GivenUp
<1>3. ASSUME NEW x \in Message, Honest(d, x), GivenUp(x, calls), NEW to
      PROVE  Sends(Post(w, d, to, x), d, calls)
  BY <1>1, <1>3, PostHolds DEF Sends
<1> HIDE DEF back
<1>4. Relay(w, d, m) = w \/ (\E to : Relay(w, d, m) = Post(w, d, to, m) \/ Relay(w, d, m) = Post(w, d, to, back))
  BY DEF Relay, back
<1> QED BY <1>2, <1>3, <1>4

LEMMA SendsSent ==
  ASSUME CallsInv, NEW d \in Devices, NEW calls, NEW w, Sends(w, d, calls),
         NEW type \in Kinds, NEW pc \in Pcs \cup {None}, NEW for \in Pcs \cup {None},
         type \in {"offer", "answer"} => pc \in 1 .. made /\ pcs[pc].owner = d,
         type \in {"end", "reject", "busy"} /\ dev[d].call # None => dev[d].call \in calls
  PROVE  Sends(Send(w, d, type, pc, for), d, calls)
<1> DEFINE m == [type |-> type, call |-> dev[d].call, pc |-> pc, for |-> for]
<1>1. CASE dev[d].call = None
  BY <1>1 DEF Send
<1>2. CASE dev[d].call # None
  <2>1. dev[d].call \in Calls
    BY <1>2 DEF CallsInv, CallTypeOK, Manager
  <2>2. m \in Message
    BY <2>1 DEF Message
  <2>3. Honest(d, m) /\ GivenUp(m, calls)
    BY <1>2 DEF Honest, GivenUp, IsOf
  <2>4. Send(w, d, type, pc, for) = Relay(w, d, m)
    BY <1>2 DEF Send
  <2> HIDE DEF m
  <2> QED BY <2>2, <2>3, <2>4, SendsRelayed
<1> QED BY <1>1, <1>2

-----------------------------------------------------------------------------
\* Steps that leave parts alone.

LEMMA SameTasks ==
  ASSUME CallsInv, UNCHANGED <<todo, accepted>>, NEW d \in Devices
  PROVE  TaskStep(d)
BY DEF TaskStep, CallsInv, CallTypeOK

LEMMA SameMarks ==
  ASSUME CallsInv, UNCHANGED <<quit, overtaken>>
  PROVE  MarkStep
BY DEF MarkStep, CallsInv, CallTypeOK

LEMMA SameCounts ==
  ASSUME CallsInv, UNCHANGED <<online, placed, drops, toggles>>
  PROVE  CountsOK'
BY DEF CountsOK, CallsInv, CallTypeOK

LEMMA SameManager ==
  ASSUME CallsInv, NEW d \in Devices, UNCHANGED <<dev, made, pcs>>
  PROVE  ManagerStep(d, dev[d])
<1>1. dev[d] \in Manager /\ ManagerOK(d) /\ dev' = [dev EXCEPT ![d] = dev[d]]
  BY DEF CallsInv, CallTypeOK
<1> QED BY <1>1 DEF ManagerStep, ManagerOK

\* Managers that differ in their timers are as good as each other.
LEMMA AlikeManager ==
  ASSUME CallsInv, NEW d \in Devices, NEW s \in Manager, Alike(s, dev[d]),
         dev' = [dev EXCEPT ![d] = s], PcStep(d, pcs', made')
  PROVE  ManagerStep(d, s)
<1>1. ManagerOK(d)
  BY DEF CallsInv
<1>2. \A p \in 1 .. made : p \in 1 .. made' /\ pcs'[p].owner = pcs[p].owner
  BY DEF PcStep, CallsInv, CallTypeOK
<1> QED BY <1>1, <1>2 DEF ManagerStep, ManagerOK, Alike

\* A step that changes no connection and no suspended call of a manager.
LEMMA AlikeSound ==
  ASSUME CallsInv, NEW d \in Devices, NEW s, Alike(s, dev[d]), d \notin overtaken,
         UNCHANGED <<todo, accepted, made>>,
         \A p \in 1 .. made : /\ pcs'[p].owner = pcs[p].owner
                              /\ pcs'[p].remote = pcs[p].remote
                              /\ pcs'[p].open => pcs[p].open
  PROVE  SoundStep(d, s)
<1>1. SoundOK(d) /\ ManagerOK(d)
  BY DEF CallsInv
<1>2. TidyManager(s, todo'[d], accepted'[d])
  BY <1>1, AlikeTidy DEF SoundOK
<1>3. \A p \in 1 .. made' : pcs'[p].open /\ pcs'[p].owner = d => s.pc = p
  BY <1>1 DEF SoundOK, Alike
<1>4. s.pc # None => pcs'[s.pc].remote = None \/ Claims(d, pcs'[s.pc].remote, s.call)
  <2>1. SUFFICES ASSUME s.pc # None
                 PROVE  pcs'[s.pc].remote = None \/ Claims(d, pcs'[s.pc].remote, s.call)
    OBVIOUS
  <2>2. s.pc = dev[d].pc /\ s.call = dev[d].call
    BY DEF Alike
  <2>3. pcs'[s.pc].remote = pcs[dev[d].pc].remote
    BY <1>1, <2>1, <2>2 DEF ManagerOK
  <2> QED BY <1>1, <2>1, <2>2, <2>3 DEF SoundOK
<1> QED BY <1>2, <1>3, <1>4 DEF SoundStep, Alike

LEMMA QuitsMarks ==
  ASSUME CallsInv, NEW d \in Devices, Quits(d)
  PROVE  /\ quit \subseteq quit' /\ quit' \in SUBSET Calls
         /\ dev[d].call # None => dev[d].call \in quit'
BY DEF Quits, CallsInv, CallTypeOK, Manager

\* finish(): the microphone, this.pc and the connection are closed together.
LEMMA FinishesStep ==
  ASSUME CallsInv, NEW d \in Devices, NEW s \in Manager, NEW w, NEW table,
         Finishes(d, s, w, table), PcStep(d, table, made'), CountsOK', Sends(w, d, quit'),
         todo' \in [Devices -> [Awaits -> Nat]],
         \A e \in Devices \ {d} : todo'[e] = todo[e],
         quit \subseteq quit', quit' \in SUBSET Calls,
         s.pc # None => s.pc \in 1 .. made' /\ table[s.pc].owner = d,
         s.phase = "incoming" => s.call # None,
         s.offer # NoOffer => Claims(d, s.offer.pc, s.offer.call),
         d \notin overtaken' =>
           /\ TidyManager(s, todo'[d], accepted[d])
           /\ \A p \in 1 .. made' : table[p].open /\ table[p].owner = d => s.pc = p
  PROVE  StepOf(d, Finish(s))
<1>1. /\ Finish(s) \in Manager
      /\ Finish(s).call = s.call /\ Finish(s).offer = s.offer
      /\ Busy(s) => Finish(s).phase = "ended" /\ Finish(s).pc = None
      /\ ~Busy(s) => Finish(s) = s
      /\ \A mine : TidyManager(s, NoTasks, mine) => TidyManager(Finish(s), NoTasks, mine)
  BY FinishManager
<1>2. /\ wire' = w /\ dev' = [dev EXCEPT ![d] = Finish(s)] /\ UNCHANGED accepted
      /\ pcs' = IF Busy(s) THEN CloseIn(table, s.pc) ELSE table
      /\ overtaken' = IF Busy(s) /\ todo'[d] # NoTasks THEN overtaken \cup {d} ELSE overtaken
  BY DEF Finishes
<1>3. /\ PcStep(d, CloseIn(table, s.pc), made')
      /\ \A x \in 1 .. made' : /\ CloseIn(table, s.pc)[x].owner = table[x].owner
                               /\ CloseIn(table, s.pc)[x].remote = table[x].remote
                               /\ CloseIn(table, s.pc)[x].open => table[x].open /\ x # s.pc
  BY ClosePc
<1>4. PcStep(d, pcs', made')
  BY <1>2, <1>3
<1>5. TaskStep(d)
  BY <1>2 DEF TaskStep, CallsInv, CallTypeOK
<1>6. MarkStep
  BY <1>2 DEF MarkStep, CallsInv, CallTypeOK
<1>7. ManagerStep(d, Finish(s))
  BY <1>1, <1>2 DEF ManagerStep
<1>8. ASSUME d \notin overtaken' PROVE SoundStep(d, Finish(s))
  <2>1. /\ TidyManager(s, todo'[d], accepted[d])
        /\ \A p \in 1 .. made' : table[p].open /\ table[p].owner = d => s.pc = p
    BY <1>8
  <2>2. CASE Busy(s)
    <3>1. todo'[d] = NoTasks
      BY <1>2, <1>8, <2>2
    <3>2. TidyManager(Finish(s), todo'[d], accepted'[d])
      BY <1>1, <1>2, <2>1, <3>1
    <3>3. \A p \in 1 .. made' : ~(pcs'[p].open /\ pcs'[p].owner = d)
      BY <1>2, <1>3, <2>1, <2>2
    <3>4. Finish(s).pc = None /\ None \notin 1 .. made
      BY <1>1, <2>2 DEF None
    <3> QED BY <3>2, <3>3, <3>4 DEF SoundStep
  <2>3. CASE ~Busy(s)
    <3>1. s.pc = None
      BY <2>1, <2>3 DEF TidyManager
    <3>2. Finish(s) = s /\ pcs' = table /\ None \notin 1 .. made
      BY <1>1, <1>2, <2>3 DEF None
    <3> QED BY <1>2, <2>1, <3>1, <3>2 DEF SoundStep
  <2> QED BY <2>2, <2>3
<1> QED BY <1>2, <1>4, <1>5, <1>6, <1>7, <1>8 DEF StepOf

\* The catch of start() and accept(), and hanging up, which tell the other side.
LEMMA QuitsStep ==
  ASSUME CallsInv, NEW d \in Devices, NEW s \in Manager, NEW w, NEW table, Quits(d),
         Finishes(d, s, w, table), PcStep(d, table, made'), CountsOK',
         Sends(w, d, quit'),
         todo' \in [Devices -> [Awaits -> Nat]],
         \A e \in Devices \ {d} : todo'[e] = todo[e],
         s.pc # None => s.pc \in 1 .. made' /\ table[s.pc].owner = d,
         s.phase = dev[d].phase, s.call = dev[d].call, s.offer = dev[d].offer,
         d \notin overtaken' =>
           /\ TidyManager(s, todo'[d], accepted[d])
           /\ \A p \in 1 .. made' : table[p].open /\ table[p].owner = d => s.pc = p
  PROVE  StepOf(d, Finish(s))
<1>1. quit \subseteq quit' /\ quit' \in SUBSET Calls
  BY QuitsMarks
<1>2. /\ s.phase = "incoming" => s.call # None
      /\ s.offer # NoOffer => Claims(d, s.offer.pc, s.offer.call)
  BY DEF CallsInv, ManagerOK
<1> QED BY <1>1, <1>2, FinishesStep

LEMMA SendsGivenUp ==
  ASSUME CallsInv, NEW d \in Devices, Quits(d), NEW type \in {"end", "reject"}
  PROVE  Sends(Send(wire, d, type, None, None), d, quit')
<1>1. /\ dev[d].call # None => dev[d].call \in quit'
      /\ type \in Kinds /\ None \in Pcs \cup {None} /\ type \notin {"offer", "answer"}
  BY QuitsMarks DEF Kinds
<1>2. Sends(wire, d, quit')
  BY SendsNothing
<1> QED BY <1>1, <1>2, SendsSent

\* An overtaken device stays one.
LEMMA NotOvertakenBefore ==
  ASSUME NEW d \in Devices, NEW s, NEW w, NEW table, Finishes(d, s, w, table), d \notin overtaken'
  PROVE  d \notin overtaken
BY DEF Finishes

\* The catch with the manager as it is, give or take its timers.
LEMMA CatchAlike ==
  ASSUME CallsInv, NEW d \in Devices, NEW s \in Manager, Alike(s, dev[d]), NEW table,
         Catch(d, s, table), UNCHANGED <<todo, made, online, placed, drops, toggles>>,
         PcStep(d, table, made),
         \A p \in 1 .. made : table[p].open => pcs[p].open
  PROVE  StepOf(d, Finish(s))
<1>1. /\ Quits(d) /\ Finishes(d, s, Send(wire, d, "end", None, None), table)
  BY DEF Catch
<1>2. Sends(Send(wire, d, "end", None, None), d, quit')
  BY <1>1, SendsGivenUp
<1>3. CountsOK' /\ TaskStep(d)
  BY <1>1, SameCounts, SameTasks DEF Finishes
<1>4. ManagerOK(d)
  BY DEF CallsInv
<1>5. \A p \in 1 .. made : table[p].owner = pcs[p].owner
  BY DEF PcStep
<1>6. s.pc # None => s.pc \in 1 .. made' /\ table[s.pc].owner = d
  BY <1>4, <1>5 DEF ManagerOK, Alike
<1>7. ASSUME d \notin overtaken'
      PROVE  /\ TidyManager(s, todo'[d], accepted[d])
             /\ \A p \in 1 .. made' : table[p].open /\ table[p].owner = d => s.pc = p
  <2>1. SoundOK(d)
    BY <1>1, <1>7, NotOvertakenBefore DEF CallsInv
  <2> QED BY <1>5, <2>1, AlikeTidy DEF SoundOK, Alike
<1>8. PcStep(d, table, made')
  OBVIOUS
<1>9. todo' \in [Devices -> [Awaits -> Nat]] /\ \A e \in Devices \ {d} : todo'[e] = todo[e]
  BY <1>3 DEF TaskStep
<1>10. s.phase = dev[d].phase /\ s.call = dev[d].call /\ s.offer = dev[d].offer
  BY DEF Alike
<1> QED BY <1>1, <1>2, <1>3, <1>6, <1>7, <1>8, <1>9, <1>10, QuitsStep

\* A step that leaves every connection alone, and this.pc and the offer of its manager.
LEMMA QuietStep ==
  ASSUME CallsInv, NEW d \in Devices, NEW s \in Manager, dev' = [dev EXCEPT ![d] = s],
         TaskStep(d), Sends(wire', d, quit'), CountsOK', UNCHANGED <<pcs, made, quit, overtaken>>,
         s.pc = dev[d].pc, s.offer = dev[d].offer, s.phase = "incoming" => s.call # None,
         d \notin overtaken =>
           /\ TidyManager(s, todo'[d], accepted'[d])
           /\ s.pc # None => s.call = dev[d].call
  PROVE  CallsInv'
<1>1. ManagerStep(d, s)
  BY DEF ManagerStep, CallsInv, ManagerOK
<1>2. PcStep(d, pcs', made') /\ MarkStep
  BY SamePcs, SameMarks
<1>3. ASSUME d \notin overtaken' PROVE SoundStep(d, s)
  <2>1. SoundOK(d) /\ None \notin 1 .. made
    BY <1>3 DEF CallsInv, None
  <2> QED BY <1>3, <2>1 DEF SoundOK, SoundStep
<1>4. StepOf(d, s)
  BY <1>1, <1>2, <1>3 DEF StepOf
<1> QED BY <1>4, StepKeepsInv

\* A manager that is free begins a call.
LEMMA AfreshStep ==
  ASSUME CallsInv, NEW d \in Devices, NEW s \in Manager, dev' = [dev EXCEPT ![d] = s],
         pcs' = CloseIn(pcs, dev[d].pc), TaskStep(d), Sends(wire', d, quit'), CountsOK',
         UNCHANGED <<made, quit, overtaken>>,
         s.pc = None, s.phase = "incoming" => s.call # None,
         s.offer # NoOffer => Claims(d, s.offer.pc, s.offer.call),
         d \notin overtaken => TidyManager(s, todo'[d], accepted'[d])
  PROVE  CallsInv'
<1>1. ManagerOK(d) /\ PcStep(d, pcs, made)
  BY SamePcs DEF CallsInv
<1>2. /\ PcStep(d, CloseIn(pcs, dev[d].pc), made)
      /\ \A x \in 1 .. made : /\ CloseIn(pcs, dev[d].pc)[x].owner = pcs[x].owner
                              /\ CloseIn(pcs, dev[d].pc)[x].remote = pcs[x].remote
                              /\ CloseIn(pcs, dev[d].pc)[x].open => pcs[x].open /\ x # dev[d].pc
  BY <1>1, ClosePc DEF ManagerOK
<1>3. ManagerStep(d, s)
  BY DEF ManagerStep
<1>4. PcStep(d, pcs', made') /\ MarkStep
  BY <1>2, SameMarks
<1>5. ASSUME d \notin overtaken' PROVE SoundStep(d, s)
  <2>1. SoundOK(d) /\ None \notin 1 .. made
    BY <1>5 DEF CallsInv, None
  <2> QED BY <1>2, <1>5, <2>1 DEF SoundOK, SoundStep
<1>6. StepOf(d, s)
  BY <1>3, <1>4, <1>5 DEF StepOf
<1> QED BY <1>6, StepKeepsInv

-----------------------------------------------------------------------------
\* What the person does.

LEMMA FreeIsTidy ==
  ASSUME CallsInv, NEW d \in Devices \ overtaken, ~Busy(dev[d]) \/ dev[d].phase = "incoming"
  PROVE  /\ todo[d] = NoTasks /\ dev[d].track = "none" /\ dev[d].pc = None /\ ~dev[d].leak
BY DEF CallsInv, SoundOK, TidyManager

LEMMA OneMore ==
  ASSUME NEW t \in [Devices -> [Awaits -> Nat]], NEW d \in Devices, NEW a \in Awaits
  PROVE  /\ [t EXCEPT ![d][a] = @ + 1] \in [Devices -> [Awaits -> Nat]]
         /\ \A e \in Devices \ {d} : [t EXCEPT ![d][a] = @ + 1][e] = t[e]
         /\ t[d] = NoTasks => [t EXCEPT ![d][a] = @ + 1][d] = OnlyTask(a)
<1>1. [t EXCEPT ![d][a] = @ + 1][d] = [t[d] EXCEPT ![a] = @ + 1]
  OBVIOUS
<1>2. t[d] = NoTasks => [t[d] EXCEPT ![a] = @ + 1] = OnlyTask(a)
  BY DEF NoTasks, OnlyTask
<1> QED BY <1>1, <1>2

LEMMA StartKeeps ==
  ASSUME CallsInv, NEW d \in Devices, Start(d)
  PROVE  CallsInv'
<1> DEFINE r == InitialState(Reset(dev[d]))
           s == [r EXCEPT !.phase = "outgoing", !.outgoing = TRUE, !.call = placed + 1]
<1>1. /\ ~Busy(dev[d]) /\ placed < MaxCalls /\ placed' = placed + 1
      /\ dev' = [dev EXCEPT ![d] = s]
      /\ pcs' = CloseIn(pcs, dev[d].pc)
      /\ todo' = [todo EXCEPT ![d]["startMic"] = @ + 1]
      /\ UNCHANGED <<made, wire, online, drops, toggles, quit, accepted, overtaken>>
  BY DEF Start, history, CallsInv, CallTypeOK
<1>2. /\ r \in Manager /\ r.leak = dev[d].leak /\ ~r.muted /\ ~r.eager
      /\ r.track = "none" /\ r.pc = None /\ r.offer = NoOffer
  BY ResetManager DEF CallsInv, CallTypeOK
<1>3. placed + 1 \in Calls /\ placed + 1 # None /\ placed \in Nat
  BY <1>1, Assumed DEF Calls, None, CallsInv, CallTypeOK
<1> HIDE DEF r
<1>4. /\ s \in Manager /\ s.phase = "outgoing" /\ s.outgoing /\ s.call = placed + 1
      /\ s.leak = dev[d].leak /\ ~s.muted /\ s.track = "none" /\ s.pc = None /\ s.offer = NoOffer
  <2>1. "outgoing" \in Phases
    BY DEF Phases
  <2> QED BY <1>2, <1>3, <2>1 DEF Manager
<1> HIDE DEF s
<1>5. "startMic" \in Awaits /\ "startMic" \in Mics
  BY DEF Awaits, Mics
<1>6. TaskStep(d)
  BY <1>1, <1>5, OneMore DEF TaskStep, CallsInv, CallTypeOK
<1>7. Sends(wire', d, quit')
  BY <1>1, SendsNothing
<1>8. CountsOK'
  BY <1>1, <1>3, Assumed DEF CountsOK, CallsInv, CallTypeOK, Calls
<1>9. ASSUME d \notin overtaken PROVE TidyManager(s, todo'[d], accepted'[d])
  <2>1. todo[d] = NoTasks /\ ~dev[d].leak
    BY <1>1, <1>9, FreeIsTidy
  <2>2. todo'[d] = OnlyTask("startMic")
    <3>1. todo \in [Devices -> [Awaits -> Nat]]
      BY DEF CallsInv, CallTypeOK
    <3>2. [todo EXCEPT ![d]["startMic"] = @ + 1][d] = OnlyTask("startMic")
      BY <1>5, <2>1, <3>1, OneMore
    <3> QED BY <1>1, <3>2
  <2> QED BY <1>3, <1>4, <1>5, <2>1, <2>2 DEF TidyManager, Busy
<1>10. s.phase = "incoming" => s.call # None
  BY <1>4
<1>11. s.offer # NoOffer => Claims(d, s.offer.pc, s.offer.call)
  BY <1>4
<1> QED BY <1>1, <1>4, <1>6, <1>7, <1>8, <1>9, <1>10, <1>11, AfreshStep

LEMMA AcceptKeeps ==
  ASSUME CallsInv, NEW d \in Devices, Accept(d)
  PROVE  CallsInv'
<1> DEFINE s == [dev[d] EXCEPT !.phase = "connecting"]
<1>1. /\ dev[d].phase = "incoming"
      /\ dev' = [dev EXCEPT ![d] = s]
      /\ todo' = [todo EXCEPT ![d]["acceptMic"] = @ + 1]
      /\ accepted' = [accepted EXCEPT ![d] = @ \cup {dev[d].call}]
      /\ UNCHANGED <<pcs, made, wire, online, placed, drops, toggles, quit, overtaken>>
  BY DEF Accept
<1>2. /\ dev[d] \in Manager /\ dev[d].call # None /\ dev[d].call \in Calls
  BY <1>1 DEF CallsInv, CallTypeOK, ManagerOK, Manager
<1>3. /\ s \in Manager /\ s.phase = "connecting" /\ s.call = dev[d].call /\ s.muted = dev[d].muted
      /\ s.leak = dev[d].leak /\ s.track = dev[d].track /\ s.pc = dev[d].pc
      /\ s.offer = dev[d].offer
  BY <1>2 DEF Manager, Phases
<1> HIDE DEF s
<1>4. "acceptMic" \in Awaits /\ "acceptMic" \in Mics
  BY DEF Awaits, Mics
<1>5. TaskStep(d)
  BY <1>1, <1>2, <1>4, OneMore DEF TaskStep, CallsInv, CallTypeOK
<1>6. Sends(wire', d, quit') /\ CountsOK'
  BY <1>1, SendsNothing, SameCounts
<1>7. ASSUME d \notin overtaken PROVE TidyManager(s, todo'[d], accepted'[d])
  <2>1. todo[d] = NoTasks /\ dev[d].track = "none" /\ dev[d].pc = None
    BY <1>1, <1>7, FreeIsTidy
  <2>2. TidyManager(dev[d], todo[d], accepted[d])
    BY <1>7 DEF CallsInv, SoundOK
  <2>3. todo'[d] = OnlyTask("acceptMic")
    <3>1. todo \in [Devices -> [Awaits -> Nat]]
      BY DEF CallsInv, CallTypeOK
    <3>2. [todo EXCEPT ![d]["acceptMic"] = @ + 1][d] = OnlyTask("acceptMic")
      BY <1>4, <2>1, <3>1, OneMore
    <3> QED BY <1>1, <3>2
  <2>4. dev[d].call \in accepted'[d]
    BY <1>1 DEF CallsInv, CallTypeOK
  <2> QED BY <1>1, <1>2, <1>3, <1>4, <2>1, <2>2, <2>3, <2>4 DEF TidyManager, Busy
<1> QED BY <1>1, <1>3, <1>5, <1>6, <1>7, QuietStep

LEMMA MuteKeeps ==
  ASSUME CallsInv, NEW d \in Devices, ToggleMute(d)
  PROVE  CallsInv'
<1> DEFINE on == CASE dev[d].track = "none" -> "none"
                   [] dev[d].track # "none" /\ dev[d].muted -> "on"
                   [] OTHER -> "off"
           s == [dev[d] EXCEPT !.muted = ~dev[d].muted,
                               !.eager = dev[d].eager \/ dev[d].track = "none", !.track = on]
<1>1. /\ Busy(dev[d]) /\ dev[d].phase # "incoming"
      /\ toggles < MaxToggles /\ toggles' = toggles + 1
      /\ dev' = [dev EXCEPT ![d] = s]
      /\ UNCHANGED <<todo, pcs, made, wire, online, placed, drops, quit, accepted, overtaken>>
  BY DEF ToggleMute, history, CallsInv, CallTypeOK
<1>2. dev[d] \in Manager
  BY DEF CallsInv, CallTypeOK
<1>3. /\ on \in {"none", "on", "off"}
      /\ on = "none" <=> dev[d].track = "none"
      /\ on = "on" => dev[d].muted
  OBVIOUS
<1> HIDE DEF on
<1>4. /\ s \in Manager /\ s.phase = dev[d].phase /\ s.call = dev[d].call
      /\ s.muted = ~dev[d].muted /\ s.eager = (dev[d].eager \/ dev[d].track = "none")
      /\ s.outgoing = dev[d].outgoing /\ s.leak = dev[d].leak /\ s.track = on
      /\ s.pc = dev[d].pc /\ s.offer = dev[d].offer
  BY <1>2, <1>3 DEF Manager
<1> HIDE DEF s
<1>5. TaskStep(d) /\ Sends(wire', d, quit')
  BY <1>1, SameTasks, SendsNothing
<1>6. CountsOK'
  BY <1>1, Assumed DEF CountsOK, CallsInv, CallTypeOK
<1>7. ASSUME d \notin overtaken PROVE TidyManager(s, todo'[d], accepted'[d])
  <2>1. TidyManager(dev[d], todo[d], accepted[d]) /\ todo'[d] = todo[d] /\ accepted'[d] = accepted[d]
    BY <1>1, <1>7 DEF CallsInv, SoundOK
  <2> QED BY <1>1, <1>2, <1>3, <1>4, <2>1 DEF TidyManager, Busy, Manager
<1>8. s.phase # "incoming"
  BY <1>1, <1>4
<1> QED BY <1>1, <1>4, <1>5, <1>6, <1>7, <1>8, QuietStep

-----------------------------------------------------------------------------
\* The continuations.

\* A suspended call of a tidy manager is its only one.
LEMMA OnlySuspended ==
  ASSUME CallsInv, NEW d \in Devices \ overtaken, NEW a \in Awaits, todo[d][a] > 0
  PROVE  /\ todo[d] = OnlyTask(a) /\ dev[d].pc = None
         /\ Busy(dev[d]) /\ dev[d].phase # "incoming" /\ dev[d].phase # "active"
         /\ a \in Mics => dev[d].track = "none" /\ (dev[d].muted => dev[d].eager)
         /\ a \in Ices => dev[d].track # "none"
<1>1. TidyManager(dev[d], todo[d], accepted[d])
  BY DEF CallsInv, SoundOK
<1>2. todo[d] # NoTasks
  BY DEF NoTasks
<1>3. PICK b \in Awaits : /\ todo[d] = OnlyTask(b) /\ dev[d].pc = None
                          /\ b \in Mics => dev[d].track = "none" /\ (dev[d].muted => dev[d].eager)
                          /\ b \in Ices => dev[d].track # "none"
  BY <1>1, <1>2 DEF TidyManager, Awaits, Mics, Ices
<1>4. a = b
  BY <1>3 DEF OnlyTask, NoTasks
<1> QED BY <1>1, <1>2, <1>3, <1>4 DEF TidyManager

LEMMA TasksDropped ==
  ASSUME CallsInv, NEW d \in Devices, NEW a \in Awaits, todo[d][a] > 0
  PROVE  /\ Dropped(d, a) \in [Devices -> [Awaits -> Nat]]
         /\ \A e \in Devices \ {d} : Dropped(d, a)[e] = todo[e]
         /\ d \notin overtaken => Dropped(d, a)[d] = NoTasks
<1>1. todo \in [Devices -> [Awaits -> Nat]]
  BY DEF CallsInv, CallTypeOK
<1>2. todo[d][a] - 1 \in Nat
  BY <1>1
<1>3. Dropped(d, a)[d] = [todo[d] EXCEPT ![a] = @ - 1]
  BY <1>1 DEF Dropped
<1>4. [OnlyTask(a) EXCEPT ![a] = @ - 1] = NoTasks
  BY DEF OnlyTask, NoTasks
<1> QED BY <1>1, <1>2, <1>3, <1>4, OnlySuspended DEF Dropped

LEMMA TasksMoved ==
  ASSUME CallsInv, NEW d \in Devices, NEW a \in Awaits, NEW b \in Awaits, a # b, todo[d][a] > 0
  PROVE  /\ Moved(d, a, b) \in [Devices -> [Awaits -> Nat]]
         /\ \A e \in Devices \ {d} : Moved(d, a, b)[e] = todo[e]
         /\ d \notin overtaken => Moved(d, a, b)[d] = OnlyTask(b)
<1>1. todo \in [Devices -> [Awaits -> Nat]]
  BY DEF CallsInv, CallTypeOK
<1>2. todo[d][a] - 1 \in Nat /\ todo[d][b] + 1 \in Nat
  BY <1>1
<1>3. Moved(d, a, b)[d] = [todo[d] EXCEPT ![a] = @ - 1, ![b] = @ + 1]
  BY <1>1 DEF Moved
<1>4. [OnlyTask(a) EXCEPT ![a] = @ - 1, ![b] = @ + 1] = OnlyTask(b)
  BY DEF OnlyTask, NoTasks
<1> QED BY <1>1, <1>2, <1>3, <1>4, OnlySuspended DEF Moved

LEMMA MicKeeps ==
  ASSUME CallsInv, NEW d \in Devices, NEW mic \in Mics, NEW ice \in Ices, MicGranted(d, mic, ice)
  PROVE  CallsInv'
<1> DEFINE s == [dev[d] EXCEPT !.leak = @ \/ dev[d].track # "none", !.track = "on"]
<1>1. /\ todo[d][mic] > 0 /\ todo' = Moved(d, mic, ice)
      /\ dev' = [dev EXCEPT ![d] = s]
      /\ UNCHANGED <<pcs, made, wire, online, placed, drops, toggles, quit, accepted, overtaken>>
  BY DEF MicGranted, history
<1>2. dev[d] \in Manager
  BY DEF CallsInv, CallTypeOK
<1>3. /\ s \in Manager /\ s.phase = dev[d].phase /\ s.call = dev[d].call
      /\ s.muted = dev[d].muted /\ s.eager = dev[d].eager
      /\ s.outgoing = dev[d].outgoing /\ s.leak = (dev[d].leak \/ dev[d].track # "none")
      /\ s.track = "on" /\ s.pc = dev[d].pc /\ s.offer = dev[d].offer
  BY <1>2 DEF Manager
<1> HIDE DEF s
<1>4. mic \in Awaits /\ ice \in Awaits /\ mic # ice
  BY DEF Awaits, Mics, Ices
<1>5. TaskStep(d)
  <2>1. /\ todo' \in [Devices -> [Awaits -> Nat]]
        /\ \A e \in Devices \ {d} : todo'[e] = todo[e]
    BY <1>1, <1>4, TasksMoved
  <2> QED BY <1>1, <2>1 DEF TaskStep, CallsInv, CallTypeOK
<1>6. Sends(wire', d, quit') /\ CountsOK'
  BY <1>1, SendsNothing, SameCounts
<1>7. ASSUME d \notin overtaken PROVE TidyManager(s, todo'[d], accepted'[d])
  <2>1. TidyManager(dev[d], todo[d], accepted[d])
    BY <1>7 DEF CallsInv, SoundOK
  <2>2. /\ dev[d].pc = None /\ Busy(dev[d]) /\ dev[d].phase # "incoming" /\ dev[d].phase # "active"
        /\ dev[d].track = "none" /\ (dev[d].muted => dev[d].eager)
    BY <1>1, <1>4, <1>7, OnlySuspended
  <2>3. todo'[d] = OnlyTask(ice)
    BY <1>1, <1>4, <1>7, TasksMoved
  <2> QED BY <1>1, <1>3, <2>1, <2>2, <2>3 DEF TidyManager, Busy
<1>8. s.phase = "incoming" => s.call # None
  BY <1>3 DEF CallsInv, ManagerOK
<1> QED BY <1>1, <1>3, <1>5, <1>6, <1>7, <1>8, QuietStep

\* Without its task a tidy manager that had one is tidy still.
LEMMA TidyWithoutTask ==
  ASSUME CallsInv, NEW d \in Devices \ overtaken, NEW a \in Awaits, todo[d][a] > 0
  PROVE  TidyManager(dev[d], NoTasks, accepted[d])
<1>1. TidyManager(dev[d], todo[d], accepted[d])
  BY DEF CallsInv, SoundOK
<1>2. Busy(dev[d]) /\ dev[d].phase # "incoming"
  BY OnlySuspended
<1> QED BY <1>1, <1>2 DEF TidyManager

LEMMA PeerFailsKeeps ==
  ASSUME CallsInv, NEW d \in Devices, NEW a \in Awaits, PeerFails(d, a)
  PROVE  CallsInv'
<1>1. /\ todo[d][a] > 0 /\ todo' = Dropped(d, a)
      /\ UNCHANGED <<made, online, placed, drops, toggles>>
      /\ Quits(d) /\ Finishes(d, dev[d], Send(wire, d, "end", None, None), pcs)
  BY DEF PeerFails, Catch
<1>2. /\ todo' \in [Devices -> [Awaits -> Nat]]
      /\ \A e \in Devices \ {d} : todo'[e] = todo[e]
      /\ d \notin overtaken => todo'[d] = NoTasks
  BY <1>1, TasksDropped
<1>3. Sends(Send(wire, d, "end", None, None), d, quit')
  BY <1>1, SendsGivenUp
<1>4. CountsOK' /\ PcStep(d, pcs, made')
  BY <1>1, SameCounts, SamePcs
<1>5. dev[d] \in Manager /\ ManagerOK(d)
  BY DEF CallsInv, CallTypeOK
<1>6. dev[d].pc # None => dev[d].pc \in 1 .. made' /\ pcs[dev[d].pc].owner = d
  BY <1>1, <1>5 DEF ManagerOK
<1>7. ASSUME d \notin overtaken'
      PROVE  /\ TidyManager(dev[d], todo'[d], accepted[d])
             /\ \A p \in 1 .. made' : pcs[p].open /\ pcs[p].owner = d => dev[d].pc = p
  <2>1. d \notin overtaken
    BY <1>1, <1>7, NotOvertakenBefore
  <2>2. SoundOK(d)
    BY <2>1 DEF CallsInv
  <2> QED BY <1>1, <1>2, <2>1, <2>2, TidyWithoutTask DEF SoundOK
<1>8. StepOf(d, Finish(dev[d]))
  BY <1>1, <1>2, <1>3, <1>4, <1>5, <1>6, <1>7, QuitsStep
<1> QED BY <1>8, StepKeepsInv

\* A connection is made.
LEMMA NewPc ==
  ASSUME CallsInv, NEW d \in Devices, made < MaxPcs, NEW row \in Connection, row.owner = d
  PROVE  /\ PcStep(d, [pcs EXCEPT ![made + 1] = row], made + 1)
         /\ [pcs EXCEPT ![made + 1] = row][made + 1] = row
         /\ \A x \in 1 .. made : [pcs EXCEPT ![made + 1] = row][x] = pcs[x]
<1> DEFINE after == [pcs EXCEPT ![made + 1] = row]
<1>1. made \in Nat /\ made + 1 \in Pcs /\ 1 .. (made + 1) = 1 .. made \cup {made + 1}
      /\ made + 1 \in 0 .. MaxPcs /\ 1 .. (made + 1) \subseteq Pcs /\ made + 1 \notin 1 .. made
  BY Assumed DEF Pcs, CallsInv, CallTypeOK
<1>2. after \in [Pcs -> Connection \cup {Unmade}]
      /\ \A x \in Pcs : after[x] = IF x = made + 1 THEN row ELSE pcs[x]
  BY <1>1 DEF CallsInv, CallTypeOK
<1> HIDE DEF after
<1>3. \A p \in Pcs : (p \in 1 .. (made + 1)) <=> (after[p] \in Connection)
  BY <1>1, <1>2 DEF CallsInv, CallTypeOK
<1>4. \A p \in 1 .. made : after[p] = pcs[p]
  BY <1>1, <1>2
<1>5. after[made + 1] = row
  BY <1>1, <1>2
<1>6. PcStep(d, after, made + 1)
  BY <1>1, <1>2, <1>3, <1>4, <1>5 DEF PcStep
<1> QED BY <1>4, <1>5, <1>6 DEF after

\* The connection of a call: this.pc, with the description of the offer it answers, if any.
LEMMA IceKeeps ==
  ASSUME CallsInv, NEW d \in Devices, NEW await \in Ices, NEW usable \in BOOLEAN,
         NEW op \in {"offer", "answer"}, NEW remote,
         usable => remote = None \/ (Claims(d, remote, dev[d].offer.call) /\ dev[d].offer # NoOffer),
         IceArrives(d, await, usable, op, remote)
  PROVE  CallsInv'
<1> DEFINE p == made + 1
           s == [dev[d] EXCEPT !.pc = p]
           opened == [owner |-> d, remote |-> None, open |-> TRUE, op |-> "none", conn |-> "new"]
           linked == [opened EXCEPT !.op = op, !.remote = remote]
<1>1. /\ todo[d][await] > 0 /\ made < MaxPcs /\ made' = p /\ todo' = Dropped(d, await)
      /\ UNCHANGED <<online, placed, drops, toggles>>
      /\ \/ /\ dev[d].track # "none" /\ usable
            /\ dev' = [dev EXCEPT ![d] = s]
            /\ pcs' = [pcs EXCEPT ![p] = linked]
            /\ UNCHANGED <<wire, quit, accepted, overtaken>>
         \/ /\ Quits(d)
            /\ Finishes(d, s, Send(wire, d, "end", None, None), [pcs EXCEPT ![p] = opened])
  BY DEF IceArrives, Catch, history
<1>2. /\ p \in Pcs /\ p \notin 1 .. made /\ p \in 1 .. p /\ p # None /\ None \notin 1 .. made
      /\ 1 .. made \subseteq Pcs /\ 1 .. p = 1 .. made \cup {p}
  BY <1>1, Assumed DEF Pcs, None, CallsInv, CallTypeOK
<1>3. dev[d] \in Manager /\ ManagerOK(d)
  BY DEF CallsInv, CallTypeOK
<1>4. /\ s \in Manager /\ s.phase = dev[d].phase /\ s.call = dev[d].call
      /\ s.muted = dev[d].muted /\ s.eager = dev[d].eager
      /\ s.outgoing = dev[d].outgoing /\ s.leak = dev[d].leak
      /\ s.track = dev[d].track /\ s.pc = p /\ s.offer = dev[d].offer
  BY <1>2, <1>3 DEF Manager
<1>5. opened \in Connection /\ opened.owner = d
  BY DEF Connection
<1>6. /\ await \in Awaits
  BY DEF Awaits, Ices
<1>7. /\ todo' \in [Devices -> [Awaits -> Nat]]
      /\ \A e \in Devices \ {d} : todo'[e] = todo[e]
      /\ d \notin overtaken => todo'[d] = NoTasks
  BY <1>1, <1>6, TasksDropped
<1>8. CountsOK'
  BY <1>1, SameCounts
<1>9. /\ s.phase = "incoming" => s.call # None
      /\ s.offer # NoOffer => Claims(d, s.offer.pc, s.offer.call)
  BY <1>3, <1>4 DEF ManagerOK
<1>10. ASSUME d \notin overtaken
       PROVE  /\ TidyManager(s, NoTasks, accepted[d]) /\ Busy(dev[d])
              /\ \A x \in 1 .. made : ~(pcs[x].open /\ pcs[x].owner = d)
  <2>1. SoundOK(d)
    BY <1>10 DEF CallsInv
  <2>2. /\ TidyManager(dev[d], NoTasks, accepted[d])
        /\ dev[d].pc = None /\ Busy(dev[d]) /\ dev[d].phase # "incoming" /\ dev[d].phase # "active"
    BY <1>1, <1>6, <1>10, OnlySuspended, TidyWithoutTask
  <2>3. TidyManager(s, NoTasks, accepted[d])
    BY <1>4, <2>2 DEF TidyManager, Busy
  <2> QED BY <1>2, <2>1, <2>2, <2>3 DEF SoundOK
<1>11. made \in 0 .. MaxPcs
  BY DEF CallsInv, CallTypeOK
<1> HIDE DEF s
<1>12. CASE /\ dev[d].track # "none" /\ usable
            /\ dev' = [dev EXCEPT ![d] = s]
            /\ pcs' = [pcs EXCEPT ![p] = linked]
            /\ UNCHANGED <<wire, quit, accepted, overtaken>>
  <2>1. remote \in Pcs \cup {None}
    BY <1>2, <1>12 DEF Claims
  <2>2. linked \in Connection /\ linked.owner = d /\ linked.remote = remote
    BY <2>1 DEF Connection
  <2> HIDE DEF linked, opened
  <2>3. /\ PcStep(d, pcs', p) /\ pcs'[p] = linked /\ \A x \in 1 .. made : pcs'[x] = pcs[x]
    BY <1>1, <1>12, <2>2, NewPc
  <2>4. ManagerStep(d, s)
    BY <1>1, <1>2, <1>4, <1>9, <1>12, <2>2, <2>3 DEF ManagerStep
  <2>5. TaskStep(d)
    BY <1>7, <1>12 DEF TaskStep, CallsInv, CallTypeOK
  <2>6. Sends(wire', d, quit') /\ MarkStep
    BY <1>12, SendsNothing, SameMarks
  <2>7. ASSUME d \notin overtaken' PROVE SoundStep(d, s)
    <3>1. /\ TidyManager(s, NoTasks, accepted[d]) /\ Busy(dev[d])
          /\ \A x \in 1 .. made : ~(pcs[x].open /\ pcs[x].owner = d)
      BY <1>10, <1>12, <2>7
    <3>2. TidyManager(s, todo'[d], accepted'[d])
      BY <1>7, <1>12, <2>7, <3>1
    <3>3. \A x \in 1 .. made' : pcs'[x].open /\ pcs'[x].owner = d => s.pc = x
      BY <1>1, <1>2, <1>4, <2>3, <3>1
    <3>4. remote = None \/ Claims(d, remote, s.call)
      <4>1. dev[d].offer # NoOffer => dev[d].offer.call = dev[d].call
        BY <1>4, <3>1 DEF TidyManager, Busy
      <4> QED BY <1>4, <1>12, <4>1
    <3>5. s.pc \notin 1 .. made
      BY <1>2, <1>4
    <3>6. s.pc # None => pcs'[s.pc].remote = None \/ Claims(d, pcs'[s.pc].remote, s.call)
      BY <1>4, <2>2, <2>3, <3>4
    <3> QED BY <3>2, <3>3, <3>5, <3>6 DEF SoundStep
  <2>8. StepOf(d, s)
    BY <1>1, <1>8, <2>3, <2>4, <2>5, <2>6, <2>7 DEF StepOf
  <2> QED BY <2>8, StepKeepsInv
<1>13. CASE /\ Quits(d)
            /\ Finishes(d, s, Send(wire, d, "end", None, None), [pcs EXCEPT ![p] = opened])
  <2> DEFINE table == [pcs EXCEPT ![p] = opened]
  <2> HIDE DEF opened
  <2>1. /\ PcStep(d, table, p) /\ table[p] = opened /\ \A x \in 1 .. made : table[x] = pcs[x]
    BY <1>1, <1>5, NewPc
  <2> HIDE DEF table
  <2>2. Finishes(d, s, Send(wire, d, "end", None, None), table)
    BY <1>13 DEF table
  <2>3. Sends(Send(wire, d, "end", None, None), d, quit')
    BY <1>13, SendsGivenUp
  <2>4. s.pc # None => s.pc \in 1 .. made' /\ table[s.pc].owner = d
    BY <1>1, <1>2, <1>4, <1>5, <2>1
  <2>5. ASSUME d \notin overtaken'
        PROVE  /\ TidyManager(s, todo'[d], accepted[d])
               /\ \A x \in 1 .. made' : table[x].open /\ table[x].owner = d => s.pc = x
    <3>1. d \notin overtaken
      BY <2>2, <2>5, NotOvertakenBefore
    <3> QED BY <1>1, <1>2, <1>4, <1>7, <1>10, <2>1, <3>1
  <2>6. PcStep(d, table, made')
    BY <1>1, <2>1
  <2>7. StepOf(d, Finish(s))
    BY <1>4, <1>7, <1>8, <1>13, <2>2, <2>3, <2>4, <2>5, <2>6, QuitsStep
  <2> QED BY <2>7, StepKeepsInv
<1> QED BY <1>1, <1>12, <1>13

LEMMA ContinueKeeps ==
  ASSUME CallsInv, NEW d \in Devices, Continue(d)
  PROVE  CallsInv'
<1>1. CASE MicGranted(d, "startMic", "startIce")
  <2>1. "startMic" \in Mics /\ "startIce" \in Ices
    BY DEF Mics, Ices
  <2> QED BY <1>1, <2>1, MicKeeps
<1>2. CASE MicGranted(d, "acceptMic", "acceptIce")
  <2>1. "acceptMic" \in Mics /\ "acceptIce" \in Ices
    BY DEF Mics, Ices
  <2> QED BY <1>2, <2>1, MicKeeps
<1>3. CASE \E a \in Awaits : PeerFails(d, a)
  BY <1>3, PeerFailsKeeps
<1>4. CASE StartIce(d)
  <2> DEFINE usable == TRUE
             remote == None
  <2>1. "startIce" \in Ices /\ "offer" \in {"offer", "answer"} /\ usable \in BOOLEAN
    BY DEF Ices
  <2>2. IceArrives(d, "startIce", usable, "offer", remote)
    BY <1>4 DEF StartIce
  <2> HIDE DEF usable, remote
  <2>3. usable => remote = None \/ (Claims(d, remote, dev[d].offer.call) /\ dev[d].offer # NoOffer)
    BY DEF remote
  <2> QED BY <2>1, <2>2, <2>3, IceKeeps
<1>5. CASE AcceptIce(d)
  <2> DEFINE usable == dev[d].offer # NoOffer
             remote == dev[d].offer.pc
  <2>1. "acceptIce" \in Ices /\ "answer" \in {"offer", "answer"} /\ usable \in BOOLEAN
    BY DEF Ices
  <2>2. IceArrives(d, "acceptIce", usable, "answer", remote)
    BY <1>5 DEF AcceptIce
  <2>3. usable => Claims(d, remote, dev[d].offer.call) /\ dev[d].offer # NoOffer
    BY DEF CallsInv, ManagerOK
  <2> HIDE DEF usable, remote
  <2> QED BY <2>1, <2>2, <2>3, IceKeeps
<1> QED BY <1>1, <1>2, <1>3, <1>4, <1>5 DEF Continue

\* A connection whose description, state or use changes, that stays where it is.
LEMMA SameRows ==
  ASSUME CallsInv, NEW p \in 1 .. made, NEW d, d = pcs[p].owner, NEW row \in Connection,
         row.owner = pcs[p].owner, row.open = pcs[p].open
  PROVE  /\ d \in Devices /\ PcStep(d, [pcs EXCEPT ![p] = row], made)
         /\ [pcs EXCEPT ![p] = row][p] = row
         /\ \A x \in 1 .. made : x # p => [pcs EXCEPT ![p] = row][x] = pcs[x]
         /\ \A x \in 1 .. made : [pcs EXCEPT ![p] = row][x].owner = pcs[x].owner
         /\ \A x \in 1 .. made : [pcs EXCEPT ![p] = row][x].open = pcs[x].open
<1>1. p \in Pcs /\ pcs[p] \in Connection /\ 1 .. made \subseteq Pcs
  BY Assumed DEF Pcs, CallsInv, CallTypeOK
<1>2. d \in Devices
  BY <1>1 DEF Connection
<1>3. PcStep(d, pcs, made)
  BY <1>2, SamePcs
<1>4. PcStep(d, [pcs EXCEPT ![p] = row], made)
  BY <1>2, <1>3, SetPc
<1> QED BY <1>1, <1>2, <1>4 DEF CallsInv, CallTypeOK

LEMMA RowOf ==
  ASSUME CallsInv, NEW p \in 1 .. made
  PROVE  /\ pcs[p] \in Connection
         /\ \A op \in {"none", "offer", "answer", "remote"} :
              [pcs EXCEPT ![p].op = op] = [pcs EXCEPT ![p] = [pcs[p] EXCEPT !.op = op]]
         /\ \A conn \in {"new", "connected", "failed"} :
              [pcs EXCEPT ![p].conn = conn] = [pcs EXCEPT ![p] = [pcs[p] EXCEPT !.conn = conn]]
BY Assumed DEF Pcs, CallsInv, CallTypeOK

\* The operation of a connection is over.
LEMMA IdleRow ==
  ASSUME CallsInv, NEW p \in 1 .. made, NEW d, d = pcs[p].owner
  PROVE  /\ d \in Devices /\ PcStep(d, [pcs EXCEPT ![p].op = "none"], made)
         /\ \A x \in 1 .. made : /\ [pcs EXCEPT ![p].op = "none"][x].remote = pcs[x].remote
                                 /\ [pcs EXCEPT ![p].op = "none"][x].open = pcs[x].open
<1> DEFINE row == [pcs[p] EXCEPT !.op = "none"]
<1>1. pcs[p] \in Connection /\ [pcs EXCEPT ![p].op = "none"] = [pcs EXCEPT ![p] = row]
  BY RowOf
<1>2. row \in Connection /\ row.owner = d /\ row.open = pcs[p].open /\ row.remote = pcs[p].remote
  BY <1>1 DEF Connection
<1> HIDE DEF row
<1> QED BY <1>1, <1>2, SameRows

LEMMA ConnRow ==
  ASSUME CallsInv, NEW p \in 1 .. made, NEW d, d = pcs[p].owner,
         NEW conn \in {"new", "connected", "failed"}
  PROVE  /\ d \in Devices /\ PcStep(d, [pcs EXCEPT ![p].conn = conn], made)
         /\ \A x \in 1 .. made : /\ [pcs EXCEPT ![p].conn = conn][x].remote = pcs[x].remote
                                 /\ [pcs EXCEPT ![p].conn = conn][x].open = pcs[x].open
<1> DEFINE row == [pcs[p] EXCEPT !.conn = conn]
<1>1. pcs[p] \in Connection /\ [pcs EXCEPT ![p].conn = conn] = [pcs EXCEPT ![p] = row]
  BY RowOf
<1>2. row \in Connection /\ row.owner = d /\ row.open = pcs[p].open /\ row.remote = pcs[p].remote
  BY <1>1 DEF Connection
<1> HIDE DEF row
<1> QED BY <1>1, <1>2, SameRows

\* A step in which this.pc and the call stay what they are.
LEMMA RowKeeps ==
  ASSUME CallsInv, NEW d \in Devices, NEW s \in Manager, dev' = [dev EXCEPT ![d] = s],
         s.pc = dev[d].pc, s.call = dev[d].call, s.offer = dev[d].offer,
         s.phase = "incoming" => dev[d].phase = "incoming",
         PcStep(d, pcs', made), Sends(wire', d, quit'),
         \A p \in 1 .. made : pcs'[p].remote = pcs[p].remote /\ pcs'[p].open = pcs[p].open,
         UNCHANGED <<todo, accepted, made, quit, overtaken, online, placed, drops, toggles>>,
         d \notin overtaken => TidyManager(s, todo[d], accepted[d])
  PROVE  CallsInv'
<1>1. ManagerOK(d)
  BY DEF CallsInv
<1>2. \A p \in 1 .. made : pcs'[p].owner = pcs[p].owner
  BY DEF PcStep
<1>3. ManagerStep(d, s)
  BY <1>1, <1>2 DEF ManagerStep, ManagerOK
<1>4. TaskStep(d) /\ MarkStep /\ CountsOK'
  BY SameTasks, SameMarks, SameCounts
<1>5. ASSUME d \notin overtaken' PROVE SoundStep(d, s)
  <2>1. SoundOK(d)
    BY <1>5 DEF CallsInv
  <2>2. TidyManager(s, todo'[d], accepted'[d])
    BY <1>5
  <2>3. \A p \in 1 .. made' : pcs'[p].open /\ pcs'[p].owner = d => s.pc = p
    BY <1>2, <2>1 DEF SoundOK
  <2>4. s.pc # None => pcs'[s.pc].remote = None \/ Claims(d, pcs'[s.pc].remote, s.call)
    <3>1. s.pc # None => pcs'[s.pc].remote = pcs[dev[d].pc].remote
      BY <1>1 DEF ManagerOK
    <3> QED BY <2>1, <3>1 DEF SoundOK
  <2> QED BY <2>2, <2>3, <2>4 DEF SoundStep
<1>6. PcStep(d, pcs', made')
  OBVIOUS
<1>7. StepOf(d, s)
  BY <1>3, <1>4, <1>5, <1>6 DEF StepOf
<1> QED BY <1>7, StepKeepsInv

LEMMA AlikeKeeps ==
  ASSUME CallsInv, NEW d \in Devices, NEW s \in Manager, dev' = [dev EXCEPT ![d] = s],
         Alike(s, dev[d]), PcStep(d, pcs', made), Sends(wire', d, quit'),
         \A p \in 1 .. made : pcs'[p].remote = pcs[p].remote /\ pcs'[p].open = pcs[p].open,
         UNCHANGED <<todo, accepted, made, quit, overtaken, online, placed, drops, toggles>>
  PROVE  CallsInv'
<1>1. /\ s.pc = dev[d].pc /\ s.call = dev[d].call /\ s.offer = dev[d].offer
      /\ s.phase = "incoming" => dev[d].phase = "incoming"
  BY DEF Alike
<1>2. ASSUME d \notin overtaken PROVE TidyManager(s, todo[d], accepted[d])
  <2>1. TidyManager(dev[d], todo[d], accepted[d])
    BY <1>2 DEF CallsInv, SoundOK
  <2> QED BY <2>1, AlikeTidy
<1> QED BY <1>1, <1>2, RowKeeps

LEMMA OfferKeeps ==
  ASSUME CallsInv, NEW p \in 1 .. made, OfferReady(p)
  PROVE  CallsInv'
<1> DEFINE d == pcs[p].owner
           idle == [pcs EXCEPT ![p].op = "none"]
           s == SetTimeout(dev[d], "ring")
<1>1. /\ d \in Devices /\ PcStep(d, idle, made)
      /\ \A x \in 1 .. made : idle[x].remote = pcs[x].remote /\ idle[x].open = pcs[x].open
  BY IdleRow
<1>2. /\ UNCHANGED <<todo, made, online, placed, drops, toggles>>
      /\ \/ /\ wire' = Send(wire, d, "offer", p, None)
            /\ dev' = [dev EXCEPT ![d] = s]
            /\ pcs' = idle
            /\ UNCHANGED <<quit, accepted, overtaken>>
         \/ Catch(d, dev[d], idle)
  BY DEF OfferReady, history, CallsInv, CallTypeOK
<1>3. dev[d] \in Manager /\ Alike(dev[d], dev[d]) /\ "ring" \in Timers
  BY <1>1 DEF Alike, CallsInv, CallTypeOK, Timers
<1>4. pcs[p].owner = d
  OBVIOUS
<1> HIDE DEF d, idle
<1>5. CASE /\ wire' = Send(wire, d, "offer", p, None)
           /\ dev' = [dev EXCEPT ![d] = s]
           /\ pcs' = idle
           /\ UNCHANGED <<quit, accepted, overtaken>>
  <2>1. s \in Manager /\ Alike(s, dev[d])
    BY <1>3, TimersAlike
  <2>2. p \in Pcs \cup {None} /\ None \in Pcs \cup {None} /\ "offer" \in Kinds
    BY Assumed DEF Pcs, Kinds, CallsInv, CallTypeOK
  <2>3. Sends(wire, d, quit')
    BY <1>1, SendsNothing
  <2>4. Sends(wire', d, quit')
    BY <1>1, <1>4, <1>5, <2>2, <2>3, SendsSent
  <2> HIDE DEF s
  <2> QED BY <1>1, <1>2, <1>5, <2>1, <2>4, AlikeKeeps
<1>6. CASE Catch(d, dev[d], idle)
  <2>1. StepOf(d, Finish(dev[d]))
    BY <1>1, <1>2, <1>3, <1>6, CatchAlike
  <2> QED BY <1>1, <2>1, StepKeepsInv
<1> QED BY <1>2, <1>5, <1>6

LEMMA AnswerKeeps ==
  ASSUME CallsInv, NEW p \in 1 .. made, AnswerReady(p)
  PROVE  CallsInv'
<1> DEFINE d == pcs[p].owner
           idle == [pcs EXCEPT ![p].op = "none"]
           r == [dev[d] EXCEPT !.remoteSet = TRUE]
           s == Answered(dev[d])
<1>1. /\ d \in Devices /\ PcStep(d, idle, made)
      /\ \A x \in 1 .. made : idle[x].remote = pcs[x].remote /\ idle[x].open = pcs[x].open
  BY IdleRow
<1>2. /\ UNCHANGED <<todo, made, online, placed, drops, toggles>>
      /\ \/ /\ wire' = Send(wire, d, "answer", p, pcs[p].remote)
            /\ dev' = [dev EXCEPT ![d] = s]
            /\ pcs' = idle
            /\ UNCHANGED <<quit, accepted, overtaken>>
         \/ Catch(d, r, idle)
  BY DEF AnswerReady, Answered, history, CallsInv, CallTypeOK
<1>3. dev[d] \in Manager /\ "ring" \in Timers
  BY <1>1 DEF CallsInv, CallTypeOK, Timers
<1>4. r \in Manager /\ Alike(r, dev[d])
  BY <1>3, TimersAlike
<1>5. pcs[p].owner = d
  OBVIOUS
<1> HIDE DEF d, idle, r
<1>6. CASE /\ wire' = Send(wire, d, "answer", p, pcs[p].remote)
           /\ dev' = [dev EXCEPT ![d] = s]
           /\ pcs' = idle
           /\ UNCHANGED <<quit, accepted, overtaken>>
  <2>1. s \in Manager /\ Alike(s, dev[d])
    BY <1>3, AnsweredAlike
  <2>2. p \in Pcs \cup {None} /\ pcs[p].remote \in Pcs \cup {None} /\ "answer" \in Kinds
    BY Assumed, RowOf DEF Pcs, Kinds, Connection, CallsInv, CallTypeOK
  <2>3. Sends(wire, d, quit')
    BY <1>1, SendsNothing
  <2>4. Sends(wire', d, quit')
    BY <1>1, <1>5, <1>6, <2>2, <2>3, SendsSent
  <2> HIDE DEF s
  <2> QED BY <1>1, <1>2, <1>6, <2>1, <2>4, AlikeKeeps
<1>7. CASE Catch(d, r, idle)
  <2>1. StepOf(d, Finish(r))
    BY <1>1, <1>2, <1>4, <1>7, CatchAlike
  <2> QED BY <1>1, <2>1, StepKeepsInv
<1> QED BY <1>2, <1>6, <1>7

LEMMA RemoteKeeps ==
  ASSUME CallsInv, NEW p \in 1 .. made, RemoteSet(p)
  PROVE  CallsInv'
<1> DEFINE d == pcs[p].owner
           idle == [pcs EXCEPT ![p].op = "none"]
           s == Answered(dev[d])
<1>1. /\ d \in Devices /\ PcStep(d, idle, made)
      /\ \A x \in 1 .. made : idle[x].remote = pcs[x].remote /\ idle[x].open = pcs[x].open
  BY IdleRow
<1>2. /\ UNCHANGED <<todo, accepted, made, quit, overtaken, online, placed, drops, toggles, wire>>
      /\ dev' = [dev EXCEPT ![d] = s] /\ pcs' = idle
  BY DEF RemoteSet, history, CallsInv, CallTypeOK
<1>3. s \in Manager /\ Alike(s, dev[d])
  BY <1>1, AnsweredAlike DEF CallsInv, CallTypeOK
<1> HIDE DEF d, idle, s
<1>4. Sends(wire', d, quit')
  BY <1>1, <1>2, SendsNothing
<1> QED BY <1>1, <1>2, <1>3, <1>4, AlikeKeeps

LEMMA NegotiateKeeps ==
  ASSUME CallsInv, NEW p \in 1 .. made, Negotiate(p)
  PROVE  CallsInv'
BY OfferKeeps, AnswerKeeps, RemoteKeeps DEF Negotiate

-----------------------------------------------------------------------------
\* Timers and the browser's events.

LEMMA TimeoutKeeps ==
  ASSUME CallsInv, NEW d \in Devices, NEW t \in Timers, Timeout(d, t)
  PROVE  CallsInv'
<1> DEFINE s == IF dev[d].timer = t THEN ClearTimeout(dev[d])
                ELSE [dev[d] EXCEPT !.strays = @ \ {t}]
<1>1. /\ UNCHANGED <<todo, made, online, placed, drops, toggles>>
      /\ \/ /\ dev' = [dev EXCEPT ![d] = s]
            /\ UNCHANGED <<pcs, wire, quit, accepted, overtaken>>
         \/ Finishes(d, s, wire, pcs) /\ UNCHANGED quit
         \/ Catch(d, s, pcs)
  BY DEF Timeout, history
<1>2. s \in Manager /\ Alike(s, dev[d])
  BY TimersAlike DEF CallsInv, CallTypeOK
<1>3. PcStep(d, pcs, made) /\ Sends(wire, d, quit') /\ ManagerOK(d)
  BY SamePcs, SendsNothing DEF CallsInv
<1> HIDE DEF s
<1>4. CASE dev' = [dev EXCEPT ![d] = s] /\ UNCHANGED <<pcs, wire, quit, accepted, overtaken>>
  <2>1. PcStep(d, pcs', made) /\ Sends(wire', d, quit')
    BY <1>3, <1>4
  <2> QED BY <1>1, <1>2, <1>4, <2>1, AlikeKeeps
<1>5. CASE Finishes(d, s, wire, pcs) /\ UNCHANGED quit
  <2>1. CountsOK' /\ PcStep(d, pcs, made') /\ todo' \in [Devices -> [Awaits -> Nat]]
        /\ (\A e \in Devices \ {d} : todo'[e] = todo[e])
        /\ quit \subseteq quit' /\ quit' \in SUBSET Calls
    BY <1>1, <1>3, <1>5, SameCounts DEF CallsInv, CallTypeOK
  <2>2. /\ s.pc # None => s.pc \in 1 .. made' /\ pcs[s.pc].owner = d
        /\ s.phase = "incoming" => s.call # None
        /\ s.offer # NoOffer => Claims(d, s.offer.pc, s.offer.call)
    BY <1>1, <1>2, <1>3 DEF ManagerOK, Alike
  <2>3. ASSUME d \notin overtaken'
        PROVE  /\ TidyManager(s, todo'[d], accepted[d])
               /\ \A p \in 1 .. made' : pcs[p].open /\ pcs[p].owner = d => s.pc = p
    <3>1. SoundOK(d)
      BY <1>5, <2>3, NotOvertakenBefore DEF CallsInv
    <3> QED BY <1>1, <1>2, <3>1, AlikeTidy DEF SoundOK, Alike
  <2>4. StepOf(d, Finish(s))
    BY <1>2, <1>3, <1>5, <2>1, <2>2, <2>3, FinishesStep
  <2> QED BY <2>4, StepKeepsInv
<1>6. CASE Catch(d, s, pcs)
  <2>1. StepOf(d, Finish(s))
    BY <1>1, <1>2, <1>3, <1>6, CatchAlike
  <2> QED BY <2>1, StepKeepsInv
<1> QED BY <1>1, <1>4, <1>5, <1>6

LEMMA EndTimerKeeps ==
  ASSUME CallsInv, NEW d \in Devices, EndTimer(d)
  PROVE  CallsInv'
<1> DEFINE s == InitialState(dev[d])
<1>1. /\ dev[d].phase = "ended" /\ dev' = [dev EXCEPT ![d] = s]
      /\ UNCHANGED <<todo, pcs, made, wire, online, placed, drops, toggles, quit, accepted, overtaken>>
  BY DEF EndTimer, history, CallsInv, CallTypeOK
<1>2. /\ s \in Manager /\ s.phase = "idle" /\ s.call = None /\ ~s.muted /\ s.leak = dev[d].leak
      /\ s.track = dev[d].track /\ s.pc = dev[d].pc /\ s.offer = dev[d].offer
  <2>1. dev[d] \in Manager /\ "idle" \in Phases /\ FALSE \in BOOLEAN
    BY DEF CallsInv, CallTypeOK, Phases
  <2>2. s \in Manager
    BY <2>1 DEF InitialState, Manager
  <2>3. /\ s.phase = "idle" /\ s.call = None /\ ~s.muted /\ s.leak = dev[d].leak
        /\ s.track = dev[d].track /\ s.pc = dev[d].pc /\ s.offer = dev[d].offer
    BY <2>1 DEF InitialState, Manager
  <2> QED BY <2>2, <2>3
<1> HIDE DEF s
<1>3. TaskStep(d) /\ Sends(wire', d, quit') /\ CountsOK'
  BY <1>1, SameTasks, SendsNothing, SameCounts
<1>4. ASSUME d \notin overtaken
      PROVE  TidyManager(s, todo'[d], accepted'[d]) /\ (s.pc # None => s.call = dev[d].call)
  <2>1. /\ todo[d] = NoTasks /\ dev[d].track = "none" /\ dev[d].pc = None /\ ~dev[d].leak
    BY <1>1, <1>4, FreeIsTidy DEF Busy
  <2> QED BY <1>1, <1>2, <2>1 DEF TidyManager, Busy
<1> QED BY <1>1, <1>2, <1>3, <1>4, QuietStep

LEMMA ConnectsKeeps ==
  ASSUME CallsInv, NEW p \in 1 .. made, Connects(p)
  PROVE  CallsInv'
<1> DEFINE d == pcs[p].owner
           after == [pcs EXCEPT ![p].conn = "connected"]
           s == [ClearTimeout(dev[d]) EXCEPT !.phase = "active"]
<1>1. /\ d \in Devices /\ PcStep(d, after, made)
      /\ \A x \in 1 .. made : after[x].remote = pcs[x].remote /\ after[x].open = pcs[x].open
  BY ConnRow
<1>2. /\ pcs[p].open /\ pcs' = after
      /\ dev' = [dev EXCEPT ![d] = s] \/ dev' = dev
      /\ UNCHANGED <<todo, made, wire, online, placed, drops, toggles, quit, accepted, overtaken>>
  BY DEF Connects, history, CallsInv, CallTypeOK
<1>3. pcs[p].owner = d
  OBVIOUS
<1> HIDE DEF d, after
<1>4. /\ s \in Manager /\ s.phase = "active" /\ s.call = dev[d].call
      /\ s.muted = dev[d].muted /\ s.eager = dev[d].eager
      /\ s.outgoing = dev[d].outgoing /\ s.leak = dev[d].leak
      /\ s.track = dev[d].track /\ s.pc = dev[d].pc /\ s.offer = dev[d].offer
  <2>1. dev[d] \in Manager /\ "active" \in Phases
    BY <1>1 DEF CallsInv, CallTypeOK, Phases
  <2> QED BY <2>1 DEF ClearTimeout, Manager
<1> HIDE DEF s
<1>5. PcStep(d, pcs', made) /\ Sends(wire', d, quit')
      /\ \A x \in 1 .. made : pcs'[x].remote = pcs[x].remote /\ pcs'[x].open = pcs[x].open
  BY <1>1, <1>2, SendsNothing
<1>6. ASSUME d \notin overtaken PROVE TidyManager(s, todo[d], accepted[d])
  <2>1. SoundOK(d)
    BY <1>1, <1>6 DEF CallsInv
  <2>2. dev[d].pc = p /\ p # None
    BY <1>2, <1>3, <2>1 DEF SoundOK, None
  <2> QED BY <1>4, <2>1, <2>2 DEF SoundOK, TidyManager, Busy
<1>7. s.phase # "incoming"
  BY <1>4
<1>8. CASE dev' = [dev EXCEPT ![d] = s]
  BY <1>1, <1>2, <1>4, <1>5, <1>6, <1>7, <1>8, RowKeeps
<1>9. CASE dev' = dev
  <2>1. dev[d] \in Manager /\ dev' = [dev EXCEPT ![d] = dev[d]] /\ Alike(dev[d], dev[d])
    BY <1>1, <1>9 DEF CallsInv, CallTypeOK, Alike
  <2> QED BY <1>1, <1>2, <1>5, <2>1, AlikeKeeps
<1> QED BY <1>2, <1>8, <1>9

LEMMA FailsKeeps ==
  ASSUME CallsInv, NEW p \in 1 .. made, ConnectionFails(p)
  PROVE  CallsInv'
<1> DEFINE d == pcs[p].owner
           after == [pcs EXCEPT ![p].conn = "failed"]
<1>1. /\ d \in Devices /\ PcStep(d, after, made)
      /\ \A x \in 1 .. made : after[x].remote = pcs[x].remote /\ after[x].open = pcs[x].open
  BY ConnRow
<1>2. /\ UNCHANGED <<todo, made, online, placed, drops, toggles>>
      /\ \/ Catch(d, dev[d], after)
         \/ pcs' = after /\ UNCHANGED <<dev, wire, quit, accepted, overtaken>>
  BY DEF ConnectionFails, history
<1> HIDE DEF d, after
<1>3. dev[d] \in Manager /\ Alike(dev[d], dev[d]) /\ dev = [dev EXCEPT ![d] = dev[d]]
  BY <1>1 DEF Alike, CallsInv, CallTypeOK
<1>4. CASE Catch(d, dev[d], after)
  <2>1. StepOf(d, Finish(dev[d]))
    BY <1>1, <1>2, <1>3, <1>4, CatchAlike
  <2> QED BY <1>1, <2>1, StepKeepsInv
<1>5. CASE pcs' = after /\ UNCHANGED <<dev, wire, quit, accepted, overtaken>>
  <2>1. dev' = [dev EXCEPT ![d] = dev[d]]
    BY <1>3, <1>5
  <2>2. PcStep(d, pcs', made) /\ Sends(wire', d, quit')
        /\ \A x \in 1 .. made : pcs'[x].remote = pcs[x].remote /\ pcs'[x].open = pcs[x].open
    BY <1>1, <1>5, SendsNothing
  <2> QED BY <1>1, <1>2, <1>3, <1>5, <2>1, <2>2, AlikeKeeps
<1> QED BY <1>2, <1>4, <1>5

-----------------------------------------------------------------------------
\* Hanging up, sockets and signalling.

\* A step of the wire, of what is given up and of who is there.
LEMMA WireStep ==
  ASSUME CallsInv, NEW d \in Devices, UNCHANGED <<dev, todo, pcs, made, accepted, overtaken>>,
         Sends(wire', d, quit'), CountsOK', quit \subseteq quit', quit' \in SUBSET Calls
  PROVE  CallsInv'
<1>1. ManagerStep(d, dev[d]) /\ TaskStep(d)
  BY SameManager, SameTasks
<1>2. PcStep(d, pcs', made')
  BY SamePcs
<1>3. MarkStep
  BY DEF MarkStep, CallsInv, CallTypeOK
<1>4. dev[d] \in Manager /\ Alike(dev[d], dev[d])
  BY DEF Alike, CallsInv, CallTypeOK
<1>5. d \notin overtaken' => SoundStep(d, dev[d])
  BY <1>4, AlikeSound
<1>6. StepOf(d, dev[d])
  BY <1>1, <1>2, <1>3, <1>5 DEF StepOf
<1> QED BY <1>6, StepKeepsInv

\* finish() after hanging up, whatever happens to the wire.
LEMMA HangingUp ==
  ASSUME CallsInv, NEW d \in Devices, NEW w, Quits(d), Finishes(d, dev[d], w, pcs),
         Sends(w, d, quit'), CountsOK', UNCHANGED <<todo, made>>
  PROVE  CallsInv'
<1>1. dev[d] \in Manager /\ ManagerOK(d) /\ PcStep(d, pcs, made')
      /\ todo' \in [Devices -> [Awaits -> Nat]] /\ \A e \in Devices \ {d} : todo'[e] = todo[e]
  BY SamePcs DEF CallsInv, CallTypeOK
<1>2. dev[d].pc # None => dev[d].pc \in 1 .. made' /\ pcs[dev[d].pc].owner = d
  BY <1>1 DEF ManagerOK
<1>3. ASSUME d \notin overtaken'
      PROVE  /\ TidyManager(dev[d], todo'[d], accepted[d])
             /\ \A p \in 1 .. made' : pcs[p].open /\ pcs[p].owner = d => dev[d].pc = p
  <2>1. SoundOK(d)
    BY <1>3, NotOvertakenBefore DEF CallsInv
  <2> QED BY <2>1 DEF SoundOK
<1>4. StepOf(d, Finish(dev[d]))
  BY <1>1, <1>2, <1>3, QuitsStep
<1> QED BY <1>4, StepKeepsInv

LEMMA HangUpKeeps ==
  ASSUME CallsInv, NEW d \in Devices, HangUp(d)
  PROVE  CallsInv'
<1> DEFINE type == HangUpMessage(d)
<1>1. /\ UNCHANGED <<todo, made, online, placed, drops, toggles>> /\ Quits(d)
      /\ Finishes(d, dev[d], Send(wire, d, type, None, None), pcs)
  BY DEF HangUp
<1>2. type \in {"end", "reject"}
  BY DEF HangUpMessage
<1> HIDE DEF type
<1>3. Sends(Send(wire, d, type, None, None), d, quit')
  BY <1>1, <1>2, SendsGivenUp
<1>4. CountsOK'
  BY <1>1, SameCounts
<1> QED BY <1>1, <1>3, <1>4, HangingUp

LEMMA DetachKeeps ==
  ASSUME CallsInv, NEW d \in Devices, Detach(d)
  PROVE  CallsInv'
<1> DEFINE type == HangUpMessage(d)
           w == Send(wire, d, type, None, None)
<1>1. /\ drops < MaxDrops /\ online' = online \ {d} /\ drops' = drops + 1
      /\ UNCHANGED <<todo, made, placed, toggles>>
      /\ \/ Quits(d) /\ Finishes(d, dev[d], Unplugged(w, d), pcs)
         \/ wire' = Unplugged(wire, d) /\ UNCHANGED <<dev, pcs, quit, accepted, overtaken>>
  BY DEF Detach, history
<1>2. CountsOK'
  BY <1>1, Assumed DEF CountsOK, CallsInv, CallTypeOK
<1>3. CASE Quits(d) /\ Finishes(d, dev[d], Unplugged(w, d), pcs)
  <2>1. type \in {"end", "reject"}
    BY DEF HangUpMessage
  <2> HIDE DEF type
  <2>2. Sends(w, d, quit')
    BY <1>3, <2>1, SendsGivenUp
  <2> HIDE DEF w
  <2>3. Sends(Unplugged(w, d), d, quit')
    BY <2>2, SendsUnplugged
  <2> QED BY <1>1, <1>2, <1>3, <2>3, HangingUp
<1>4. CASE wire' = Unplugged(wire, d) /\ UNCHANGED <<dev, pcs, quit, accepted, overtaken>>
  <2>1. Sends(wire, d, quit')
    BY SendsNothing
  <2>2. Sends(wire', d, quit')
    BY <1>4, <2>1, SendsUnplugged
  <2>3. quit \subseteq quit' /\ quit' \in SUBSET Calls
    BY <1>4 DEF CallsInv, CallTypeOK
  <2> QED BY <1>1, <1>2, <1>4, <2>2, <2>3, WireStep
<1> QED BY <1>1, <1>3, <1>4

LEMMA DisconnectKeeps ==
  ASSUME CallsInv, NEW d \in Devices, Disconnect(d)
  PROVE  CallsInv'
<1>1. /\ drops < MaxDrops /\ online' = online \ {d} /\ drops' = drops + 1
      /\ wire' = Unplugged(wire, d)
      /\ UNCHANGED <<dev, todo, pcs, made, placed, toggles, quit, accepted, overtaken>>
  BY DEF Disconnect, history
<1>2. CountsOK'
  BY <1>1, Assumed DEF CountsOK, CallsInv, CallTypeOK
<1>3. Sends(wire, d, quit')
  BY SendsNothing
<1>4. Sends(wire', d, quit')
  BY <1>1, <1>3, SendsUnplugged
<1>5. quit \subseteq quit' /\ quit' \in SUBSET Calls
  BY <1>1 DEF CallsInv, CallTypeOK
<1> QED BY <1>1, <1>2, <1>4, <1>5, WireStep

LEMMA ConnectKeeps ==
  ASSUME CallsInv, NEW d \in Devices, Connect(d)
  PROVE  CallsInv'
<1>1. /\ online' = online \cup {d}
      /\ UNCHANGED <<dev, todo, pcs, made, wire, placed, drops, toggles, quit, accepted, overtaken>>
  BY DEF Connect, history
<1>2. CountsOK' /\ Sends(wire', d, quit')
  BY <1>1, SendsNothing DEF CountsOK, CallsInv, CallTypeOK
<1>3. quit \subseteq quit' /\ quit' \in SUBSET Calls
  BY <1>1 DEF CallsInv, CallTypeOK
<1> QED BY <1>1, <1>2, <1>3, WireStep

\* What a page that reacts has been told.
LEMMA Reacts ==
  ASSUME NEW s, NEW m \in Message, NEW mine \in BOOLEAN, NEW reaction,
         Reaction(s, m, mine) = reaction
  PROVE  /\ reaction = "ring" => m.type = "offer" /\ ~mine /\ ~Busy(s)
         /\ reaction = "ringing" => s.phase = "outgoing"
         /\ reaction = "answered" =>
              m.type = "answer" /\ ~mine /\ m.call = s.call /\ s.outgoing
         /\ reaction = "finish" =>
              /\ m.call = s.call
              /\ s.phase = "incoming" \/ m.type \in {"end", "reject", "busy", "unavailable"}
<1>1. m.type \in Kinds
  BY DEF Message
<1>2. CASE m.type = "offer"
  BY <1>2 DEF Reaction
<1>3. CASE m.type # "offer" /\ m.call # s.call
  BY <1>3 DEF Reaction
<1>4. CASE m.type # "offer" /\ m.call = s.call /\ mine
  BY <1>4 DEF Reaction
<1>5. CASE m.type # "offer" /\ m.call = s.call /\ ~mine
  <2>1. CASE m.type = "ringing"
    BY <1>5, <2>1 DEF Reaction
  <2>2. CASE m.type = "answer"
    BY <1>5, <2>2 DEF Reaction
  <2>3. CASE m.type = "end"
    BY <1>5, <2>3 DEF Reaction
  <2>4. CASE m.type \in {"reject", "busy", "unavailable"}
    BY <1>5, <2>4 DEF Reaction
  <2> QED BY <1>1, <1>5, <2>1, <2>2, <2>3, <2>4 DEF Kinds
<1> QED BY <1>2, <1>3, <1>4, <1>5

\* The message that d hears from s, and what it made of it.
LEMMA Heard ==
  ASSUME CallsInv, NEW s \in Devices, NEW d \in Devices, NEW reaction, Hears(s, d, reaction)
  PROVE  /\ \A calls : Sends(Taken(s, d), d, calls)
         /\ Msg(s, d) \in Message /\ Honest(s, Msg(s, d)) /\ GivenUp(Msg(s, d), quit)
         /\ reaction = "ring" =>
              Msg(s, d).type = "offer" /\ ~Busy(dev[d]) /\ Owner[s] # Owner[d]
         /\ reaction = "ringing" => dev[d].phase = "outgoing"
         /\ reaction = "answered" =>
              /\ Msg(s, d).type = "answer" /\ Owner[s] # Owner[d]
              /\ Msg(s, d).call = dev[d].call /\ dev[d].outgoing
         /\ reaction = "finish" =>
              /\ Msg(s, d).call = dev[d].call
              /\ \/ dev[d].phase = "incoming"
                 \/ Msg(s, d).type \in {"end", "reject", "busy", "unavailable"}
<1> DEFINE m == Msg(s, d)
           mine == Owner[s] = Owner[d] /\ m.type # "unavailable"
<1>1. wire[s][d] # << >> /\ Reaction(dev[d], m, mine) = reaction
  BY DEF Hears
<1>2. /\ \A calls : Sends(Taken(s, d), d, calls)
      /\ m \in Message /\ Honest(s, m) /\ GivenUp(m, quit)
  BY <1>1, SendsTaken
<1>3. mine \in BOOLEAN
  OBVIOUS
<1>4. ~mine /\ m.type # "unavailable" => Owner[s] # Owner[d]
  OBVIOUS
<1> HIDE DEF m, mine
<1>5. /\ reaction = "ring" => m.type = "offer" /\ ~mine /\ ~Busy(dev[d])
      /\ reaction = "ringing" => dev[d].phase = "outgoing"
      /\ reaction = "answered" =>
           m.type = "answer" /\ ~mine /\ m.call = dev[d].call /\ dev[d].outgoing
      /\ reaction = "finish" =>
           /\ m.call = dev[d].call
           /\ dev[d].phase = "incoming" \/ m.type \in {"end", "reject", "busy", "unavailable"}
  <2>1. m \in Message /\ mine \in BOOLEAN /\ Reaction(dev[d], m, mine) = reaction
    BY <1>1, <1>2, <1>3
  <2> QED BY ONLY <2>1, Reacts
<1>6. /\ reaction = "ring" => m.type = "offer" /\ ~Busy(dev[d]) /\ Owner[s] # Owner[d]
      /\ reaction = "answered" =>
           m.type = "answer" /\ Owner[s] # Owner[d] /\ m.call = dev[d].call /\ dev[d].outgoing
  BY <1>4, <1>5
<1> QED BY <1>2, <1>5, <1>6 DEF m

LEMMA BusyKeeps ==
  ASSUME CallsInv, NEW s \in Devices, NEW d \in Devices, HearsBusy(s, d)
  PROVE  CallsInv'
<1> DEFINE told == [type |-> "busy", call |-> Msg(s, d).call, pc |-> None, for |-> None]
<1>1. /\ Hears(s, d, "busy") /\ wire' = Relay(Taken(s, d), d, told)
      /\ quit' = quit \cup {Msg(s, d).call}
      /\ UNCHANGED <<dev, todo, pcs, made, online, placed, drops, toggles, accepted, overtaken>>
  BY DEF HearsBusy
<1>2. Sends(Taken(s, d), d, quit') /\ Msg(s, d) \in Message
  BY <1>1, Heard
<1>3. Msg(s, d).call \in Calls
  BY <1>2 DEF Message
<1>4. told \in Message /\ Honest(d, told) /\ GivenUp(told, quit')
  BY <1>1, <1>3 DEF Message, Kinds, Honest, GivenUp
<1> HIDE DEF told
<1>5. Sends(wire', d, quit')
  BY <1>1, <1>2, <1>4, SendsRelayed
<1>6. CountsOK' /\ quit \subseteq quit' /\ quit' \in SUBSET Calls
  BY <1>1, <1>3, SameCounts DEF CallsInv, CallTypeOK
<1> QED BY <1>1, <1>5, <1>6, WireStep

LEMMA IgnoreKeeps ==
  ASSUME CallsInv, NEW s \in Devices, NEW d \in Devices, HearsNothing(s, d)
  PROVE  CallsInv'
<1>1. /\ Hears(s, d, "ignore") /\ wire' = Taken(s, d)
      /\ UNCHANGED <<dev, todo, pcs, made, online, placed, drops, toggles, quit, accepted, overtaken>>
  BY DEF HearsNothing, history
<1>2. Sends(wire', d, quit')
  BY <1>1, Heard
<1>3. CountsOK' /\ quit \subseteq quit' /\ quit' \in SUBSET Calls
  BY <1>1, SameCounts DEF CallsInv, CallTypeOK
<1> QED BY <1>1, <1>2, <1>3, WireStep

LEMMA RingKeeps ==
  ASSUME CallsInv, NEW s \in Devices, NEW d \in Devices, HearsOffer(s, d)
  PROVE  CallsInv'
<1> DEFINE m == Msg(s, d)
           told == [type |-> "ringing", call |-> m.call, pc |-> None, for |-> None]
           r == InitialState(Reset(dev[d]))
           o == [call |-> m.call, pc |-> m.pc]
           n == [r EXCEPT !.phase = "incoming", !.call = m.call, !.offer = o]
           q == SetTimeout(n, "incoming")
<1>1. /\ Hears(s, d, "ring") /\ dev' = [dev EXCEPT ![d] = q]
      /\ pcs' = CloseIn(pcs, dev[d].pc)
      /\ wire' = Relay(Taken(s, d), d, told)
      /\ UNCHANGED <<todo, made, online, placed, drops, toggles, quit, accepted, overtaken>>
  BY DEF HearsOffer, history, CallsInv, CallTypeOK
<1>2. /\ Sends(Taken(s, d), d, quit') /\ m \in Message /\ Honest(s, m)
      /\ m.type = "offer" /\ ~Busy(dev[d]) /\ Owner[s] # Owner[d]
  BY <1>1, Heard
<1>3. m.call \in Calls /\ m.call # None /\ m.pc \in 1 .. made /\ m.pc \in Pcs
      /\ Claims(d, m.pc, m.call)
  BY <1>2, Assumed DEF Message, Honest, Claims, Calls, None, Pcs, CallsInv, CallTypeOK
<1>4. /\ r \in Manager /\ r.leak = dev[d].leak /\ ~r.muted /\ ~r.eager
      /\ r.track = "none" /\ r.pc = None
  BY ResetManager DEF CallsInv, CallTypeOK
<1> HIDE DEF m, r
<1>5. o \in Offer /\ o.call = m.call /\ o.pc = m.pc
  BY <1>3 DEF Offer
<1> HIDE DEF o
<1>6. /\ n \in Manager /\ n.phase = "incoming" /\ n.call = m.call /\ ~n.muted
      /\ n.leak = dev[d].leak /\ n.track = "none" /\ n.pc = None /\ n.offer = o
  <2>1. "incoming" \in Phases
    BY DEF Phases
  <2> QED BY <1>3, <1>4, <1>5, <2>1 DEF Manager
<1> HIDE DEF n
<1>7. q \in Manager /\ Alike(q, n)
  <2>1. "incoming" \in Timers
    BY DEF Timers
  <2> QED BY <1>6, <2>1, TimersAlike
<1> HIDE DEF q
<1>8. told \in Message /\ Honest(d, told) /\ GivenUp(told, quit')
  BY <1>3 DEF Message, Kinds, Honest, GivenUp
<1> HIDE DEF told
<1>9. Sends(wire', d, quit')
  BY <1>1, <1>2, <1>8, SendsRelayed
<1>10. CountsOK' /\ TaskStep(d)
  BY <1>1, SameCounts, SameTasks
<1>11. /\ q.pc = None /\ q.phase = "incoming" => q.call # None
       /\ q.offer # NoOffer => Claims(d, q.offer.pc, q.offer.call)
  BY <1>3, <1>5, <1>6, <1>7 DEF Alike
<1>12. q.pc = None
  BY <1>6, <1>7 DEF Alike
<1>13. ASSUME d \notin overtaken PROVE TidyManager(q, todo'[d], accepted'[d])
  <2>1. todo[d] = NoTasks /\ ~dev[d].leak
    BY <1>2, <1>13, FreeIsTidy
  <2>2. TidyManager(n, NoTasks, accepted[d])
    BY <1>3, <1>5, <1>6, <2>1 DEF TidyManager, Busy
  <2> QED BY <1>1, <1>7, <2>1, <2>2, AlikeTidy
<1>14. q.phase = "incoming" => q.call # None
  BY <1>11, <1>12
<1> QED BY <1>1, <1>7, <1>9, <1>10, <1>11, <1>12, <1>13, <1>14, AfreshStep

LEMMA RingingKeeps ==
  ASSUME CallsInv, NEW s \in Devices, NEW d \in Devices, HearsRinging(s, d)
  PROVE  CallsInv'
<1> DEFINE r == [dev[d] EXCEPT !.phase = "ringing"]
<1>1. /\ Hears(s, d, "ringing") /\ wire' = Taken(s, d) /\ dev' = [dev EXCEPT ![d] = r]
      /\ UNCHANGED <<todo, pcs, made, online, placed, drops, toggles, quit, accepted, overtaken>>
  BY DEF HearsRinging, history
<1>2. Sends(wire', d, quit') /\ dev[d].phase = "outgoing"
  BY <1>1, Heard
<1>3. /\ r \in Manager /\ r.phase = "ringing" /\ r.call = dev[d].call
      /\ r.muted = dev[d].muted /\ r.eager = dev[d].eager
      /\ r.outgoing = dev[d].outgoing /\ r.leak = dev[d].leak
      /\ r.track = dev[d].track /\ r.pc = dev[d].pc /\ r.offer = dev[d].offer
  <2>1. dev[d] \in Manager /\ "ringing" \in Phases
    BY DEF CallsInv, CallTypeOK, Phases
  <2> QED BY <2>1 DEF Manager
<1> HIDE DEF r
<1>4. CountsOK' /\ TaskStep(d)
  BY <1>1, SameCounts, SameTasks
<1>5. ASSUME d \notin overtaken PROVE TidyManager(r, todo'[d], accepted'[d])
  <2>1. TidyManager(dev[d], todo[d], accepted[d])
    BY <1>5 DEF CallsInv, SoundOK
  <2> QED BY <1>1, <1>2, <1>3, <2>1 DEF TidyManager, Busy
<1>6. r.phase = "incoming" => r.call # None
  BY <1>3
<1> QED BY <1>1, <1>2, <1>3, <1>4, <1>5, <1>6, QuietStep

LEMMA AnsweredKeeps ==
  ASSUME CallsInv, NEW s \in Devices, NEW d \in Devices, HearsAnswer(s, d)
  PROVE  CallsInv'
<1> DEFINE m == Msg(s, d)
           p == dev[d].pc
           r == [ClearTimeout(dev[d]) EXCEPT !.phase = "connecting"]
           row == [pcs[p] EXCEPT !.remote = m.pc, !.op = "remote"]
<1>1. /\ Hears(s, d, "answered") /\ wire' = Taken(s, d)
      /\ \/ p = None /\ dev' = [dev EXCEPT ![d] = Answered(r)] /\ UNCHANGED pcs
         \/ /\ p # None /\ dev' = [dev EXCEPT ![d] = r]
            /\ pcs' = [pcs EXCEPT ![p] = row] \/ pcs' = pcs
      /\ UNCHANGED <<todo, made, online, placed, drops, toggles, quit, accepted, overtaken>>
  BY DEF HearsAnswer, history
<1>2. /\ Sends(wire', d, quit') /\ m \in Message /\ Honest(s, m)
      /\ m.type = "answer" /\ Owner[s] # Owner[d] /\ m.call = dev[d].call /\ dev[d].outgoing
  BY <1>1, Heard
<1>3. m.call \in Calls /\ dev[d].call # None /\ Claims(d, m.pc, dev[d].call)
      /\ m.pc \in Pcs
  BY <1>2 DEF Message, Honest, Claims, Calls, None, Pcs, CallsInv, CallTypeOK
<1>4. dev[d] \in Manager /\ ManagerOK(d)
  BY DEF CallsInv, CallTypeOK
<1>5. /\ r \in Manager /\ r.phase = "connecting" /\ r.call = dev[d].call
      /\ r.muted = dev[d].muted /\ r.eager = dev[d].eager
      /\ r.outgoing = dev[d].outgoing /\ r.leak = dev[d].leak
      /\ r.track = dev[d].track /\ r.pc = dev[d].pc /\ r.offer = dev[d].offer
  <2>1. "connecting" \in Phases
    BY DEF Phases
  <2> QED BY <1>4, <2>1 DEF ClearTimeout, Manager
<1> HIDE DEF m, r
<1>6. CountsOK' /\ TaskStep(d) /\ MarkStep
  BY <1>1, SameCounts, SameTasks, SameMarks
<1>7. ASSUME d \notin overtaken PROVE TidyManager(r, todo'[d], accepted'[d])
  <2>1. TidyManager(dev[d], todo[d], accepted[d])
    BY <1>7 DEF CallsInv, SoundOK
  <2> QED BY <1>1, <1>2, <1>3, <1>5, <2>1 DEF TidyManager, Busy
<1>8. CASE p = None /\ dev' = [dev EXCEPT ![d] = Answered(r)] /\ UNCHANGED pcs
  <2> DEFINE q == Answered(r)
  <2>1. q \in Manager /\ Alike(q, r)
    BY <1>5, AnsweredAlike
  <2> HIDE DEF q
  <2>2. q.pc = dev[d].pc /\ q.offer = dev[d].offer /\ q.phase # "incoming" /\ q.call = dev[d].call
    BY <1>5, <2>1 DEF Alike
  <2>3. d \notin overtaken => TidyManager(q, todo'[d], accepted'[d])
    BY <1>7, <2>1, AlikeTidy
  <2>4. dev' = [dev EXCEPT ![d] = q]
    BY <1>8 DEF q
  <2> QED BY <1>1, <1>2, <1>6, <1>8, <2>1, <2>2, <2>3, <2>4, QuietStep
<1>9. CASE /\ p # None /\ dev' = [dev EXCEPT ![d] = r]
           /\ pcs' = [pcs EXCEPT ![p] = row] \/ pcs' = pcs
  <2>1. p \in 1 .. made /\ pcs[p].owner = d /\ pcs[p] \in Connection
    BY <1>4, <1>9, RowOf DEF ManagerOK
  <2>2. row \in Connection /\ row.owner = d /\ row.open = pcs[p].open /\ row.remote = m.pc
    BY <1>3, <2>1 DEF Connection
  <2> HIDE DEF p, row
  <2>3. /\ PcStep(d, pcs', made) /\ pcs'[p].remote \in {pcs[p].remote, m.pc}
        /\ \A x \in 1 .. made : pcs'[x].owner = pcs[x].owner /\ pcs'[x].open = pcs[x].open
    <3>1. CASE pcs' = [pcs EXCEPT ![p] = row]
      <4>1. d = pcs[p].owner /\ row.owner = pcs[p].owner
        BY <2>1, <2>2
      <4> DEFINE table == [pcs EXCEPT ![p] = row]
      <4>2. /\ PcStep(d, table, made) /\ table[p] = row
            /\ \A x \in 1 .. made : table[x].owner = pcs[x].owner
            /\ \A x \in 1 .. made : table[x].open = pcs[x].open
        BY ONLY CallsInv, <2>1, <2>2, <4>1, SameRows
      <4> HIDE DEF table
      <4>3. pcs' = table
        BY <3>1 DEF table
      <4> QED BY <2>2, <4>2, <4>3
    <3>2. CASE pcs' = pcs
      BY <3>2, SamePcs
    <3> QED BY <1>9, <3>1, <3>2
  <2>4. r.pc = p
    BY <1>5 DEF p
  <2>5. ManagerStep(d, r)
    BY <1>1, <1>4, <1>5, <1>9, <2>1, <2>3, <2>4 DEF ManagerStep, ManagerOK
  <2>6. ASSUME d \notin overtaken' PROVE SoundStep(d, r)
    <3>1. SoundOK(d) /\ TidyManager(r, todo'[d], accepted'[d])
      BY <1>1, <1>7, <2>6 DEF CallsInv
    <3>2. \A x \in 1 .. made' : pcs'[x].open /\ pcs'[x].owner = d => r.pc = x
      BY <1>1, <1>5, <2>3, <3>1 DEF SoundOK
    <3>3. pcs[p].remote = None \/ Claims(d, pcs[p].remote, dev[d].call)
      BY <1>5, <1>9, <2>4, <3>1 DEF SoundOK
    <3>4. r.pc # None => pcs'[r.pc].remote = None \/ Claims(d, pcs'[r.pc].remote, r.call)
      BY <1>3, <1>5, <2>3, <2>4, <3>3
    <3> QED BY <1>5, <3>1, <3>2, <3>4 DEF SoundStep
  <2>7. PcStep(d, pcs', made')
    BY <1>1, <2>3
  <2>8. StepOf(d, r)
    BY <1>2, <1>6, <2>5, <2>6, <2>7 DEF StepOf
  <2> QED BY <2>8, StepKeepsInv
<1> QED BY <1>1, <1>8, <1>9

LEMMA EndKeeps ==
  ASSUME CallsInv, NEW s \in Devices, NEW d \in Devices, HearsEnd(s, d)
  PROVE  CallsInv'
<1>1. /\ Hears(s, d, "finish") /\ UNCHANGED <<todo, made, online, placed, drops, toggles>>
      /\ quit' \in {quit, quit \cup {Msg(s, d).call}}
      /\ Finishes(d, dev[d], Taken(s, d), pcs)
  BY DEF HearsEnd
<1>2. Sends(Taken(s, d), d, quit') /\ Msg(s, d) \in Message
  BY <1>1, Heard
<1>3. Msg(s, d).call \in Calls
  BY <1>2 DEF Message
<1>4. quit \subseteq quit' /\ quit' \in SUBSET Calls
  BY <1>1, <1>3 DEF CallsInv, CallTypeOK
<1>5. dev[d] \in Manager /\ ManagerOK(d) /\ PcStep(d, pcs, made') /\ CountsOK'
      /\ todo' \in [Devices -> [Awaits -> Nat]] /\ \A e \in Devices \ {d} : todo'[e] = todo[e]
  BY <1>1, SamePcs, SameCounts DEF CallsInv, CallTypeOK
<1>6. /\ dev[d].pc # None => dev[d].pc \in 1 .. made' /\ pcs[dev[d].pc].owner = d
      /\ dev[d].phase = "incoming" => dev[d].call # None
      /\ dev[d].offer # NoOffer => Claims(d, dev[d].offer.pc, dev[d].offer.call)
  BY <1>1, <1>5 DEF ManagerOK
<1>7. ASSUME d \notin overtaken'
      PROVE  /\ TidyManager(dev[d], todo'[d], accepted[d])
             /\ \A p \in 1 .. made' : pcs[p].open /\ pcs[p].owner = d => dev[d].pc = p
  <2>1. SoundOK(d)
    BY <1>1, <1>7, NotOvertakenBefore DEF CallsInv
  <2> QED BY <1>1, <2>1 DEF SoundOK
<1>8. StepOf(d, Finish(dev[d]))
  BY <1>1, <1>2, <1>4, <1>5, <1>6, <1>7, FinishesStep
<1> QED BY <1>8, StepKeepsInv

LEMMA HearKeeps ==
  ASSUME CallsInv, NEW s \in Devices, NEW d \in Devices, Hear(s, d)
  PROVE  CallsInv'
BY BusyKeeps, RingKeeps, RingingKeeps, AnsweredKeeps, EndKeeps, IgnoreKeeps DEF Hear

-----------------------------------------------------------------------------
\* The invariant.

LEMMA CallsInit == Init => CallsInv
<1> SUFFICES ASSUME Init PROVE CallsInv
  OBVIOUS
<1>1. /\ made = 0 /\ 1 .. made = {} /\ placed = 0 /\ drops = 0 /\ toggles = 0
      /\ quit = {} /\ overtaken = {} /\ online \in SUBSET Devices
      /\ \A d \in Devices : todo[d] = NoTasks /\ accepted[d] = {}
      /\ \A s, e \in Devices : wire[s][e] = << >>
      /\ pcs = [p \in Pcs |-> Unmade]
  BY DEF Init
<1>2. Unmade \notin Connection
  BY Assumed DEF Unmade, Connection
<1>3. \A d \in Devices : /\ dev[d] \in Manager /\ dev[d].phase = "idle" /\ dev[d].track = "none"
                         /\ ~dev[d].leak /\ dev[d].pc = None /\ dev[d].offer = NoOffer
                         /\ dev[d].call = None /\ ~dev[d].muted
  BY DEF Init, Manager, Phases, NoOffer, Offer
<1>4. CallTypeOK
  <2>1. dev \in [Devices -> Manager]
    BY <1>3 DEF Init
  <2>2. todo \in [Devices -> [Awaits -> Nat]] /\ accepted \in [Devices -> SUBSET Calls]
    BY DEF Init, NoTasks
  <2>3. /\ made \in 0 .. MaxPcs /\ pcs \in [Pcs -> Connection \cup {Unmade}]
        /\ \A p \in Pcs : (p \in 1 .. made) <=> (pcs[p] \in Connection)
    BY <1>1, <1>2, Assumed
  <2>4. wire \in [Devices -> [Devices -> Seq(Message)]]
    BY DEF Init
  <2>5. placed \in 0 .. MaxCalls /\ drops \in 0 .. MaxDrops /\ toggles \in 0 .. MaxToggles
    BY <1>1, Assumed
  <2> QED BY <1>1, <2>1, <2>2, <2>3, <2>4, <2>5 DEF CallTypeOK
<1>5. WireOK
  BY <1>1 DEF WireOK, Held
<1>6. \A d \in Devices : ManagerOK(d)
  BY <1>3 DEF ManagerOK
<1>7. \A d \in Devices : SoundOK(d)
  BY <1>1, <1>3 DEF SoundOK, TidyManager, Busy
<1> QED BY <1>4, <1>5, <1>6, <1>7 DEF CallsInv

LEMMA CallsStep == CallsInv /\ [Next]_vars => CallsInv'
<1> SUFFICES ASSUME CallsInv, [Next]_vars PROVE CallsInv'
  OBVIOUS
<1>1. CASE UNCHANGED vars
  <2> USE <1>1 DEF vars
  <2>1. CallTypeOK'
    BY DEF CallsInv, CallTypeOK
  <2>2. WireOK'
    BY DEF CallsInv, WireOK, Held, Honest, IsOf
  <2>3. \A d \in Devices : ManagerOK(d)'
    BY DEF CallsInv, ManagerOK, Claims, IsOf
  <2>4. \A d \in Devices \ overtaken' : SoundOK(d)'
    BY DEF CallsInv, SoundOK, Claims, IsOf
  <2> QED BY <2>1, <2>2, <2>3, <2>4 DEF CallsInv
<1>2. ASSUME NEW d \in Devices, User(d) PROVE CallsInv'
  BY <1>2, StartKeeps, AcceptKeeps, HangUpKeeps, MuteKeeps DEF User
<1>3. ASSUME NEW d \in Devices, Continue(d) \/ EndTimer(d) \/ (\E t \in Timers : Timeout(d, t))
      PROVE  CallsInv'
  BY <1>3, ContinueKeeps, EndTimerKeeps, TimeoutKeeps
<1>4. ASSUME NEW d \in Devices, NEW s \in Devices, Hear(s, d) PROVE CallsInv'
  BY <1>4, HearKeeps
<1>5. ASSUME NEW p \in 1 .. made, Negotiate(p) \/ Connects(p) \/ ConnectionFails(p)
      PROVE  CallsInv'
  BY <1>5, NegotiateKeeps, ConnectsKeeps, FailsKeeps
<1>6. ASSUME NEW d \in Devices, Disconnect(d) \/ Detach(d) \/ Connect(d) PROVE CallsInv'
  BY <1>6, DisconnectKeeps, DetachKeeps, ConnectKeeps
<1> QED BY <1>1, <1>2, <1>3, <1>4, <1>5, <1>6 DEF Next, Machine

LEMMA CallsInvHolds == Spec => []CallsInv
<1> QED BY CallsInit, CallsStep, PTL DEF Spec

-----------------------------------------------------------------------------
\* What the invariant gives.

\* The manager, its suspended calls, the connections and the signalling keep their types.
THEOREM CallTypes == Spec => []CallTypeOK
<1>1. CallsInv => CallTypeOK
  BY DEF CallsInv
<1> QED BY <1>1, CallsInvHolds, PTL

\* However start(), accept(), offers, answers and hanging up interleave, teardown()
\* leaves neither microphone nor connection behind between calls.
THEOREM CallsCleanUp == Spec => []NothingLeftOpen
<1>1. CallsInv => NothingLeftOpen
  <2> SUFFICES ASSUME CallsInv, NEW d \in Devices \ overtaken
               PROVE  /\ ~dev[d].leak
                      /\ ~Busy(dev[d]) => dev[d].track = "none" /\ todo[d] = NoTasks
                      /\ \A p \in 1 .. made :
                           pcs[p].open /\ pcs[p].owner = d => Busy(dev[d]) /\ dev[d].pc = p
    BY DEF NothingLeftOpen
  <2>1. SoundOK(d) /\ None \notin 1 .. made
    BY DEF CallsInv, None
  <2> QED BY <2>1 DEF SoundOK, TidyManager
<1> QED BY <1>1, CallsInvHolds, PTL

\* getUserMedia's microphone is only ever in a call its owner placed or accepted.
THEOREM MicNeedsConsent == Spec => []Consent
<1>1. CallsInv => Consent
  BY DEF CallsInv, Consent, SoundOK, TidyManager
<1> QED BY <1>1, CallsInvHolds, PTL

\* Pages whose connections have each other's description are in the same call, of two
\* people, whatever offers and answers of earlier calls were still on their way.
THEOREM PeersShareCall == Spec => []TalkTogether
<1>1. CallsInv => TalkTogether
  <2> SUFFICES ASSUME CallsInv, NEW d \in Devices \ overtaken, NEW e \in Devices \ overtaken,
                      dev[d].phase = "active", dev[e].phase = "active",
                      pcs[dev[d].pc].remote = dev[e].pc
               PROVE  dev[d].call = dev[e].call /\ Owner[d] # Owner[e]
    BY DEF TalkTogether
  <2>1. SoundOK(d) /\ SoundOK(e) /\ ManagerOK(e)
    BY DEF CallsInv
  <2>2. dev[d].pc # None /\ dev[e].pc # None
    BY <2>1 DEF SoundOK, TidyManager
  <2>3. Claims(d, dev[e].pc, dev[d].call)
    BY <2>1, <2>2 DEF SoundOK
  <2>4. pcs[dev[e].pc].owner = e
    BY <2>1, <2>2 DEF ManagerOK
  <2> QED BY <2>3, <2>4 DEF Claims, IsOf
<1> QED BY <1>1, CallsInvHolds, PTL

\* toggleMute(): what the button shows is what the microphone does.
THEOREM MuteIsHonest == Spec => []MutedIsSilent
<1>1. CallsInv => MutedIsSilent
  BY DEF CallsInv, MutedIsSilent, SoundOK, TidyManager
<1> QED BY <1>1, CallsInvHolds, PTL

-----------------------------------------------------------------------------
\* A call ends because it was given up.

EndsWell(d) ==
  /\ Busy(dev[d]) /\ dev[d].phase # "incoming"
  /\ dev'[d].phase = "ended" /\ d \notin overtaken'
  => dev[d].call \in quit'

\* A step that ends nothing.
LEMMA EndsNothing ==
  ASSUME CallsInv, NEW d \in Devices, NEW s, dev' = [dev EXCEPT ![d] = s],
         s.phase # "ended" \/ s.phase = dev[d].phase
  PROVE  \A e \in Devices : EndsWell(e)
BY DEF EndsWell, Busy, CallsInv, CallTypeOK

LEMMA EndsSame ==
  ASSUME UNCHANGED dev
  PROVE  \A e \in Devices : EndsWell(e)
BY DEF EndsWell, Busy

\* finish() of a call that was given up, or of one that only rang.
LEMMA EndsFinished ==
  ASSUME CallsInv, NEW d \in Devices, NEW s, NEW w, NEW table, Finishes(d, s, w, table),
         s.phase = "incoming" => dev[d].phase = "incoming",
         Busy(dev[d]) /\ dev[d].phase # "incoming" /\ d \notin overtaken => dev[d].call \in quit'
  PROVE  \A e \in Devices : EndsWell(e)
<1>1. dev' = [dev EXCEPT ![d] = Finish(s)] /\ overtaken \subseteq overtaken'
  BY DEF Finishes
<1>2. \A e \in Devices \ {d} : dev'[e] = dev[e]
  BY <1>1 DEF CallsInv, CallTypeOK
<1> QED BY <1>1, <1>2 DEF EndsWell, Busy

LEMMA EndsQuit ==
  ASSUME CallsInv, NEW d \in Devices, NEW s, NEW w, NEW table, Quits(d),
         Finishes(d, s, w, table), s.phase = "incoming" => dev[d].phase = "incoming"
  PROVE  \A e \in Devices : EndsWell(e)
<1>1. dev[d].call # None => dev[d].call \in quit'
  BY QuitsMarks
<1>2. d \notin overtaken /\ Busy(dev[d]) => dev[d].call # None
  BY DEF CallsInv, SoundOK, TidyManager
<1> QED BY <1>1, <1>2, EndsFinished

LEMMA UserEnds ==
  ASSUME CallsInv, NEW d \in Devices, User(d)
  PROVE  \A e \in Devices : EndsWell(e)
<1>1. dev[d] \in Manager
  BY DEF CallsInv, CallTypeOK
<1>2. CASE Start(d)
  <2> DEFINE r == InitialState(Reset(dev[d]))
             s == [r EXCEPT !.phase = "outgoing", !.outgoing = TRUE, !.call = placed + 1]
  <2>1. dev' = [dev EXCEPT ![d] = s]
    BY <1>2 DEF Start, CallsInv, CallTypeOK
  <2>2. r \in Manager
    BY <1>1, ResetManager
  <2> HIDE DEF r
  <2>3. s.phase = "outgoing"
    BY <2>2 DEF Manager
  <2> HIDE DEF s
  <2> QED BY <2>1, <2>3, EndsNothing
<1>3. CASE Accept(d)
  <2> DEFINE s == [dev[d] EXCEPT !.phase = "connecting"]
  <2>1. dev' = [dev EXCEPT ![d] = s] /\ s.phase = "connecting"
    BY <1>1, <1>3 DEF Accept, Manager
  <2> HIDE DEF s
  <2> QED BY <2>1, EndsNothing
<1>4. CASE HangUp(d)
  <2>1. Quits(d) /\ Finishes(d, dev[d], Send(wire, d, HangUpMessage(d), None, None), pcs)
    BY <1>4 DEF HangUp
  <2> QED BY <2>1, EndsQuit
<1>5. CASE ToggleMute(d)
  <2> DEFINE on == CASE dev[d].track = "none" -> "none"
                     [] dev[d].track # "none" /\ dev[d].muted -> "on"
                     [] OTHER -> "off"
             s == [dev[d] EXCEPT !.muted = ~dev[d].muted,
                                 !.eager = dev[d].eager \/ dev[d].track = "none", !.track = on]
  <2>1. dev' = [dev EXCEPT ![d] = s]
    BY <1>1, <1>5 DEF ToggleMute
  <2> HIDE DEF on
  <2>2. s.phase = dev[d].phase
    BY <1>1 DEF Manager
  <2> HIDE DEF s
  <2> QED BY <2>1, <2>2, EndsNothing
<1> QED BY <1>2, <1>3, <1>4, <1>5 DEF User

LEMMA ContinueEnds ==
  ASSUME CallsInv, NEW d \in Devices, Continue(d)
  PROVE  \A e \in Devices : EndsWell(e)
<1>1. dev[d] \in Manager
  BY DEF CallsInv, CallTypeOK
<1>2. ASSUME NEW mic, NEW ice, MicGranted(d, mic, ice)
      PROVE  \A e \in Devices : EndsWell(e)
  <2> DEFINE s == [dev[d] EXCEPT !.leak = @ \/ dev[d].track # "none", !.track = "on"]
  <2>1. dev' = [dev EXCEPT ![d] = s] /\ s.phase = dev[d].phase
    BY <1>1, <1>2 DEF MicGranted, Manager
  <2> HIDE DEF s
  <2> QED BY <2>1, EndsNothing
<1>3. ASSUME NEW a \in Awaits, PeerFails(d, a)
      PROVE  \A e \in Devices : EndsWell(e)
  <2>1. Quits(d) /\ Finishes(d, dev[d], Send(wire, d, "end", None, None), pcs)
    BY <1>3 DEF PeerFails, Catch
  <2> QED BY <2>1, EndsQuit
<1>4. ASSUME NEW await, NEW usable, NEW op, NEW remote,
             IceArrives(d, await, usable, op, remote)
      PROVE  \A e \in Devices : EndsWell(e)
  <2> DEFINE s == [dev[d] EXCEPT !.pc = made + 1]
             opened == [owner |-> d, remote |-> None, open |-> TRUE, op |-> "none", conn |-> "new"]
             table == [pcs EXCEPT ![made + 1] = opened]
             w == Send(wire, d, "end", None, None)
  <2>1. s.phase = dev[d].phase
    BY <1>1 DEF Manager
  <2>2. \/ dev' = [dev EXCEPT ![d] = s]
        \/ Quits(d) /\ Finishes(d, s, w, table)
    BY <1>4 DEF IceArrives, Catch
  <2> HIDE DEF s, table, w
  <2> QED BY <2>1, <2>2, EndsNothing, EndsQuit
<1> QED BY <1>2, <1>3, <1>4 DEF Continue, StartIce, AcceptIce

LEMMA ConnectionEnds ==
  ASSUME CallsInv, NEW p \in 1 .. made, Negotiate(p) \/ Connects(p) \/ ConnectionFails(p)
  PROVE  \A e \in Devices : EndsWell(e)
<1> DEFINE d == pcs[p].owner
           idle == [pcs EXCEPT ![p].op = "none"]
           failed == [pcs EXCEPT ![p].conn = "failed"]
           r == [dev[d] EXCEPT !.remoteSet = TRUE]
           w == Send(wire, d, "end", None, None)
<1>1. d \in Devices /\ dev[d] \in Manager
  BY IdleRow DEF CallsInv, CallTypeOK
<1>2. /\ r.phase = dev[d].phase /\ SetTimeout(dev[d], "ring").phase = dev[d].phase
      /\ Answered(dev[d]).phase = dev[d].phase
      /\ [ClearTimeout(dev[d]) EXCEPT !.phase = "active"].phase = "active"
  <2>1. "ring" \in Timers
    BY DEF Timers
  <2>2. [ClearTimeout(dev[d]) EXCEPT !.phase = "active"].phase = "active"
    BY <1>1 DEF ClearTimeout, Manager
  <2>3. r.phase = dev[d].phase
    BY <1>1 DEF Manager
  <2> HIDE DEF d, r
  <2> QED BY <1>1, <2>1, <2>2, <2>3, TimersAlike, AnsweredAlike DEF Alike, d
<1>3. \/ dev' = [dev EXCEPT ![d] = SetTimeout(dev[d], "ring")]
      \/ dev' = [dev EXCEPT ![d] = Answered(dev[d])]
      \/ dev' = [dev EXCEPT ![d] = [ClearTimeout(dev[d]) EXCEPT !.phase = "active"]]
      \/ dev' = dev
      \/ Quits(d) /\ (Finishes(d, dev[d], w, idle) \/ Finishes(d, r, w, idle)
                      \/ Finishes(d, dev[d], w, failed))
  <2>1. CASE Negotiate(p)
    BY <2>1 DEF Negotiate, OfferReady, AnswerReady, RemoteSet, Catch, Answered, CallsInv, CallTypeOK
  <2>2. CASE Connects(p)
    BY <2>2 DEF Connects, CallsInv, CallTypeOK
  <2>3. CASE ConnectionFails(p)
    BY <2>3 DEF ConnectionFails, Catch
  <2> QED BY <2>1, <2>2, <2>3
<1> HIDE DEF d, idle, failed, r, w
<1>4. Quits(d) /\ (Finishes(d, dev[d], w, idle) \/ Finishes(d, r, w, idle)
                   \/ Finishes(d, dev[d], w, failed)) => \A e \in Devices : EndsWell(e)
  BY <1>1, <1>2, EndsQuit
<1> QED BY <1>1, <1>2, <1>3, <1>4, EndsNothing, EndsSame

LEMMA TimerEnds ==
  ASSUME CallsInv, NEW d \in Devices, NEW t \in Timers, EndTimer(d) \/ Timeout(d, t)
  PROVE  \A e \in Devices : EndsWell(e)
<1>1. dev[d] \in Manager
  BY DEF CallsInv, CallTypeOK
<1>2. CASE EndTimer(d)
  <2> DEFINE s == InitialState(dev[d])
  <2>1. dev' = [dev EXCEPT ![d] = s] /\ s.phase = "idle"
    BY <1>1, <1>2 DEF EndTimer, InitialState, Manager
  <2> HIDE DEF s
  <2> QED BY <2>1, EndsNothing
<1>3. CASE Timeout(d, t)
  <2> DEFINE s == IF dev[d].timer = t THEN ClearTimeout(dev[d])
                  ELSE [dev[d] EXCEPT !.strays = @ \ {t}]
  <2>1. /\ \/ dev' = [dev EXCEPT ![d] = s]
           \/ Finishes(d, s, wire, pcs) /\ s.phase = "incoming"
           \/ Quits(d) /\ Finishes(d, s, Send(wire, d, "end", None, None), pcs)
    BY <1>3 DEF Timeout, Catch, Due
  <2>2. s.phase = dev[d].phase
    BY <1>1, TimersAlike DEF Alike
  <2> HIDE DEF s
  <2>3. CASE Finishes(d, s, wire, pcs) /\ s.phase = "incoming"
    BY <2>2, <2>3, EndsFinished
  <2>4. CASE Quits(d) /\ Finishes(d, s, Send(wire, d, "end", None, None), pcs)
    BY <2>2, <2>4, EndsQuit
  <2> QED BY <2>1, <2>2, <2>3, <2>4, EndsNothing
<1> QED BY <1>2, <1>3

LEMMA HearEnds ==
  ASSUME CallsInv, NEW s \in Devices, NEW d \in Devices, Hear(s, d)
  PROVE  \A e \in Devices : EndsWell(e)
<1>1. dev[d] \in Manager
  BY DEF CallsInv, CallTypeOK
<1>2. CASE HearsBusy(s, d) \/ HearsNothing(s, d)
  BY <1>2, EndsSame DEF HearsBusy, HearsNothing
<1>3. CASE HearsOffer(s, d)
  <2> DEFINE r == InitialState(Reset(dev[d]))
             n == [r EXCEPT !.phase = "incoming", !.call = Msg(s, d).call,
                            !.offer = [call |-> Msg(s, d).call, pc |-> Msg(s, d).pc]]
             q == SetTimeout(n, "incoming")
  <2>1. dev' = [dev EXCEPT ![d] = q]
    BY <1>3 DEF HearsOffer, CallsInv, CallTypeOK
  <2>2. r \in Manager
    BY <1>1, ResetManager
  <2> HIDE DEF r
  <2>3. q.phase = "incoming"
    BY <2>2 DEF SetTimeout, Manager
  <2> HIDE DEF q
  <2> QED BY <2>1, <2>3, EndsNothing
<1>4. CASE HearsRinging(s, d)
  <2> DEFINE r == [dev[d] EXCEPT !.phase = "ringing"]
  <2>1. dev' = [dev EXCEPT ![d] = r] /\ r.phase = "ringing"
    BY <1>1, <1>4 DEF HearsRinging, Manager
  <2> HIDE DEF r
  <2> QED BY <2>1, EndsNothing
<1>5. CASE HearsAnswer(s, d)
  <2> DEFINE r == [ClearTimeout(dev[d]) EXCEPT !.phase = "connecting"]
             q == Answered(r)
  <2>1. dev' = [dev EXCEPT ![d] = q] \/ dev' = [dev EXCEPT ![d] = r]
    BY <1>5 DEF HearsAnswer
  <2>2. r \in Manager /\ r.phase = "connecting"
    BY <1>1 DEF ClearTimeout, Manager, Phases
  <2> HIDE DEF r
  <2>3. q.phase = "connecting"
    BY <2>2, AnsweredAlike DEF Alike
  <2> HIDE DEF q
  <2> QED BY <2>1, <2>2, <2>3, EndsNothing
<1>6. CASE HearsEnd(s, d)
  <2>1. /\ Hears(s, d, "finish") /\ Finishes(d, dev[d], Taken(s, d), pcs)
        /\ quit' = IF Msg(s, d).type = "unavailable" THEN quit \cup {Msg(s, d).call} ELSE quit
    BY <1>6 DEF HearsEnd
  <2>2. /\ GivenUp(Msg(s, d), quit) /\ Msg(s, d).call = dev[d].call
        /\ \/ dev[d].phase = "incoming"
           \/ Msg(s, d).type \in {"end", "reject", "busy", "unavailable"}
    BY <2>1, Heard
  <2>3. Busy(dev[d]) /\ dev[d].phase # "incoming" /\ d \notin overtaken => dev[d].call \in quit'
    BY <2>1, <2>2 DEF GivenUp
  <2> QED BY <2>1, <2>3, EndsFinished
<1> QED BY <1>2, <1>3, <1>4, <1>5, <1>6 DEF Hear

LEMMA SocketEnds ==
  ASSUME CallsInv, NEW d \in Devices, Disconnect(d) \/ Detach(d) \/ Connect(d)
  PROVE  \A e \in Devices : EndsWell(e)
<1>1. CASE Disconnect(d) \/ Connect(d)
  BY <1>1, EndsSame DEF Disconnect, Connect
<1>2. CASE Detach(d)
  <2> DEFINE w == Unplugged(Send(wire, d, HangUpMessage(d), None, None), d)
  <2>1. UNCHANGED dev \/ (Quits(d) /\ Finishes(d, dev[d], w, pcs))
    BY <1>2 DEF Detach
  <2> HIDE DEF w
  <2> QED BY <2>1, EndsSame, EndsQuit
<1> QED BY <1>1, <1>2

\* finish() ends a call that was placed or accepted only when some page gave up this very
\* call or nobody could hear it: no message of an earlier call, timer or failure does.
THEOREM CallsEndGivenUp == Spec => EndsByItsOwn
<1>1. CallsInv /\ [Next]_vars => [\A d \in Devices : EndsWell(d)]_vars
  <2> SUFFICES ASSUME CallsInv, Next PROVE \A d \in Devices : EndsWell(d)
    OBVIOUS
  <2>1. ASSUME NEW d \in Devices, NEW t \in Timers, EndTimer(d) \/ Timeout(d, t)
        PROVE  \A e \in Devices : EndsWell(e)
    BY <2>1, TimerEnds
  <2>2. "ring" \in Timers
    BY DEF Timers
  <2> QED BY <2>1, <2>2, UserEnds, ContinueEnds, ConnectionEnds, HearEnds, SocketEnds
          DEF Next, Machine
<1> QED BY <1>1, CallsInvHolds, PTL DEF Spec, EndsByItsOwn, EndsWell
=============================================================================
