------------------------ MODULE SyscallStagesProofs ------------------------
(***************************************************************************)
(* Theorems about SyscallStages, for any kinds of syscalls, any hosts and  *)
(* any number of chained syscalls and signals.                             *)
(***************************************************************************)
EXTENDS SyscallStages, SequenceTheorems, TLAPS

\* The fields of a tracee while a stop is handled: restart_how is set.
Handled == Tracees({"CONT", "SYSCALL"})

-----------------------------------------------------------------------------
(* What the operators of the model return                                  *)

LEMMA ConstantNumbers ==
  /\ Syscalls \subseteq Numbers /\ Chained \subseteq Numbers
  /\ Void \in Numbers /\ Subst \in Numbers /\ Faulty \in Numbers
  /\ RestartedAs \in Numbers /\ Launch \in Numbers
  BY StagesAssumption DEF Numbers

LEMMA QueueValues ==
  /\ NoChain \in Queues
  /\ [live |-> TRUE, calls |-> <<Subst>>] \in Queues
  /\ \A c \in Queues : c.live \in BOOLEAN /\ c.calls \in Seq(Numbers)
<1>1. <<>> \in Seq(Numbers) /\ <<Subst>> \in Seq(Numbers)
  BY ConstantNumbers
<1> QED  BY <1>1 DEF NoChain, Queues

LEMMA CallValues ==
  ASSUME NEW nr \in Numbers
  PROVE  /\ NoCall \in Calls
         /\ Call("program", nr) \in Calls /\ Call("chain", nr) \in Calls
         /\ Call("replaced", nr) \in Calls /\ Call("restart", nr) \in Calls
  BY ConstantNumbers DEF Calls, Call, NoCall

\* restart_how is always set when a stop is handled (tracee/event.c:404-409).
LEMMA PreparedType == TypeOK => Prepared \in Handled
  BY DEF TypeOK, Prepared, DefaultHow, Tracees, Handled

\* The next chained syscall is one that was registered.
LEMMA ChainNextType ==
  ASSUME NEW tr \in Handled
  PROVE  ChainNext(tr).t \in Handled /\ ChainNext(tr).queue \in Calls
<1>0. tr.chain \in Queues
  BY DEF Handled, Tracees
<1>1. CASE ~tr.chain.live \/ tr.chain.calls = <<>>
  <2>1. [tr EXCEPT !.chain = NoChain] \in Handled
    BY QueueValues DEF Handled, Tracees
  <2> QED  BY <1>1, <2>1, CallValues, ConstantNumbers DEF ChainNext
<1>2. CASE tr.chain.live /\ tr.chain.calls # <<>>
  <2>1. tr.chain.calls \in Seq(Numbers)
    BY <1>0, QueueValues
  <2>2. Head(tr.chain.calls) \in Numbers /\ Tail(tr.chain.calls) \in Seq(Numbers)
    BY <2>1, <1>2
  <2>3. [tr.chain EXCEPT !.calls = Tail(@)] \in Queues
    BY <2>2, <1>0 DEF Queues
  <2>4. [tr EXCEPT !.chain.calls = Tail(@), !.how = "SYSCALL"] \in Handled
    BY <2>3 DEF Handled, Tracees
  <2> QED  BY <1>2, <2>2, <2>4, CallValues DEF ChainNext
<1> QED  BY <1>1, <1>2

\* A syscall leaves its entry stage with a number and sane fields.
LEMMA TranslateEnterType ==
  ASSUME NEW tr \in Handled, NEW nr \in Numbers, NEW o \in EnterOutcomes(nr)
  PROVE  /\ TranslateEnter(tr, nr, o).t \in Handled
         /\ TranslateEnter(tr, nr, o).nr \in Numbers
<1> DEFINE chained == tr.chain.live
           failed  == ~chained /\ o.res = "err"
           asks    == chained \/ o.ask # "none" \/ (failed /\ host.arm)
           status  == IF failed THEN -1 ELSE 1
           how     == IF asks THEN "SYSCALL" ELSE tr.how
           number  == IF chained \/ o.res = "ok" THEN nr
                      ELSE IF o.res = "subst" THEN Subst ELSE Void
           t1 == [tr EXCEPT !.status  = IF how = "CONT" THEN 0 ELSE status,
                            !.how     = how,
                            !.pending = @ \/ (~chained /\ o.ask = "pending")]
<1>1. status \in {-1, 1} /\ how \in {"CONT", "SYSCALL"}
  BY DEF Handled, Tracees
<1>2. t1 \in Handled
  <2> HIDE DEF status, how
  <2> QED  BY <1>1 DEF Handled, Tracees
<1>3. number \in Numbers
  BY ConstantNumbers
<1>4. [t1 EXCEPT !.chain = [live |-> TRUE, calls |-> <<Subst>>], !.wa = "FAULTY"] \in Handled
  <2> HIDE DEF t1
  <2> QED  BY <1>2, QueueValues DEF Handled, Tracees
<1>5. [t1 EXCEPT !.status = status, !.how = "SYSCALL"] \in Handled
  <2> HIDE DEF t1, status
  <2> QED  BY <1>1, <1>2 DEF Handled, Tracees
<1>6. TranslateEnter(tr, nr, o) =
        CASE number = nr \/ host.canset -> [t |-> t1, nr |-> number, void |-> number = Void]
          [] number # nr /\ number = Subst /\ ~host.canset ->
               [t |-> [t1 EXCEPT !.chain = [live |-> TRUE, calls |-> <<Subst>>], !.wa = "FAULTY"],
                nr |-> Faulty, void |-> FALSE]
          [] OTHER ->
               [t |-> IF how = "CONT" THEN [t1 EXCEPT !.status = status, !.how = "SYSCALL"] ELSE t1,
                nr |-> Faulty, void |-> TRUE]
  BY Zenon DEF TranslateEnter
<1> HIDE DEF t1, status, how, number
<1> QED  BY <1>2, <1>3, <1>4, <1>5, <1>6, ConstantNumbers

\* What the handlers of an exit decide is well formed.
LEMMA ExitOutcomesType ==
  ASSUME NEW nr, NEW room \in Int, NEW o \in ExitOutcomes(nr, room)
  PROVE  /\ o.chain \in Seq(Numbers)
         /\ o.pend \in BOOLEAN /\ o.disable \in BOOLEAN /\ o.again \in BOOLEAN
<1>1. o \in [chain : UNION {[1 .. n -> Chained] : n \in 0 .. room},
            pend  : BOOLEAN, disable : BOOLEAN, again : BOOLEAN]
  BY DEF ExitOutcomes
<1>2. PICK n \in 0 .. room : o.chain \in [1 .. n -> Chained]
  BY <1>1
<1>3. o.chain \in [1 .. n -> Numbers]
  BY <1>2, ConstantNumbers
<1> QED  BY <1>1, <1>3

\* An exit handler adds to the chain and never leaves a broken one.
LEMMA ExitEffectsType ==
  ASSUME NEW tr \in Handled, NEW o,
         o.chain \in Seq(Numbers),
         o.pend \in BOOLEAN, o.disable \in BOOLEAN, o.again \in BOOLEAN
  PROVE  /\ ExitEffects(tr, o) \in Handled
         /\ o.again /\ Requested(tr) => ExitEffects(tr, o).restore
<1> DEFINE add(u)  == IF o.chain = <<>> THEN u
                      ELSE [u EXCEPT !.chain = [live |-> TRUE, calls |-> @.calls \o o.chain]]
           done(u) == [u EXCEPT !.wa      = "INACTIVE",
                                !.pending = @ \/ o.pend,
                                !.how     = IF o.pend \/ o.again THEN "SYSCALL" ELSE @,
                                !.restore = @ \/ o.again,
                                !.seccomp = IF o.disable /\ @ = "ENABLED" THEN "DISABLING" ELSE @]
<1>1. ASSUME NEW u \in Handled
      PROVE  add(u) \in Handled /\ add(u).restore = u.restore
  <2>1. u.chain \in Queues
    BY DEF Handled, Tracees
  <2>2. u.chain.calls \o o.chain \in Seq(Numbers)
    BY <2>1, QueueValues
  <2>3. [live |-> TRUE, calls |-> u.chain.calls \o o.chain] \in Queues
    BY <2>2 DEF Queues
  <2>4. [u EXCEPT !.chain = [live |-> TRUE, calls |-> @.calls \o o.chain]] \in Handled
    BY <2>3 DEF Handled, Tracees
  <2> QED  BY <2>4 DEF Handled, Tracees
<1>2. done(tr) \in Handled /\ (o.again => done(tr).restore)
  <2> DEFINE hw == IF o.pend \/ o.again THEN "SYSCALL" ELSE tr.how
             sc == IF o.disable /\ tr.seccomp = "ENABLED" THEN "DISABLING" ELSE tr.seccomp
             u  == [tr EXCEPT !.wa = "INACTIVE", !.pending = @ \/ o.pend, !.how = hw,
                              !.restore = @ \/ o.again, !.seccomp = sc]
  <2>1. hw \in {"CONT", "SYSCALL"} /\ sc \in {"DISABLED", "DISABLING", "ENABLED"}
    BY DEF Handled, Tracees
  <2>2. done(tr) = u
    OBVIOUS
  <2> HIDE DEF hw, sc, done
  <2>3. u \in Handled /\ (o.again => u.restore)
    BY ZenonT(40), <2>1 DEF Handled, Tracees
  <2> QED  BY <2>2, <2>3
<1>3. [tr EXCEPT !.wa = "REPLACED"] \in Handled
  BY DEF Handled, Tracees
<1>4. ExitEffects(tr, o) = IF Requested(tr) THEN add(done(tr))
                           ELSE IF tr.wa = "FAULTY" THEN [tr EXCEPT !.wa = "REPLACED"]
                           ELSE add(tr)
  BY Zenon DEF ExitEffects
<1>5. add(tr) \in Handled /\ add(done(tr)) \in Handled /\ add(done(tr)).restore = done(tr).restore
  BY <1>1, <1>2
<1> HIDE DEF add, done
<1> QED  BY <1>2, <1>3, <1>4, <1>5

\* A syscall is queued behind the current one only by a chain or by a restart.
Announced(tr, queue) == queue # NoCall => tr.chain.live \/ tr.restore

LEMMA ChainNextAnnounced ==
  ASSUME NEW tr \in Handled
  PROVE  /\ ChainNext(tr).queue # NoCall => ChainNext(tr).t.chain.live
         /\ ChainNext(tr).t.restore = tr.restore
  BY DEF ChainNext, Handled, Tracees, Queues

LEMMA TranslateExitType ==
  ASSUME NEW tr \in Handled, NEW o,
         o.chain \in Seq(Numbers),
         o.pend \in BOOLEAN, o.disable \in BOOLEAN, o.again \in BOOLEAN
  PROVE  /\ TranslateExit(tr, o).t \in Handled
         /\ TranslateExit(tr, o).queue \in Calls
         /\ Announced(TranslateExit(tr, o).t, TranslateExit(tr, o).queue)
<1> DEFINE u == [ExitEffects(tr, o) EXCEPT !.status = 0]
           n == ChainNext(u)
<1>1. u \in Handled /\ (o.again /\ Requested(tr) => u.restore)
  BY ExitEffectsType DEF Handled, Tracees
<1> HIDE DEF u
<1>2. n.t \in Handled /\ n.queue \in Calls
  BY <1>1, ChainNextType
<1>3. (n.queue # NoCall => n.t.chain.live) /\ n.t.restore = u.restore
  BY <1>1, ChainNextAnnounced
<1>4. [n.t EXCEPT !.restore = FALSE] \in Handled
  BY <1>2 DEF Handled, Tracees
<1>5. TranslateExit(tr, o) =
        IF o.again /\ Requested(tr)
        THEN [t |-> n.t, queue |-> Call("restart", RestartedAs)]
        ELSE [t     |-> IF n.queue = NoCall THEN [n.t EXCEPT !.restore = FALSE] ELSE n.t,
              queue |-> n.queue]
  BY Zenon DEF TranslateExit, u
<1> HIDE DEF n
<1>6. CASE o.again /\ Requested(tr)
  BY <1>1, <1>2, <1>3, <1>5, <1>6, CallValues, ConstantNumbers DEF Announced
<1>7. CASE ~(o.again /\ Requested(tr))
  BY <1>2, <1>3, <1>4, <1>5, <1>7 DEF Announced
<1> QED  BY <1>6, <1>7

-----------------------------------------------------------------------------
(* What the handlers of the stops return                                   *)

\* A well-formed outcome that announces the syscall it queues and that delivers
\* a signal only when nothing is queued.
GoodOutcome(r) ==
  /\ r.t \in Handled /\ r.nr \in Numbers /\ r.queue \in Calls
  /\ r.signal \in {NoSignal} \cup Signals
  /\ Announced(r.t, r.queue)
  /\ r.signal # NoSignal => r.queue = NoCall /\ ~r.t.chain.live /\ ~r.t.restore

LEMMA QuietOutcome ==
  ASSUME NEW tr \in Handled, NEW nr \in Numbers, NEW queue \in Calls, Announced(tr, queue)
  PROVE  GoodOutcome(Outcome(tr, nr, queue, NoSignal))
  BY DEF GoodOutcome, Outcome

LEMMA StageDefaultsType ==
  ASSUME NEW tr \in Handled
  PROVE  /\ StageDefaults(tr) \in Handled
         /\ StageDefaults(tr).chain = tr.chain /\ StageDefaults(tr).restore = tr.restore
  BY ZenonT(40) DEF StageDefaults, Handled, Tracees

LEMMA AfterDisablingType ==
  ASSUME NEW tr \in Handled
  PROVE  /\ AfterDisabling(tr) \in Handled
         /\ AfterDisabling(tr).chain = tr.chain /\ AfterDisabling(tr).restore = tr.restore
<1> DEFINE u == [tr EXCEPT !.how = "SYSCALL", !.seccomp = "DISABLED"]
<1>1. u \in Handled /\ u.chain = tr.chain /\ u.restore = tr.restore
  BY DEF Handled, Tracees
<1> QED  BY <1>1 DEF AfterDisabling

\* The end of a SIGTRAP | 0x80 stop: a suppressed signal is redelivered once
\* nothing is queued any more.
LEMMA RedeliveredOutcome ==
  ASSUME NEW tr \in Handled, NEW nr \in Numbers, NEW queue \in Calls, Announced(tr, queue)
  PROVE  GoodOutcome(Outcome(
           AfterDisabling(IF Redelivered(tr) = NoSignal THEN tr
                          ELSE [tr EXCEPT !.suppressed = NoSignal]),
           nr, queue, Redelivered(tr)))
<1> DEFINE t3 == IF Redelivered(tr) = NoSignal THEN tr ELSE [tr EXCEPT !.suppressed = NoSignal]
<1>1. t3 \in Handled /\ t3.chain = tr.chain /\ t3.restore = tr.restore
  BY DEF Handled, Tracees
<1>2. /\ Redelivered(tr) \in {NoSignal} \cup Signals
      /\ Redelivered(tr) # NoSignal => ~tr.chain.live /\ ~tr.restore
  BY DEF Redelivered, Handled, Tracees
<1> HIDE DEF t3
<1>3. AfterDisabling(t3) \in Handled /\ AfterDisabling(t3).chain = tr.chain
        /\ AfterDisabling(t3).restore = tr.restore
  BY <1>1, AfterDisablingType
<1>4. GoodOutcome(Outcome(AfterDisabling(t3), nr, queue, Redelivered(tr)))
  BY <1>2, <1>3 DEF GoodOutcome, Outcome, Announced
<1> QED  BY <1>4 DEF t3

LEMMA SysTrapEarly ==
  ASSUME NEW tr \in Handled, NEW nr \in Numbers, NEW oEnter, NEW oExit,
         k.queue \in Calls, Announced(tr, k.queue),
         tr.seccomp = "DISABLING" \/ tr.handled
  PROVE  GoodOutcome(HandleSysTrap(tr, nr, oEnter, oExit))
<1>1. CASE tr.seccomp = "DISABLING"
  <2> DEFINE u == [tr EXCEPT !.seccomp = "DISABLED",
                             !.status  = IF IsInSysenter(tr) THEN 1 ELSE @]
  <2>1. u \in Handled /\ u.chain = tr.chain /\ u.restore = tr.restore
    BY DEF Handled, Tracees
  <2>2. HandleSysTrap(tr, nr, oEnter, oExit) = Outcome(u, nr, k.queue, NoSignal)
    BY <1>1, Zenon DEF HandleSysTrap
  <2> HIDE DEF u
  <2> QED  BY <2>1, <2>2, QuietOutcome DEF Announced
<1>2. CASE tr.seccomp # "DISABLING" /\ tr.handled
  <2> DEFINE u == [StageDefaults(tr) EXCEPT !.handled = FALSE, !.how = "SYSCALL"]
  <2>1. u \in Handled /\ u.chain = tr.chain /\ u.restore = tr.restore
    BY ZenonT(40), StageDefaultsType DEF Handled, Tracees
  <2>2. HandleSysTrap(tr, nr, oEnter, oExit) = Outcome(AfterDisabling(u), nr, k.queue, NoSignal)
    BY <1>2 DEF HandleSysTrap
  <2> HIDE DEF u
  <2>3. AfterDisabling(u) \in Handled /\ Announced(AfterDisabling(u), k.queue)
    BY <2>1, AfterDisablingType DEF Announced
  <2> QED  BY <2>2, <2>3, QuietOutcome
<1> QED  BY <1>1, <1>2

LEMMA SysTrapEnter ==
  ASSUME NEW tr \in Handled, NEW nr \in Numbers, NEW oEnter \in EnterOutcomes(nr), NEW oExit,
         k.queue \in Calls, Announced(tr, k.queue), IsInSysenter(tr)
  PROVE  GoodOutcome(HandleSysTrap(tr, nr, oEnter, oExit))
<1> SUFFICES ASSUME tr.seccomp # "DISABLING", ~tr.handled
             PROVE  GoodOutcome(HandleSysTrap(tr, nr, oEnter, oExit))
  BY SysTrapEarly DEF Handled, Tracees
<1> DEFINE enter == TranslateEnter(StageDefaults(tr), nr, oEnter)
           t2    == [enter.t EXCEPT !.skip = global.afterEnter /\ enter.void]
<1>1. enter.t \in Handled /\ enter.nr \in Numbers
  BY StageDefaultsType, TranslateEnterType
<1>2. HandleSysTrap(tr, nr, oEnter, oExit) =
        Outcome(AfterDisabling(IF Redelivered(t2) = NoSignal THEN t2
                               ELSE [t2 EXCEPT !.suppressed = NoSignal]),
                enter.nr, NoCall, Redelivered(t2))
  BY DEF HandleSysTrap
<1>3. t2 \in Handled
  BY <1>1 DEF Handled, Tracees
<1> HIDE DEF t2, enter
<1>4. NoCall \in Calls /\ Announced(t2, NoCall)
  BY CallValues, ConstantNumbers DEF Announced
<1> QED  BY <1>1, <1>2, <1>3, <1>4, RedeliveredOutcome

LEMMA SysTrapExit ==
  ASSUME NEW tr \in Handled, NEW nr \in Numbers, NEW oEnter, NEW oExit,
         oExit.chain \in Seq(Numbers),
         oExit.pend \in BOOLEAN, oExit.disable \in BOOLEAN, oExit.again \in BOOLEAN,
         k.queue \in Calls, Announced(tr, k.queue), ~IsInSysenter(tr)
  PROVE  GoodOutcome(HandleSysTrap(tr, nr, oEnter, oExit))
<1> SUFFICES ASSUME tr.seccomp # "DISABLING", ~tr.handled
             PROVE  GoodOutcome(HandleSysTrap(tr, nr, oEnter, oExit))
  BY SysTrapEarly DEF Handled, Tracees
<1> DEFINE exit == TranslateExit(StageDefaults(tr), oExit)
<1>1. exit.t \in Handled /\ exit.queue \in Calls /\ Announced(exit.t, exit.queue)
  BY StageDefaultsType, TranslateExitType
<1>2. HandleSysTrap(tr, nr, oEnter, oExit) =
        Outcome(AfterDisabling(IF Redelivered(exit.t) = NoSignal THEN exit.t
                               ELSE [exit.t EXCEPT !.suppressed = NoSignal]),
                nr, exit.queue, Redelivered(exit.t))
  BY DEF HandleSysTrap
<1> HIDE DEF exit
<1> QED  BY <1>1, <1>2, RedeliveredOutcome

LEMMA SeccompOutcome ==
  ASSUME NEW tr0 \in Handled, NEW after \in BOOLEAN, NEW nr \in Numbers,
         NEW o \in EnterOutcomes(nr)
  PROVE  GoodOutcome(HandleSeccompEvent(tr0, after, nr, o))
<1> DEFINE tr == [tr0 EXCEPT !.skip = FALSE]
           common == nr \in ExitFlag \/ SysexitNecessary(tr)
           enter(how) == TranslateEnter([tr EXCEPT !.how = how], nr, o)
           how == IF enter("CONT").t.pending \/ enter("CONT").t.seccomp = "DISABLING"
                  THEN "SYSCALL" ELSE enter("CONT").t.how
           u == [enter("CONT").t EXCEPT !.how = how, !.handled = ~after /\ how = "SYSCALL"]
           v == [enter("SYSCALL").t EXCEPT !.how = "SYSCALL"]
<1>1. /\ tr \in Handled
      /\ [tr EXCEPT !.how = tr.last] \in Handled
      /\ [tr EXCEPT !.how = "CONT"] \in Handled
      /\ [tr EXCEPT !.how = "SYSCALL"] \in Handled
  BY DEF Handled, Tracees
<1>2. /\ enter("CONT").t \in Handled /\ enter("CONT").nr \in Numbers
      /\ enter("SYSCALL").t \in Handled /\ enter("SYSCALL").nr \in Numbers
  <2> HIDE DEF tr
  <2> QED  BY <1>1, TranslateEnterType
<1>3. ASSUME NEW e \in Handled, NEW b \in BOOLEAN
      PROVE  LET hw == IF e.pending \/ e.seccomp = "DISABLING" THEN "SYSCALL" ELSE e.how
             IN [e EXCEPT !.how = hw, !.handled = b /\ hw = "SYSCALL"] \in Handled
  <2> DEFINE hw == IF e.pending \/ e.seccomp = "DISABLING" THEN "SYSCALL" ELSE e.how
  <2>1. hw \in {"CONT", "SYSCALL"}
    BY DEF Handled, Tracees
  <2> HIDE DEF hw
  <2>2. [e EXCEPT !.how = hw, !.handled = b /\ hw = "SYSCALL"] \in Handled
    BY ZenonT(40), <2>1 DEF Handled, Tracees
  <2> QED  BY <2>2 DEF hw
<1>3a. u \in Handled
  <2> HIDE DEF enter
  <2> QED  BY <1>2, <1>3
<1>3b. v \in Handled
  <2> HIDE DEF enter
  <2> QED  BY <1>2 DEF Handled, Tracees
<1>4. ASSUME NEW w \in Handled, NEW n \in Numbers
      PROVE  GoodOutcome(Outcome(w, n, NoCall, NoSignal))
  BY QuietOutcome, CallValues DEF Announced
<1>5. HandleSeccompEvent(tr0, after, nr, o) =
        IF after /\ ~IsInSysenter(tr)
        THEN Outcome([tr EXCEPT !.how = tr.last], nr, NoCall, NoSignal)
        ELSE IF tr.seccomp # "ENABLED" THEN Outcome(tr, nr, NoCall, NoSignal)
        ELSE IF common /\ after THEN Outcome(v, enter("SYSCALL").nr, NoCall, NoSignal)
        ELSE IF common THEN Outcome([tr EXCEPT !.how = "SYSCALL"], nr, NoCall, NoSignal)
        ELSE Outcome(u, enter("CONT").nr, NoCall, NoSignal)
  BY Zenon DEF HandleSeccompEvent
<1> HIDE DEF tr, enter, u, v, common, how
<1> QED  BY <1>1, <1>2, <1>3a, <1>3b, <1>4, <1>5

\* A refused syscall is over, or it is restarted as another one.
LEMMA RefusedOutcome ==
  ASSUME NEW tr \in Handled, NEW restarts
  PROVE  /\ HandleRefused(tr, restarts).t \in Handled
         /\ HandleRefused(tr, restarts).queue \in Calls
         /\ Announced(HandleRefused(tr, restarts).t, HandleRefused(tr, restarts).queue)
<1> DEFINE u == [tr EXCEPT !.status = 0]
           v == [u EXCEPT !.restore = TRUE, !.how = "SYSCALL"]
<1>1. u \in Handled /\ v \in Handled /\ v.restore
  BY DEF Handled, Tracees
<1>2. HandleRefused(tr, restarts) =
        IF restarts THEN [t |-> v, queue |-> Call("restart", RestartedAs)]
        ELSE [t |-> u, queue |-> NoCall]
  BY DEF HandleRefused
<1> HIDE DEF u, v
<1> QED  BY <1>1, <1>2, CallValues, ConstantNumbers DEF Announced

LEMMA SigSysOutcome ==
  ASSUME NEW tr \in Handled, NEW nr \in Numbers, NEW o, NEW restarts,
         o.chain \in Seq(Numbers),
         o.pend \in BOOLEAN, o.disable \in BOOLEAN, o.again \in BOOLEAN,
         k.queue \in Calls, Announced(tr, k.queue)
  PROVE  GoodOutcome(HandleSigSys(tr, nr, o, restarts))
<1> DEFINE x == IF IsInSysenter(tr) THEN [t |-> tr, queue |-> k.queue] ELSE TranslateExit(tr, o)
           r == HandleRefused(x.t, restarts)
<1>1. x.t \in Handled /\ x.queue \in Calls /\ Announced(x.t, x.queue)
  BY TranslateExitType
<1> HIDE DEF x
<1>2. /\ [x.t EXCEPT !.skip = FALSE] \in Handled
      /\ Announced([x.t EXCEPT !.skip = FALSE], x.queue)
  BY <1>1 DEF Handled, Tracees, Announced
<1>3. r.t \in Handled /\ r.queue \in Calls /\ Announced(r.t, r.queue)
  BY <1>1, RefusedOutcome
<1>4. HandleSigSys(tr, nr, o, restarts) =
        IF tr.skip \/ (global.afterEnter /\ nr = Void)
        THEN Outcome([x.t EXCEPT !.skip = FALSE], nr, x.queue, NoSignal)
        ELSE Outcome(r.t, nr, r.queue, NoSignal)
  BY Zenon DEF HandleSigSys, x
<1> HIDE DEF r
<1> QED  BY <1>1, <1>2, <1>3, <1>4, QuietOutcome

\* A signal is suppressed when a syscall is queued behind the current one.
LEMMA SignalOutcome ==
  ASSUME NEW tr \in Handled, NEW s \in {NoSignal} \cup Signals,
         k.call \in Calls, k.queue \in Calls, Announced(tr, k.queue)
  PROVE  GoodOutcome(HandleSignal(tr, s))
<1>1. k.call.nr \in Numbers
  BY DEF Calls
<1>2. /\ [tr EXCEPT !.suppressed = s] \in Handled
      /\ Announced([tr EXCEPT !.suppressed = s], k.queue)
  BY DEF Handled, Tracees, Announced
<1> QED  BY <1>1, <1>2, QuietOutcome DEF HandleSignal, GoodOutcome, Outcome, Announced

LEMMA EventOutcomes ==
  ASSUME NEW tr \in Handled, k.call \in Calls, k.queue \in Calls, Announced(tr, k.queue)
  PROVE  GoodOutcome(HandleExecEvent(tr)) /\ GoodOutcome(HandleForkEvent(tr))
<1>1. k.call.nr \in Numbers
  BY DEF Calls
<1>2. /\ [tr EXCEPT !.how = tr.last] \in Handled
      /\ Announced([tr EXCEPT !.how = tr.last], k.queue)
  BY DEF Handled, Tracees, Announced
<1> QED  BY <1>1, <1>2, QuietOutcome DEF HandleExecEvent, HandleForkEvent

-----------------------------------------------------------------------------
(* Every step preserves TypeOK and QueueAnnounced                          *)

IInv == TypeOK /\ QueueAnnounced

LEMMA GatesType ==
  /\ Gates \in Seq({"sysenter", "seccomp", "recheck"})
  /\ <<"recheck">> \in Seq({"sysenter", "seccomp", "recheck"})
<1>1. /\ <<"sysenter", "seccomp">> \in Seq({"sysenter", "seccomp", "recheck"})
      /\ <<"seccomp", "sysenter">> \in Seq({"sysenter", "seccomp", "recheck"})
      /\ <<"recheck">> \in Seq({"sysenter", "seccomp", "recheck"})
  OBVIOUS
<1> QED  BY <1>1 DEF Gates

LEMMA InitIInv == Init => IInv
<1> SUFFICES ASSUME Init PROVE IInv
  OBVIOUS
<1>1. host \in Hosts /\ host.new \in BOOLEAN /\ host.policy \in BOOLEAN
  BY StagesAssumption DEF Init, HostTraits
<1>2. global \in [detected : BOOLEAN, afterEnter : BOOLEAN]
  BY <1>1 DEF Init
<1>3. t \in Tracees({"none"})
  BY QueueValues DEF Init, Tracees
<1>4. k \in Kernels
  <2>1. Gates \in Seq({"sysenter", "seccomp", "recheck"})
    BY GatesType
  <2>2. Call("program", Launch) \in Calls /\ NoCall \in Calls /\ 0 \in 0 .. MaxSignals
    BY CallValues, ConstantNumbers, StagesAssumption
  <2> QED  BY <2>1, <2>2 DEF Init, Kernels
<1>5. h \in Histories
  BY ConstantNumbers DEF Init, Histories
<1>6. QueueAnnounced
  BY DEF Init, QueueAnnounced
<1> QED  BY <1>1, <1>2, <1>3, <1>4, <1>5, <1>6 DEF IInv, TypeOK

\* What is known of the fields when a stop is handled.
LEMMA AtStop ==
  ASSUME IInv
  PROVE  /\ Prepared \in Handled
         /\ Prepared = [t EXCEPT !.how = DefaultHow(t)]
         /\ Announced(Prepared, k.queue)
         /\ IsInSysenter(Prepared) = IsInSysenter(t)
         /\ k.call \in Calls /\ k.queue \in Calls /\ k.call.nr \in Numbers
  BY PreparedType DEF IInv, TypeOK, QueueAnnounced, Announced, Prepared, Tracees, Kernels,
     Calls, IsInSysenter

\* restart_tracee() after a well-formed outcome.
LEMMA RestartStep ==
  ASSUME IInv, NEW r, GoodOutcome(r), NEW pos \in {"user", "gate", "leaving"}, Restart(r, pos)
  PROVE  /\ t' \in Tracees({"none"}) /\ k' \in Kernels /\ QueueAnnounced'
         /\ r.signal # NoSignal => k'.queue = NoCall /\ ~t'.chain.live /\ ~t'.restore
<1>1. t' = [r.t EXCEPT !.last = r.t.how, !.how = "none"] /\ r.t \in Handled
  BY DEF Restart, GoodOutcome
<1>2. t' \in Tracees({"none"}) /\ t'.chain = r.t.chain /\ t'.restore = r.t.restore
  BY <1>1 DEF Handled, Tracees
<1>3. k' = [k EXCEPT !.pos = pos, !.mode = r.t.how, !.call.nr = r.nr, !.queue = r.queue]
  BY DEF Restart
<1>4. /\ k \in Kernels /\ r.t.how \in {"CONT", "SYSCALL"}
      /\ r.queue \in Calls /\ r.nr \in Numbers
  BY DEF IInv, TypeOK, GoodOutcome, Handled, Tracees
<1>5. [k.call EXCEPT !.nr = r.nr] \in Calls
  BY <1>4 DEF Kernels, Calls
<1>6. k' \in Kernels /\ k'.queue = r.queue
  BY <1>3, <1>4, <1>5 DEF Kernels
<1> QED  BY <1>2, <1>6 DEF GoodOutcome, Announced, QueueAnnounced

\* A signal is delivered only when nothing is queued behind the current syscall.
SignalsWait ==
  h'.delivered # h.delivered /\ k.pos # "bare" => k'.queue = NoCall /\ ~t'.chain.live /\ ~t'.restore

LEMMA IssueType ==
  ASSUME k \in Kernels, NEW call \in Calls, Issue(call)
  PROVE  k' \in Kernels /\ k'.queue = NoCall
<1>1. NoCall \in Calls
  BY CallValues, ConstantNumbers
<1> QED  BY <1>1, GatesType DEF Issue, Kernels, Stops

LEMMA ProgramCallStep ==
  ASSUME IInv, NEW nr \in Syscalls, ProgramCall(nr)
  PROVE  IInv' /\ SignalsWait
<1>1. Call("program", nr) \in Calls /\ nr \in Numbers
  BY CallValues, ConstantNumbers
<1>2. k' \in Kernels /\ k'.queue = NoCall
  BY <1>1, IssueType DEF ProgramCall, IInv, TypeOK
<1>3. h' \in Histories /\ h'.delivered = h.delivered
  <2>1. <<>> \in Seq(Numbers)
    OBVIOUS
  <2> QED  BY <1>1, <2>1 DEF ProgramCall, IInv, TypeOK, Histories
<1> QED  BY <1>2, <1>3 DEF ProgramCall, IInv, TypeOK, QueueAnnounced, SignalsWait

LEMMA QueuedCallStep ==
  ASSUME IInv, QueuedCall
  PROVE  IInv' /\ SignalsWait
<1>1. k \in Kernels /\ k.queue \in Calls /\ k.queue.nr \in Numbers
  BY DEF IInv, TypeOK, Kernels, Calls
<1>2. k' \in Kernels /\ k'.queue = NoCall
  BY <1>1, IssueType DEF QueuedCall
<1>3. h' \in Histories /\ h'.delivered = h.delivered
  BY <1>1 DEF QueuedCall, IInv, TypeOK, Histories
<1> QED  BY <1>2, <1>3 DEF QueuedCall, IInv, TypeOK, QueueAnnounced, SignalsWait

\* The other steps of the kernel keep the queued syscall and the fields of PRoot.
LEMMA KernelStep ==
  ASSUME IInv, EntryGate \/ FilterGate \/ Execute \/ ExitGate \/ SigSysStop \/ SignalStop
  PROVE  IInv' /\ SignalsWait
<1> DEFINE Names == {"sysenter", "seccomp", "recheck"}
<1>0. /\ k \in Kernels /\ h \in Histories /\ k.gates \in Seq(Names)
      /\ k.gates # <<>> => Tail(k.gates) \in Seq(Names)
      /\ <<>> \in Seq(Names) /\ <<"recheck">> \in Seq(Names)
  BY GatesType DEF IInv, TypeOK, Kernels
<1> SUFFICES /\ k' \in Kernels /\ h' \in Histories
             /\ k'.queue = k.queue /\ h'.delivered = h.delivered
  BY DEF EntryGate, FilterGate, Execute, ExitGate, SigSysStop, SignalStop, IInv, TypeOK,
     QueueAnnounced, SignalsWait
<1>1. CASE EntryGate
  BY <1>0, <1>1 DEF EntryGate, Kernels, Stops
<1>2. CASE FilterGate
  <2> DEFINE gates == IF host.new THEN <<"recheck">> ELSE Tail(k.gates)
             pos   == IF k.mode = "SYSCALL" /\ ~host.skip THEN "sysexit" ELSE "user"
  <2>1. gates \in Seq(Names) /\ pos \in {"sysexit", "user"} /\ Tail(k.gates) \in Seq(Names)
    BY <1>0, <1>2 DEF FilterGate
  <2>2. \/ k' = [k EXCEPT !.sigsys = TRUE, !.gates = <<>>, !.pos = pos]
        \/ k' = [k EXCEPT !.pos = "seccomp", !.gates = gates]
        \/ k' = [k EXCEPT !.gates = Tail(k.gates)]
    BY <1>2 DEF FilterGate
  <2>3. h' = h
    BY <1>2 DEF FilterGate
  <2> HIDE DEF gates, pos
  <2> QED  BY <1>0, <2>1, <2>2, <2>3 DEF Kernels, Stops
<1>3. CASE Execute
  <2>1. k.call.nr \in Numbers
    BY <1>0 DEF Kernels, Calls
  <2>2. Append(h.ran, k.call.nr) \in Seq(Numbers)
    BY <1>0, <2>1 DEF Histories
  <2>3. h' \in Histories /\ h'.delivered = h.delivered
    BY <1>0, <1>3, <2>2 DEF Execute, Histories
  <2>4. \E p \in {"leaving", "exec", "fork"} : k' = [k EXCEPT !.pos = p]
    BY <1>3 DEF Execute
  <2> QED  BY <1>0, <2>3, <2>4 DEF Kernels, Stops
<1>4. CASE ExitGate
  BY <1>0, <1>4 DEF ExitGate, Kernels, Stops
<1>5. CASE SigSysStop
  BY <1>0, <1>5 DEF SigSysStop, Kernels, Stops
<1>6. CASE SignalStop
  <2>1. k.sent + 1 \in 0 .. MaxSignals
    BY <1>0, <1>6, StagesAssumption DEF SignalStop, Kernels
  <2> QED  BY <1>0, <1>6, <2>1 DEF SignalStop, Kernels, Stops
<1> QED  BY <1>1, <1>2, <1>3, <1>4, <1>5, <1>6

\* What a stop does to the history, apart from the stage it counts.
LEMMA DeliveredType ==
  ASSUME h \in Histories, NEW s \in {NoSignal} \cup Signals
  PROVE  Delivered(s) \in SUBSET Signals /\ (Delivered(s) # h.delivered => s # NoSignal)
  BY DEF Delivered, Histories

LEMMA SysenterStep ==
  ASSUME IInv, SysenterStage
  PROVE  IInv' /\ SignalsWait
<1>1. PICK o \in EnterOutcomes(k.call.nr) :
        LET r == HandleSysTrap(Prepared, k.call.nr, o, o) IN
        /\ Restart(r, Resumed)
        /\ h' = [h EXCEPT !.entered = IF t.handled \/ t.chain.live THEN @ ELSE 1 + @,
                          !.delivered = Delivered(r.signal)]
  BY DEF SysenterStage
<1> DEFINE r == HandleSysTrap(Prepared, k.call.nr, o, o)
<1>2. GoodOutcome(r)
  BY AtStop, SysTrapEnter DEF SysenterStage
<1>3. /\ t' \in Tracees({"none"}) /\ k' \in Kernels /\ QueueAnnounced'
      /\ r.signal # NoSignal => k'.queue = NoCall /\ ~t'.chain.live /\ ~t'.restore
  <2>1. Restart(r, Resumed)
    BY <1>1
  <2> HIDE DEF r
  <2> QED  BY <2>1, <1>2, RestartStep DEF Resumed
<1>4. h' = [h EXCEPT !.entered = IF t.handled \/ t.chain.live THEN @ ELSE 1 + @,
                     !.delivered = Delivered(r.signal)]
  BY <1>1
<1> HIDE DEF r
<1>5. h \in Histories /\ Delivered(r.signal) \in SUBSET Signals
        /\ (Delivered(r.signal) # h.delivered => r.signal # NoSignal)
  BY <1>2, DeliveredType DEF IInv, TypeOK, GoodOutcome
<1>6. h' \in Histories /\ h'.delivered = Delivered(r.signal)
  <2> DEFINE n == IF t.handled \/ t.chain.live THEN h.entered ELSE 1 + h.entered
  <2>1. n \in Nat
    BY <1>5 DEF Histories
  <2>2. h' = [h EXCEPT !.entered = n, !.delivered = Delivered(r.signal)]
    BY <1>4
  <2> HIDE DEF n
  <2> QED  BY <1>5, <2>1, <2>2 DEF Histories
<1> QED  BY <1>3, <1>5, <1>6 DEF SysenterStage, IInv, TypeOK, SignalsWait

LEMMA SysexitStep ==
  ASSUME IInv, SysexitStage
  PROVE  IInv' /\ SignalsWait
<1> DEFINE translated == ~t.handled /\ t.wa # "FAULTY"
<1>1. PICK o \in ExitOutcomes(h.nr, MaxChain - Len(h.registered)) :
        LET r == HandleSysTrap(Prepared, k.call.nr, o, o) IN
        /\ Restart(r, Resumed)
        /\ h' = [h EXCEPT !.exited = IF translated /\ Requested(t) THEN 1 + @ ELSE @,
                          !.registered = @ \o o.chain,
                          !.delivered = Delivered(r.signal)]
  BY DEF SysexitStage
<1> DEFINE r == HandleSysTrap(Prepared, k.call.nr, o, o)
<1>2. h \in Histories /\ MaxChain - Len(h.registered) \in Int
  BY StagesAssumption DEF IInv, TypeOK, Histories
<1>3. /\ o.chain \in Seq(Numbers)
      /\ o.pend \in BOOLEAN /\ o.disable \in BOOLEAN /\ o.again \in BOOLEAN
  BY <1>2, ExitOutcomesType
<1>4. GoodOutcome(r)
  BY <1>3, AtStop, SysTrapExit DEF SysexitStage
<1>5. h' = [h EXCEPT !.exited = IF translated /\ Requested(t) THEN 1 + @ ELSE @,
                     !.registered = @ \o o.chain,
                     !.delivered = Delivered(r.signal)]
  BY <1>1
<1>6. /\ t' \in Tracees({"none"}) /\ k' \in Kernels /\ QueueAnnounced'
      /\ r.signal # NoSignal => k'.queue = NoCall /\ ~t'.chain.live /\ ~t'.restore
  <2>1. Restart(r, Resumed)
    BY <1>1
  <2> HIDE DEF r
  <2> QED  BY <2>1, <1>4, RestartStep DEF Resumed
<1> HIDE DEF r, translated
<1>7. Delivered(r.signal) \in SUBSET Signals
        /\ (Delivered(r.signal) # h.delivered => r.signal # NoSignal)
  BY <1>2, <1>4, DeliveredType DEF GoodOutcome
<1>8. h' \in Histories /\ h'.delivered = Delivered(r.signal)
  <2>1. h.registered \o o.chain \in Seq(Numbers)
    BY <1>2, <1>3 DEF Histories
  <2> DEFINE n == IF translated /\ Requested(t) THEN 1 + h.exited ELSE h.exited
  <2>2. n \in Nat
    BY <1>2 DEF Histories
  <2>3. h' = [h EXCEPT !.exited = n, !.registered = @ \o o.chain, !.delivered = Delivered(r.signal)]
    BY <1>5
  <2> HIDE DEF n
  <2> QED  BY <1>2, <1>7, <2>1, <2>2, <2>3 DEF Histories
<1> QED  BY <1>6, <1>7, <1>8 DEF SysexitStage, IInv, TypeOK, SignalsWait

LEMMA SeccompStep ==
  ASSUME IInv, SeccompEvent
  PROVE  IInv' /\ SignalsWait
<1> DEFINE first == ~global.detected
           after == IF first THEN ~IsInSysenter(t) ELSE global.afterEnter
           tr    == IF first THEN [Prepared EXCEPT !.seccomp = "ENABLED"] ELSE Prepared
           translated == /\ IsInSysenter(t) /\ ~t.chain.live /\ tr.seccomp = "ENABLED"
                         /\ after \/ ~(k.call.nr \in ExitFlag \/ SysexitNecessary(t))
<1>1. after \in BOOLEAN /\ tr \in Handled
  <2>1. after \in BOOLEAN
    BY DEF IInv, TypeOK, IsInSysenter
  <2>2. Prepared \in Handled
    BY AtStop
  <2>3. [Prepared EXCEPT !.seccomp = "ENABLED"] \in Handled
    BY <2>2 DEF Handled, Tracees
  <2> QED  BY <2>1, <2>2, <2>3
<1>2. /\ global' = [detected |-> TRUE, afterEnter |-> after]
      /\ \E o \in EnterOutcomes(k.call.nr) :
           /\ Restart(HandleSeccompEvent(tr, after, k.call.nr, o), "gate")
           /\ h' = [h EXCEPT !.entered = IF translated THEN 1 + @ ELSE @]
  BY DEF SeccompEvent
<1> HIDE DEF first, after, tr, translated
<1>3. PICK o \in EnterOutcomes(k.call.nr) :
           /\ Restart(HandleSeccompEvent(tr, after, k.call.nr, o), "gate")
           /\ h' = [h EXCEPT !.entered = IF translated THEN 1 + @ ELSE @]
  BY <1>2
<1>4. GoodOutcome(HandleSeccompEvent(tr, after, k.call.nr, o))
  BY <1>1, AtStop, SeccompOutcome
<1>5. t' \in Tracees({"none"}) /\ k' \in Kernels /\ QueueAnnounced'
  BY <1>3, <1>4, RestartStep
<1>6. h' \in Histories /\ h'.delivered = h.delivered
  <2> DEFINE n == IF translated THEN 1 + h.entered ELSE h.entered
  <2>1. n \in Nat /\ h \in Histories
    BY DEF IInv, TypeOK, Histories
  <2>2. h' = [h EXCEPT !.entered = n]
    BY <1>3
  <2> HIDE DEF n
  <2> QED  BY <2>1, <2>2 DEF Histories
<1> QED  BY <1>1, <1>2, <1>5, <1>6 DEF SeccompEvent, IInv, TypeOK, SignalsWait

LEMMA SigSysStep ==
  ASSUME IInv, SigSysEvent
  PROVE  IInv' /\ SignalsWait
<1> DEFINE over == ~IsInSysenter(t) /\ Requested(t)
<1>1. PICK restarts \in BOOLEAN, o \in ExitOutcomes(h.nr, MaxChain - Len(h.registered)) :
        /\ Restart(HandleSigSys(Prepared, k.call.nr, o, restarts), "user")
        /\ h' = [h EXCEPT !.exited = IF over THEN 1 + @ ELSE @, !.registered = @ \o o.chain]
  BY DEF SigSysEvent
<1>2. h \in Histories /\ MaxChain - Len(h.registered) \in Int
  BY StagesAssumption DEF IInv, TypeOK, Histories
<1>3. /\ o.chain \in Seq(Numbers)
      /\ o.pend \in BOOLEAN /\ o.disable \in BOOLEAN /\ o.again \in BOOLEAN
  BY <1>2, ExitOutcomesType
<1>4. GoodOutcome(HandleSigSys(Prepared, k.call.nr, o, restarts))
  BY <1>3, AtStop, SigSysOutcome
<1>5. t' \in Tracees({"none"}) /\ k' \in Kernels /\ QueueAnnounced'
  BY <1>1, <1>4, RestartStep
<1>6. h' \in Histories /\ h'.delivered = h.delivered
  <2> DEFINE n == IF over THEN 1 + h.exited ELSE h.exited
  <2>1. n \in Nat /\ h.registered \o o.chain \in Seq(Numbers)
    BY <1>2, <1>3 DEF Histories
  <2>2. h' = [h EXCEPT !.exited = n, !.registered = @ \o o.chain]
    BY <1>1
  <2> HIDE DEF n
  <2> QED  BY <1>2, <2>1, <2>2 DEF Histories
<1> QED  BY <1>5, <1>6 DEF SigSysEvent, IInv, TypeOK, SignalsWait

LEMMA SignalStep ==
  ASSUME IInv, SignalEvent
  PROVE  IInv' /\ SignalsWait
<1> DEFINE r == HandleSignal(Prepared, k.sent)
<1>1. GoodOutcome(r)
  <2>1. k.sent \in {NoSignal} \cup Signals
    BY StagesAssumption DEF IInv, TypeOK, Kernels, NoSignal, Signals
  <2> QED  BY <2>1, AtStop, SignalOutcome
<1>2. Restart(r, "user") /\ h' = [h EXCEPT !.delivered = Delivered(r.signal)]
  BY DEF SignalEvent
<1> HIDE DEF r
<1>3. /\ t' \in Tracees({"none"}) /\ k' \in Kernels /\ QueueAnnounced'
      /\ r.signal # NoSignal => k'.queue = NoCall /\ ~t'.chain.live /\ ~t'.restore
  BY <1>1, <1>2, RestartStep
<1>4. h \in Histories /\ Delivered(r.signal) \in SUBSET Signals
        /\ (Delivered(r.signal) # h.delivered => r.signal # NoSignal)
  BY <1>1, DeliveredType DEF IInv, TypeOK, GoodOutcome
<1>5. h' \in Histories /\ h'.delivered = Delivered(r.signal)
  BY <1>2, <1>4 DEF Histories
<1> QED  BY <1>3, <1>4, <1>5 DEF SignalEvent, IInv, TypeOK, SignalsWait

LEMMA EventStep ==
  ASSUME IInv, ExecEvent \/ ForkEvent
  PROVE  IInv' /\ SignalsWait
<1>1. /\ \E r : GoodOutcome(r) /\ Restart(r, "leaving")
      /\ host' = host /\ global' = global /\ h' = h
  BY AtStop, EventOutcomes DEF ExecEvent, ForkEvent
<1>2. t' \in Tracees({"none"}) /\ k' \in Kernels /\ QueueAnnounced'
  BY <1>1, RestartStep
<1> QED  BY <1>1, <1>2 DEF IInv, TypeOK, SignalsWait

\* A bare signal changes no field of the tracee: it is resumed as a fork event resumes it.
LEMMA BareRestart ==
  ASSUME IInv, BareSignalEvent
  PROVE  GoodOutcome(HandleForkEvent(Prepared)) /\ Restart(HandleForkEvent(Prepared), "user")
<1> DEFINE r == HandleBareSignal(Prepared, k.sent)
           f == HandleForkEvent(Prepared)
<1>1. Restart(r, "user")
  BY DEF BareSignalEvent
<1>2. r.t = f.t /\ r.nr = f.nr /\ r.queue = f.queue
  BY DEF HandleBareSignal, HandleForkEvent, Outcome
<1> HIDE DEF r, f
<1>3. Restart(f, "user")
  BY <1>1, <1>2 DEF Restart
<1> QED  BY <1>3, AtStop, EventOutcomes DEF f

LEMMA BareSignalStep ==
  ASSUME IInv, BareSignalEvent
  PROVE  IInv' /\ SignalsWait
<1> DEFINE r == HandleBareSignal(Prepared, k.sent)
<1>1. t' \in Tracees({"none"}) /\ k' \in Kernels /\ QueueAnnounced'
  BY BareRestart, RestartStep
<1>2. h' = [h EXCEPT !.delivered = Delivered(k.sent)] /\ k.pos = "bare"
  BY DEF BareSignalEvent, HandleBareSignal, Outcome
<1>3. k.sent \in {NoSignal} \cup Signals /\ h \in Histories
  BY StagesAssumption DEF IInv, TypeOK, Kernels, NoSignal, Signals
<1>4. h' \in Histories
  BY <1>2, <1>3 DEF Delivered, Histories
<1> QED  BY <1>1, <1>2, <1>4 DEF BareSignalEvent, IInv, TypeOK, SignalsWait

LEMMA NextStep ==
  ASSUME IInv, [Next]_vars
  PROVE  IInv' /\ SignalsWait
<1>1. CASE \E nr \in Syscalls : ProgramCall(nr)
  BY <1>1, ProgramCallStep
<1>2. CASE QueuedCall
  BY <1>2, QueuedCallStep
<1>3. CASE EntryGate \/ FilterGate \/ Execute \/ ExitGate \/ SigSysStop \/ SignalStop
  BY <1>3, KernelStep
<1>4. CASE SysenterStage
  BY <1>4, SysenterStep
<1>5. CASE SysexitStage
  BY <1>5, SysexitStep
<1>6. CASE SeccompEvent
  BY <1>6, SeccompStep
<1>7. CASE SigSysEvent
  BY <1>7, SigSysStep
<1>8. CASE SignalEvent
  BY <1>8, SignalStep
<1>9. CASE ExecEvent \/ ForkEvent
  BY <1>9, EventStep
<1>10. CASE UNCHANGED vars
  BY <1>10 DEF vars, IInv, TypeOK, QueueAnnounced, SignalsWait
<1>11. CASE BareSignalEvent
  BY <1>11, BareSignalStep
<1> QED  BY <1>1, <1>2, <1>3, <1>4, <1>5, <1>6, <1>7, <1>8, <1>9, <1>10, <1>11 DEF Next, Kernel, Tracer

-----------------------------------------------------------------------------
(* The theorems                                                            *)

\* The fields of a tracee keep their types: between two stops restart_how is
\* unset, so the assertion of restart_tracee() (tracee/event.c:729) finds a
\* value computed at this very stop, for any program and any host.
THEOREM TypeCorrect == Spec => []TypeOK
<1>1. Init => IInv
  BY InitIInv
<1>2. IInv /\ [Next]_vars => IInv'
  BY NextStep
<1>3. IInv => TypeOK
  BY DEF IInv
<1> QED  BY <1>1, <1>2, <1>3, PTL DEF Spec

\* A syscall queued behind the current one is always announced by the chain or
\* by the restart of a refused syscall (syscall/chain.c:103-153).
THEOREM AlwaysAnnounced == Spec => []QueueAnnounced
<1>1. Init => IInv
  BY InitIInv
<1>2. IInv /\ [Next]_vars => IInv'
  BY NextStep
<1>3. IInv => QueueAnnounced
  BY DEF IInv
<1> QED  BY <1>1, <1>2, <1>3, PTL DEF Spec

\* Hence no signal is delivered to the program inside of a chain of syscalls
\* (tracee/event.c:684-694 and 516-522), but for the bare ones (454-455, 643-657, 678-681).
THEOREM SignalsOutsideChains == Spec => NoSignalInsideChain
<1>1. Init => IInv
  BY InitIInv
<1>2. IInv /\ [Next]_vars => IInv'
  BY NextStep
<1>3. IInv /\ [Next]_vars =>
        [h'.delivered # h.delivered /\ k.pos # "bare"
           => k'.queue = NoCall /\ ~t'.chain.live /\ ~t'.restore]_vars
  BY NextStep DEF SignalsWait
<1> QED  BY <1>1, <1>2, <1>3, PTL DEF Spec, NoSignalInsideChain

-----------------------------------------------------------------------------
(* A suppressed signal is kept until it is delivered                       *)

LEMMA TranslateEnterKeeps ==
  ASSUME NEW tr \in Handled, NEW nr \in Numbers, NEW o \in EnterOutcomes(nr)
  PROVE  TranslateEnter(tr, nr, o).t.suppressed = tr.suppressed
<1> DEFINE chained == tr.chain.live
           failed  == ~chained /\ o.res = "err"
           asks    == chained \/ o.ask # "none" \/ (failed /\ host.arm)
           status  == IF failed THEN -1 ELSE 1
           how     == IF asks THEN "SYSCALL" ELSE tr.how
           number  == IF chained \/ o.res = "ok" THEN nr
                      ELSE IF o.res = "subst" THEN Subst ELSE Void
           t1 == [tr EXCEPT !.status  = IF how = "CONT" THEN 0 ELSE status,
                            !.how     = how,
                            !.pending = @ \/ (~chained /\ o.ask = "pending")]
           t2 == [t1 EXCEPT !.chain = [live |-> TRUE, calls |-> <<Subst>>], !.wa = "FAULTY"]
           t3 == [t1 EXCEPT !.status = status, !.how = "SYSCALL"]
<1>1. status \in {-1, 1} /\ how \in {"CONT", "SYSCALL"}
  BY DEF Handled, Tracees
<1>2. t1 \in Handled /\ t1.suppressed = tr.suppressed
  <2> HIDE DEF status, how
  <2> QED  BY <1>1 DEF Handled, Tracees
<1>3. t2.suppressed = t1.suppressed /\ t3.suppressed = t1.suppressed
  <2> HIDE DEF t1, status
  <2> QED  BY <1>2 DEF Handled, Tracees
<1>4. TranslateEnter(tr, nr, o) =
        CASE number = nr \/ host.canset -> [t |-> t1, nr |-> number, void |-> number = Void]
          [] number # nr /\ number = Subst /\ ~host.canset -> [t |-> t2, nr |-> Faulty, void |-> FALSE]
          [] OTHER -> [t |-> IF how = "CONT" THEN t3 ELSE t1, nr |-> Faulty, void |-> TRUE]
  BY Zenon DEF TranslateEnter
<1> HIDE DEF t1, t2, t3, how, number, status
<1> QED  BY <1>2, <1>3, <1>4

LEMMA TranslateExitKeeps ==
  ASSUME NEW tr \in Handled, NEW o,
         o.chain \in Seq(Numbers),
         o.pend \in BOOLEAN, o.disable \in BOOLEAN, o.again \in BOOLEAN
  PROVE  TranslateExit(tr, o).t.suppressed = tr.suppressed
<1> DEFINE u == ExitEffects(tr, o)
           v == [u EXCEPT !.status = 0]
           n == ChainNext(v)
           w == [n.t EXCEPT !.restore = FALSE]
<1>1. u \in Handled /\ u.suppressed = tr.suppressed
  <2> DEFINE add(a)  == IF o.chain = <<>> THEN a
                        ELSE [a EXCEPT !.chain = [live |-> TRUE, calls |-> @.calls \o o.chain]]
             done(a) == [a EXCEPT !.wa      = "INACTIVE",
                                  !.pending = @ \/ o.pend,
                                  !.how     = IF o.pend \/ o.again THEN "SYSCALL" ELSE @,
                                  !.restore = @ \/ o.again,
                                  !.seccomp = IF o.disable /\ @ = "ENABLED" THEN "DISABLING" ELSE @]
             hw == IF o.pend \/ o.again THEN "SYSCALL" ELSE tr.how
             sc == IF o.disable /\ tr.seccomp = "ENABLED" THEN "DISABLING" ELSE tr.seccomp
             dn == [tr EXCEPT !.wa = "INACTIVE", !.pending = @ \/ o.pend, !.how = hw,
                              !.restore = @ \/ o.again, !.seccomp = sc]
             rp == [tr EXCEPT !.wa = "REPLACED"]
  <2>1. hw \in {"CONT", "SYSCALL"} /\ sc \in {"DISABLED", "DISABLING", "ENABLED"}
    BY DEF Handled, Tracees
  <2>2. done(tr) = dn
    OBVIOUS
  <2>3. dn \in Handled /\ dn.suppressed = tr.suppressed
    <3> HIDE DEF hw, sc
    <3> QED  BY ZenonT(40), <2>1 DEF Handled, Tracees
  <2>4. rp.suppressed = tr.suppressed
    BY DEF Handled, Tracees
  <2>5. ASSUME NEW a \in Handled  PROVE add(a).suppressed = a.suppressed
    BY DEF Handled, Tracees
  <2>6. u = IF Requested(tr) THEN add(done(tr))
            ELSE IF tr.wa = "FAULTY" THEN rp ELSE add(tr)
    BY Zenon DEF ExitEffects
  <2>7. u \in Handled
    BY ExitEffectsType
  <2> HIDE DEF add, done, dn, rp, u
  <2> QED  BY <2>2, <2>3, <2>4, <2>5, <2>6, <2>7
<1> HIDE DEF u
<1>2. v \in Handled /\ v.suppressed = u.suppressed
  BY <1>1 DEF Handled, Tracees
<1> HIDE DEF v
<1>3. n.t \in Handled /\ n.t.suppressed = v.suppressed
  <2>1. n.t \in Handled
    BY <1>2, ChainNextType
  <2>2. n.t.suppressed = v.suppressed
    BY <1>2 DEF ChainNext, Handled, Tracees
  <2> QED  BY <2>1, <2>2
<1>4. TranslateExit(tr, o) =
        IF o.again /\ Requested(tr)
        THEN [t |-> n.t, queue |-> Call("restart", RestartedAs)]
        ELSE [t |-> IF n.queue = NoCall THEN w ELSE n.t, queue |-> n.queue]
  BY Zenon DEF TranslateExit, u, v
<1> HIDE DEF n
<1>5. w.suppressed = n.t.suppressed
  BY <1>3 DEF Handled, Tracees
<1> HIDE DEF w
<1> QED  BY <1>1, <1>2, <1>3, <1>4, <1>5

\* The outcome r of a stop either keeps the suppressed signal of tr or delivers it.
SignalKept(r, tr) == r.t.suppressed = tr.suppressed \/ r.signal = tr.suppressed

LEMMA StageDefaultsKeeps ==
  ASSUME NEW tr \in Handled
  PROVE  StageDefaults(tr) \in Handled /\ StageDefaults(tr).suppressed = tr.suppressed
<1>1. StageDefaults(tr) \in Handled
  BY StageDefaultsType
<1>2. StageDefaults(tr).suppressed = tr.suppressed
  BY DEF StageDefaults, Handled, Tracees
<1> QED  BY <1>1, <1>2

LEMMA RedeliveredKeeps ==
  ASSUME NEW tr \in Handled, NEW nr, NEW queue
  PROVE  SignalKept(Outcome(
           AfterDisabling(IF Redelivered(tr) = NoSignal THEN tr
                          ELSE [tr EXCEPT !.suppressed = NoSignal]),
           nr, queue, Redelivered(tr)), tr)
<1> DEFINE t3 == IF Redelivered(tr) = NoSignal THEN tr ELSE [tr EXCEPT !.suppressed = NoSignal]
           t4 == AfterDisabling(t3)
<1>1. t3 \in Handled /\ (Redelivered(tr) = NoSignal => t3.suppressed = tr.suppressed)
  BY DEF Handled, Tracees
<1>2. Redelivered(tr) # NoSignal => Redelivered(tr) = tr.suppressed
  BY DEF Redelivered
<1> HIDE DEF t3
<1>3. t4.suppressed = t3.suppressed
  BY <1>1 DEF AfterDisabling, Handled, Tracees
<1> HIDE DEF t4
<1>4. SignalKept(Outcome(t4, nr, queue, Redelivered(tr)), tr)
  BY <1>1, <1>2, <1>3 DEF SignalKept, Outcome
<1> QED  BY <1>4 DEF t3, t4

LEMMA SysTrapKeeps ==
  ASSUME NEW tr \in Handled, NEW nr \in Numbers, NEW o,
         \/ IsInSysenter(tr) /\ o \in EnterOutcomes(nr)
         \/ /\ ~IsInSysenter(tr) /\ o.chain \in Seq(Numbers)
            /\ o.pend \in BOOLEAN /\ o.disable \in BOOLEAN /\ o.again \in BOOLEAN
  PROVE  SignalKept(HandleSysTrap(tr, nr, o, o), tr)
<1> DEFINE t1 == StageDefaults(tr)
           r  == HandleSysTrap(tr, nr, o, o)
<1>0. t1 \in Handled /\ t1.suppressed = tr.suppressed
  BY StageDefaultsKeeps
<1>1. CASE tr.seccomp = "DISABLING"
  <2> DEFINE u == [tr EXCEPT !.seccomp = "DISABLED", !.status = IF IsInSysenter(tr) THEN 1 ELSE @]
  <2>1. u.suppressed = tr.suppressed
    BY DEF Handled, Tracees
  <2>2. r = Outcome(u, nr, k.queue, NoSignal)
    BY <1>1, Zenon DEF HandleSysTrap
  <2> HIDE DEF u, r
  <2>3. SignalKept(r, tr)
    BY <2>1, <2>2 DEF SignalKept, Outcome
  <2> QED  BY <2>3 DEF r
<1>2. CASE tr.seccomp # "DISABLING" /\ tr.handled
  <2> DEFINE u == [t1 EXCEPT !.handled = FALSE, !.how = "SYSCALL"]
             v == AfterDisabling(u)
  <2>1. u \in Handled /\ u.suppressed = tr.suppressed
    <3> HIDE DEF t1
    <3> QED  BY <1>0 DEF Handled, Tracees
  <2>2. r = Outcome(v, nr, k.queue, NoSignal)
    BY <1>2 DEF HandleSysTrap
  <2> HIDE DEF u, r
  <2>3. v.suppressed = u.suppressed
    BY <2>1 DEF AfterDisabling, Handled, Tracees
  <2> HIDE DEF v
  <2>4. SignalKept(r, tr)
    BY <2>1, <2>2, <2>3 DEF SignalKept, Outcome
  <2> QED  BY <2>4 DEF r
<1>3. CASE tr.seccomp # "DISABLING" /\ ~tr.handled /\ IsInSysenter(tr)
  <2> DEFINE e == TranslateEnter(t1, nr, o)
             u == [e.t EXCEPT !.skip = global.afterEnter /\ e.void]
  <2>1. r = Outcome(AfterDisabling(IF Redelivered(u) = NoSignal THEN u
                                   ELSE [u EXCEPT !.suppressed = NoSignal]),
                    e.nr, NoCall, Redelivered(u))
    BY <1>3 DEF HandleSysTrap
  <2>2. e.t \in Handled /\ e.t.suppressed = t1.suppressed
    <3> HIDE DEF t1
    <3> QED  BY <1>0, <1>3, TranslateEnterType, TranslateEnterKeeps
  <2> HIDE DEF t1, e
  <2>3. u \in Handled /\ u.suppressed = e.t.suppressed
    BY <2>2 DEF Handled, Tracees
  <2> HIDE DEF u, r
  <2>4. SignalKept(r, u)
    BY <2>1, <2>3, RedeliveredKeeps
  <2>5. SignalKept(r, tr)
    BY <1>0, <2>2, <2>3, <2>4 DEF SignalKept
  <2> QED  BY <2>5 DEF r
<1>4. CASE tr.seccomp # "DISABLING" /\ ~tr.handled /\ ~IsInSysenter(tr)
  <2> DEFINE x == TranslateExit(t1, o)
  <2>1. r = Outcome(AfterDisabling(IF Redelivered(x.t) = NoSignal THEN x.t
                                   ELSE [x.t EXCEPT !.suppressed = NoSignal]),
                    nr, x.queue, Redelivered(x.t))
    BY <1>4 DEF HandleSysTrap
  <2>2. x.t \in Handled /\ x.t.suppressed = t1.suppressed
    <3> HIDE DEF t1
    <3> QED  BY <1>0, <1>4, TranslateExitType, TranslateExitKeeps
  <2> HIDE DEF t1, x, r
  <2>3. SignalKept(r, x.t)
    BY <2>1, <2>2, RedeliveredKeeps
  <2>4. SignalKept(r, tr)
    BY <1>0, <2>2, <2>3 DEF SignalKept
  <2> QED  BY <2>4 DEF r
<1>5. tr.handled \in BOOLEAN
  BY DEF Handled, Tracees
<1> HIDE DEF r
<1> QED  BY <1>1, <1>2, <1>3, <1>4, <1>5 DEF r

LEMMA SeccompKeeps ==
  ASSUME NEW tr0 \in Handled, NEW after \in BOOLEAN, NEW nr \in Numbers,
         NEW o \in EnterOutcomes(nr)
  PROVE  SignalKept(HandleSeccompEvent(tr0, after, nr, o), tr0)
<1> DEFINE tr == [tr0 EXCEPT !.skip = FALSE]
           common == nr \in ExitFlag \/ SysexitNecessary(tr)
           trC == [tr EXCEPT !.how = "CONT"]
           trS == [tr EXCEPT !.how = "SYSCALL"]
           trL == [tr EXCEPT !.how = tr.last]
           eC == TranslateEnter(trC, nr, o)
           eS == TranslateEnter(trS, nr, o)
           how == IF eC.t.pending \/ eC.t.seccomp = "DISABLING" THEN "SYSCALL" ELSE eC.t.how
           b == ~after /\ how = "SYSCALL"
           u == [eC.t EXCEPT !.how = how, !.handled = b]
           v == [eS.t EXCEPT !.how = "SYSCALL"]
           r == HandleSeccompEvent(tr0, after, nr, o)
<1>1. tr \in Handled /\ tr.suppressed = tr0.suppressed
  BY DEF Handled, Tracees
<1>2. r = IF after /\ ~IsInSysenter(tr) THEN Outcome(trL, nr, NoCall, NoSignal)
          ELSE IF tr.seccomp # "ENABLED" THEN Outcome(tr, nr, NoCall, NoSignal)
          ELSE IF common /\ after THEN Outcome(v, eS.nr, NoCall, NoSignal)
          ELSE IF common THEN Outcome(trS, nr, NoCall, NoSignal)
          ELSE Outcome(u, eC.nr, NoCall, NoSignal)
  BY Zenon DEF HandleSeccompEvent
<1> HIDE DEF tr, common, r
<1>3. /\ trC \in Handled /\ trC.suppressed = tr0.suppressed
      /\ trS \in Handled /\ trS.suppressed = tr0.suppressed
      /\ trL \in Handled /\ trL.suppressed = tr0.suppressed
  BY <1>1 DEF Handled, Tracees
<1> HIDE DEF trC, trS, trL
<1>4. /\ eC.t \in Handled /\ eC.t.suppressed = tr0.suppressed
      /\ eS.t \in Handled /\ eS.t.suppressed = tr0.suppressed
  BY <1>3, TranslateEnterType, TranslateEnterKeeps
<1> HIDE DEF eC, eS, b
<1>5. v.suppressed = tr0.suppressed /\ u.suppressed = tr0.suppressed
  <2> HIDE DEF how
  <2> QED  BY <1>4 DEF Handled, Tracees
<1> HIDE DEF u, v, how
<1>6. r.t \in {trL, tr, v, trS, u}
  BY <1>2 DEF Outcome
<1>7. r.t.suppressed = tr0.suppressed
  BY <1>1, <1>3, <1>5, <1>6
<1> QED  BY <1>7 DEF SignalKept, r

LEMMA SigSysKeeps ==
  ASSUME NEW tr \in Handled, NEW nr \in Numbers, NEW o, NEW restarts \in BOOLEAN,
         o.chain \in Seq(Numbers),
         o.pend \in BOOLEAN, o.disable \in BOOLEAN, o.again \in BOOLEAN
  PROVE  SignalKept(HandleSigSys(tr, nr, o, restarts), tr)
<1> DEFINE x == IF IsInSysenter(tr) THEN [t |-> tr, queue |-> k.queue] ELSE TranslateExit(tr, o)
           y == [x.t EXCEPT !.skip = FALSE]
           u == [x.t EXCEPT !.status = 0]
           v == [u EXCEPT !.restore = TRUE, !.how = "SYSCALL"]
           r == HandleSigSys(tr, nr, o, restarts)
<1>1. x.t \in Handled /\ x.t.suppressed = tr.suppressed
  BY TranslateExitType, TranslateExitKeeps
<1>2. r = IF tr.skip \/ (global.afterEnter /\ nr = Void)
          THEN Outcome(y, nr, x.queue, NoSignal)
          ELSE IF restarts THEN Outcome(v, nr, Call("restart", RestartedAs), NoSignal)
          ELSE Outcome(u, nr, NoCall, NoSignal)
  BY DEF HandleSigSys, HandleRefused
<1> HIDE DEF x, r
<1>3. y.suppressed = tr.suppressed /\ u \in Handled /\ u.suppressed = tr.suppressed
  BY <1>1 DEF Handled, Tracees
<1> HIDE DEF u
<1>4. v.suppressed = tr.suppressed
  BY <1>3 DEF Handled, Tracees
<1> HIDE DEF y, v
<1>5. r.t.suppressed = tr.suppressed
  BY <1>2, <1>3, <1>4 DEF Outcome
<1> QED  BY <1>5 DEF SignalKept, r

\* No signal is suppressed while another one is.
OneAtATime == k.pos = "signal" => t.suppressed = NoSignal

\* A step keeps every signal that was sent, but for one that comes while another one is
\* suppressed.
SignalsKept ==
  /\ k'.sent = k.sent
  /\ h.delivered \subseteq h'.delivered
  /\ t'.suppressed = t.suppressed \/ t.suppressed \in h'.delivered \cup {NoSignal}

LEMMA RestartKeeps ==
  ASSUME IInv, NEW r, GoodOutcome(r), NEW pos \in {"user", "gate", "leaving"}, Restart(r, pos)
  PROVE  t'.suppressed = r.t.suppressed /\ k'.sent = k.sent /\ k'.pos = pos
<1>1. t' = [r.t EXCEPT !.last = r.t.how, !.how = "none"] /\ r.t \in Handled
  BY DEF Restart, GoodOutcome
<1>2. t'.suppressed = r.t.suppressed
  BY <1>1 DEF Handled, Tracees
<1>3. k' = [k EXCEPT !.pos = pos, !.mode = r.t.how, !.call.nr = r.nr, !.queue = r.queue] /\ k \in Kernels
  BY DEF Restart, IInv, TypeOK
<1> QED  BY <1>2, <1>3 DEF Kernels

LEMMA DeliveredKeeps ==
  ASSUME IInv, NEW r, GoodOutcome(r), SignalKept(r, Prepared),
         NEW pos \in {"user", "gate", "leaving"}, Restart(r, pos),
         h'.delivered = Delivered(r.signal)
  PROVE  SignalsKept
<1>1. Prepared.suppressed = t.suppressed /\ h \in Histories
  BY DEF IInv, TypeOK, Tracees, Prepared
<1>2. t'.suppressed = r.t.suppressed /\ k'.sent = k.sent
  BY RestartKeeps
<1>3. h.delivered \subseteq h'.delivered /\ r.signal \in h'.delivered \cup {NoSignal}
  BY DEF Delivered
<1> QED  BY <1>1, <1>2, <1>3 DEF SignalKept, SignalsKept

\* The stops that are handled, but for a signal.
LEMMA StopKeeps ==
  ASSUME IInv, SysenterStage \/ SysexitStage \/ SeccompEvent \/ SigSysEvent \/ ExecEvent \/ ForkEvent
  PROVE  SignalsKept
<1>0. /\ Prepared \in Handled /\ k.call.nr \in Numbers /\ k.call \in Calls /\ k.queue \in Calls
      /\ Announced(Prepared, k.queue) /\ (IsInSysenter(Prepared) <=> IsInSysenter(t))
      /\ h \in Histories /\ Prepared.suppressed = t.suppressed
      /\ MaxChain - Len(h.registered) \in Int
  BY AtStop, StagesAssumption DEF IInv, TypeOK, Histories, Tracees, Prepared
<1>1. CASE SysenterStage
  <2>1. PICK o \in EnterOutcomes(k.call.nr) :
          LET r == HandleSysTrap(Prepared, k.call.nr, o, o) IN
          /\ Restart(r, Resumed)
          /\ h' = [h EXCEPT !.entered = IF t.handled \/ t.chain.live THEN @ ELSE 1 + @,
                            !.delivered = Delivered(r.signal)]
    BY <1>1 DEF SysenterStage
  <2> DEFINE r == HandleSysTrap(Prepared, k.call.nr, o, o)
  <2>2. GoodOutcome(r) /\ SignalKept(r, Prepared)
    BY <1>0, <1>1, SysTrapEnter, SysTrapKeeps DEF SysenterStage
  <2>3. Restart(r, Resumed) /\ h'.delivered = Delivered(r.signal)
    BY <1>0, <2>1 DEF Histories
  <2> HIDE DEF r
  <2> QED  BY <2>2, <2>3, DeliveredKeeps DEF Resumed
<1>2. CASE SysexitStage
  <2>1. PICK o \in ExitOutcomes(h.nr, MaxChain - Len(h.registered)) :
          LET r == HandleSysTrap(Prepared, k.call.nr, o, o) IN
          /\ Restart(r, Resumed)
          /\ h' = [h EXCEPT !.exited = IF ~t.handled /\ t.wa # "FAULTY" /\ Requested(t) THEN 1 + @ ELSE @,
                            !.registered = @ \o o.chain,
                            !.delivered = Delivered(r.signal)]
    BY <1>2 DEF SysexitStage
  <2> DEFINE r == HandleSysTrap(Prepared, k.call.nr, o, o)
  <2>2. /\ o.chain \in Seq(Numbers)
        /\ o.pend \in BOOLEAN /\ o.disable \in BOOLEAN /\ o.again \in BOOLEAN
    BY <1>0, ExitOutcomesType
  <2>3. GoodOutcome(r) /\ SignalKept(r, Prepared)
    BY <1>0, <1>2, <2>2, SysTrapExit, SysTrapKeeps DEF SysexitStage
  <2>4. Restart(r, Resumed) /\ h'.delivered = Delivered(r.signal)
    BY <1>0, <2>1 DEF Histories
  <2> HIDE DEF r
  <2> QED  BY <2>3, <2>4, DeliveredKeeps DEF Resumed
<1>3. CASE SeccompEvent
  <2> DEFINE first == ~global.detected
             after == IF first THEN ~IsInSysenter(t) ELSE global.afterEnter
             en    == [Prepared EXCEPT !.seccomp = "ENABLED"]
             tr    == IF first THEN en ELSE Prepared
  <2>1. after \in BOOLEAN
    BY DEF IInv, TypeOK, IsInSysenter
  <2>2. en \in Handled /\ en.suppressed = Prepared.suppressed
    BY <1>0 DEF Handled, Tracees
  <2>3. \E o \in EnterOutcomes(k.call.nr), n \in {h.entered, 1 + h.entered} :
          /\ Restart(HandleSeccompEvent(tr, after, k.call.nr, o), "gate")
          /\ h' = [h EXCEPT !.entered = n]
    BY <1>3 DEF SeccompEvent
  <2> HIDE DEF en
  <2>4. tr \in Handled /\ tr.suppressed = t.suppressed
    BY <1>0, <2>2
  <2> HIDE DEF tr, after
  <2>5. PICK o \in EnterOutcomes(k.call.nr) :
          /\ Restart(HandleSeccompEvent(tr, after, k.call.nr, o), "gate")
          /\ h'.delivered = h.delivered
    BY <1>0, <2>3 DEF Histories
  <2> DEFINE r == HandleSeccompEvent(tr, after, k.call.nr, o)
  <2>6. GoodOutcome(r) /\ SignalKept(r, tr)
    BY <1>0, <2>1, <2>4, SeccompOutcome, SeccompKeeps
  <2>7. r.signal = NoSignal
    BY DEF HandleSeccompEvent, Outcome
  <2>8. Restart(r, "gate")
    BY <2>5
  <2> HIDE DEF r
  <2>9. t'.suppressed = r.t.suppressed /\ k'.sent = k.sent
    BY <2>6, <2>8, RestartKeeps
  <2> QED  BY <2>4, <2>5, <2>6, <2>7, <2>9 DEF SignalKept, SignalsKept
<1>4. CASE SigSysEvent
  <2>1. PICK restarts \in BOOLEAN, o \in ExitOutcomes(h.nr, MaxChain - Len(h.registered)) :
          /\ Restart(HandleSigSys(Prepared, k.call.nr, o, restarts), "user")
          /\ h' = [h EXCEPT !.exited = IF ~IsInSysenter(t) /\ Requested(t) THEN 1 + @ ELSE @,
                            !.registered = @ \o o.chain]
    BY <1>4 DEF SigSysEvent
  <2> DEFINE r == HandleSigSys(Prepared, k.call.nr, o, restarts)
  <2>2. /\ o.chain \in Seq(Numbers)
        /\ o.pend \in BOOLEAN /\ o.disable \in BOOLEAN /\ o.again \in BOOLEAN
    BY <1>0, ExitOutcomesType
  <2>3. GoodOutcome(r) /\ SignalKept(r, Prepared)
    BY <1>0, <2>2, SigSysOutcome, SigSysKeeps
  <2>4. r.signal = NoSignal
    BY DEF HandleSigSys, Outcome
  <2>5. Restart(r, "user") /\ h'.delivered = h.delivered
    BY <1>0, <2>1 DEF Histories
  <2> HIDE DEF r
  <2>6. t'.suppressed = r.t.suppressed /\ k'.sent = k.sent
    BY <2>3, <2>5, RestartKeeps
  <2> QED  BY <1>0, <2>3, <2>4, <2>5, <2>6 DEF SignalKept, SignalsKept
<1>5. CASE ExecEvent \/ ForkEvent
  <2>1. PICK r \in {HandleExecEvent(Prepared), HandleForkEvent(Prepared)} : Restart(r, "leaving")
    BY <1>5 DEF ExecEvent, ForkEvent
  <2>2. GoodOutcome(r)
    BY <1>0, <2>1, EventOutcomes
  <2>3. r.t.suppressed = t.suppressed
    BY <1>0, <2>1 DEF HandleExecEvent, HandleForkEvent, Outcome, Handled, Tracees
  <2>4. t'.suppressed = r.t.suppressed /\ k'.sent = k.sent /\ h' = h
    BY <1>5, <2>1, <2>2, RestartKeeps DEF ExecEvent, ForkEvent
  <2> QED  BY <2>3, <2>4 DEF SignalsKept
<1> QED  BY <1>1, <1>2, <1>3, <1>4, <1>5

LEMMA SignalStopKeeps ==
  ASSUME IInv, SignalEvent
  PROVE  /\ k'.sent = k.sent /\ k'.pos = "user" /\ h.delivered \subseteq h'.delivered
         /\ k.sent \in h'.delivered \/ k.sent = t'.suppressed \/ k.sent = NoSignal
<1> DEFINE r == HandleSignal(Prepared, k.sent)
           u == [Prepared EXCEPT !.suppressed = k.sent]
<1>1. /\ Prepared \in Handled /\ h \in Histories /\ k.call \in Calls /\ k.queue \in Calls
      /\ Announced(Prepared, k.queue) /\ k.sent \in {NoSignal} \cup Signals
  BY AtStop, StagesAssumption DEF IInv, TypeOK, Kernels, NoSignal, Signals
<1>2. GoodOutcome(r) /\ Restart(r, "user") /\ h'.delivered = Delivered(r.signal)
  BY <1>1, SignalOutcome DEF SignalEvent, Histories
<1>3. u.suppressed = k.sent
  BY <1>1 DEF Handled, Tracees
<1>4. r.t.suppressed = k.sent \/ r.signal = k.sent
  <2>1. r = IF Prepared.chain.live \/ Prepared.restore
            THEN Outcome(u, k.call.nr, k.queue, NoSignal)
            ELSE Outcome(Prepared, k.call.nr, k.queue, k.sent)
    BY DEF HandleSignal
  <2> HIDE DEF r, u
  <2> QED  BY <1>3, <2>1 DEF Outcome
<1> HIDE DEF r, u
<1>5. t'.suppressed = r.t.suppressed /\ k'.sent = k.sent /\ k'.pos = "user"
  BY <1>2, RestartKeeps
<1> QED  BY <1>2, <1>4, <1>5 DEF Delivered

\* What the kernel does of its own accord touches no signal but the one it reports.
LEMMA KernelKeeps ==
  ASSUME IInv,
         \/ \E nr \in Syscalls : ProgramCall(nr)
         \/ QueuedCall \/ EntryGate \/ FilterGate \/ Execute \/ ExitGate \/ SigSysStop
  PROVE  SignalsKept /\ k.pos \notin {"signal", "bare"}
<1>1. k \in Kernels /\ h \in Histories
  BY DEF IInv, TypeOK
<1>2. k'.sent = k.sent
  BY <1>1 DEF ProgramCall, QueuedCall, Issue, EntryGate, FilterGate, Execute, ExitGate, SigSysStop, Kernels
<1>3. h'.delivered = h.delivered /\ t' = t
  BY <1>1 DEF ProgramCall, QueuedCall, EntryGate, FilterGate, Execute, ExitGate, SigSysStop, Histories
<1>4. k.pos \notin {"signal", "bare"}
  BY DEF ProgramCall, QueuedCall, EntryGate, FilterGate, Execute, ExitGate, SigSysStop
<1> QED  BY <1>2, <1>3, <1>4 DEF SignalsKept

LEMMA NoSignalLostNext ==
  ASSUME IInv, NoSignalLost, OneAtATime, [Next]_vars
  PROVE  NoSignalLost'
<1>0. k.sent \in Nat
  BY StagesAssumption DEF IInv, TypeOK, Kernels
<1>1. ASSUME SignalsKept, k.pos \notin {"signal", "bare"}  PROVE NoSignalLost'
  BY <1>0, <1>1 DEF NoSignalLost, SignalsKept, NoSignal
<1>2. CASE \/ \E nr \in Syscalls : ProgramCall(nr)
           \/ QueuedCall \/ EntryGate \/ FilterGate \/ Execute \/ ExitGate \/ SigSysStop
  BY <1>1, <1>2, KernelKeeps
<1>3. CASE SysenterStage \/ SysexitStage \/ SeccompEvent \/ SigSysEvent \/ ExecEvent \/ ForkEvent
  <2>1. SignalsKept
    BY <1>3, StopKeeps
  <2>2. k.pos \notin {"signal", "bare"}
    BY <1>3 DEF SysenterStage, SysexitStage, SeccompEvent, SigSysEvent, ExecEvent, ForkEvent
  <2> QED  BY <1>1, <2>1, <2>2
<1>4. CASE SignalEvent
  <2>1. /\ k'.sent = k.sent /\ h.delivered \subseteq h'.delivered
        /\ k.sent \in h'.delivered \/ k.sent = t'.suppressed \/ k.sent = NoSignal
    BY <1>4, SignalStopKeeps
  <2>2. t.suppressed = NoSignal
    BY <1>4 DEF SignalEvent, OneAtATime
  <2> QED  BY <1>0, <2>1, <2>2 DEF NoSignalLost, NoSignal
<1>5. CASE SignalStop
  <2>1. k'.sent = k.sent + 1 /\ k'.pos \in {"signal", "bare"} /\ k.pos = "user" /\ t' = t /\ h' = h
    BY <1>5 DEF SignalStop, IInv, TypeOK, Kernels
  <2> QED  BY <1>0, <2>1 DEF NoSignalLost
<1>6. CASE UNCHANGED vars
  BY <1>6 DEF vars, NoSignalLost
<1>7. CASE BareSignalEvent
  <2>1. t'.suppressed = t.suppressed /\ k'.sent = k.sent
    <3>1. HandleForkEvent(Prepared).t.suppressed = t.suppressed
      BY DEF HandleForkEvent, Outcome, Prepared, IInv, TypeOK, Tracees
    <3> QED  BY <1>7, <3>1, BareRestart, RestartKeeps
  <2>2. h'.delivered = Delivered(k.sent)
    BY <1>7 DEF BareSignalEvent, HandleBareSignal, Outcome, IInv, TypeOK, Histories
  <2>3. h.delivered \subseteq h'.delivered /\ (k.sent \in h'.delivered \/ k.sent = NoSignal)
    BY <2>2 DEF Delivered
  <2> QED  BY <1>0, <1>7, <2>1, <2>3 DEF NoSignalLost, NoSignal
<1> QED  BY <1>2, <1>3, <1>4, <1>5, <1>6, <1>7 DEF Next, Kernel, Tracer

\* Every signal sent to the tracee is delivered, about to be handled or kept to be
\* redelivered, for any number of signals, as long as none has to be suppressed while
\* another one still is: there is one place to keep it (tracee/event.c:516-522, 684-694).
THEOREM SignalsNotLost == Spec /\ []OneAtATime => []NoSignalLost
<1>1. Init => IInv /\ NoSignalLost
  <2>1. Init => k.sent = 0
    BY DEF Init
  <2>2. Init => NoSignalLost
    BY <2>1 DEF NoSignalLost
  <2> QED  BY <2>2, InitIInv
<1>2. IInv /\ NoSignalLost /\ OneAtATime /\ [Next]_vars => (IInv /\ NoSignalLost)'
  BY NextStep, NoSignalLostNext
<1> QED  BY <1>1, <1>2, PTL DEF Spec

-----------------------------------------------------------------------------
(***************************************************************************)
(* PRoot is never out of step with the kernel: at every stop the fields of *)
(* the tracee tell the entry of a syscall from its exit.  The invariant    *)
(* relates the gates that the kernel still has to open, the mode in which  *)
(* the tracee was resumed, and the fields of the tracee.                   *)
(***************************************************************************)

\* What is supposed of the kinds of syscalls, for any hosts: a handler that
\* chains syscalls neither restarts another one nor belongs to a syscall that a host
\* refuses, and one that changes the number of a syscall asks for its exit, unless
\* every host can change it.  Section 9 of the README shows what happens otherwise.
OrderlyHandlers ==
  /\ Chains \cap (Traps \cup Again) = {}
  /\ Substs \subseteq ExitFlag \cup Ask \/ \A c \in Hosts : c.canset

\* What is supposed of a behaviour: where the exit of a refused syscall is not
\* reported, the program makes no syscall that disables the acceleration.
Spared == host.skip => h.nr \notin Disabling

-----------------------------------------------------------------------------
(* The inductive invariant                                                 *)

\* The tracee runs its program, or is about to, and not a syscall.
AtUser == k.pos \in {"user", "signal", "bare", "sigsys"}

\* The entry stop, or the seccomp event, of the current syscall is to come or is being handled.
EntryAhead ==
  \/ k.pos = "gate" /\ k.gates \in {<<"sysenter", "seccomp">>, <<"seccomp", "sysenter">>, <<"sysenter">>}
  \/ k.pos = "seccomp" /\ ~host.new
  \/ k.pos = "sysenter"

FilterAhead ==
  \/ k.pos = "gate" /\ k.gates \in {<<"sysenter", "seccomp">>, <<"seccomp", "sysenter">>, <<"seccomp">>}
  \/ k.pos = "seccomp"
  \/ k.pos = "sysenter" /\ host.new

\* The current syscall is one that the program made, or its restart.
OfProgram == k.call.src \in {"program", "restart"}

\* Where the kernel can be, and what it asked the program for.
KernelPlaces ==
  /\ k.pos = "gate" => k.gates \in IF host.new
                                   THEN {<<"sysenter", "seccomp">>, <<"seccomp">>, <<"recheck">>, <<>>}
                                   ELSE {<<"seccomp", "sysenter">>, <<"sysenter">>, <<>>}
  /\ k.pos = "sysenter" => k.mode = "SYSCALL" /\ k.gates = IF host.new THEN <<"seccomp">> ELSE <<>>
  /\ k.pos = "seccomp" => /\ host.filter /\ k.call.nr \in Filtered
                          /\ k.gates = IF host.new THEN <<"recheck">> ELSE <<"sysenter">>
  /\ k.pos = "sysexit" => k.mode = "SYSCALL"
  /\ k.pos = "fork" => k.call.nr \in Forks

\* The order of the stops is known once it was detected, and acceleration starts there.
OrderKnown ==
  /\ global.afterEnter = (host.new /\ (global.detected \/ host.policy))
  /\ global.detected => host.filter
  /\ t.seccomp = "ENABLED" => global.detected

\* PTRACE_CONT is for an accelerated tracee of which nothing is expected.
Followed ==
  /\ k.mode = t.last
  /\ t.seccomp # "DISABLING"
  /\ k.mode = "CONT" =>
       /\ t.seccomp = "ENABLED" /\ IsInSysenter(t)
       /\ ~t.pending /\ ~t.chain.live /\ ~t.restore /\ k.queue = NoCall
  /\ (k.call.nr \in Forks /\ ~AtUser /\ ~IsInSysenter(t) /\ t.seccomp = "ENABLED") => t.pending

\* tracee->status tells the stages apart.
Staged ==
  /\ AtUser => (IsInSysenter(t) \/ (host.skip /\ (k.sigsys \/ k.pos = "sigsys"))) /\ ~t.handled
  /\ ~AtUser /\ EntryAhead => (t.handled <=> ~IsInSysenter(t))
  /\ ~AtUser /\ ~EntryAhead => (IsInSysenter(t) <=> k.mode = "CONT") /\ ~t.handled
  /\ t.handled => /\ k.call.nr \notin Forks
                  /\ ~host.new /\ t.seccomp = "ENABLED" /\ k.mode = "SYSCALL"
                  /\ (k.pos = "gate" /\ k.gates = <<"sysenter">>) \/ k.pos = "sysenter"

\* What a pending SIGSYS says of the syscall it was raised for.
Refused ==
  /\ k.sigsys => k.pos \in {"user", "sysexit"}
  /\ (k.sigsys \/ k.pos = "sigsys") =>
       /\ host.policy /\ k.call.nr \in Traps \cup {Void}
       /\ k.queue # NoCall => host.new /\ k.call.nr = Void
  /\ (k.sigsys \/ k.pos = "sigsys") /\ ~IsInSysenter(t) =>
       host.new /\ OfProgram /\ k.call.nr \in {h.nr, Void} /\ ~t.chain.live

\* What is queued behind the current syscall, and what is left of a chain.
QueueKinds ==
  /\ t.chain.calls \in Seq(Chained) \/ (t.wa = "FAULTY" /\ t.chain.calls = <<Subst>>)
  /\ ~t.chain.live => t.chain.calls = <<>> /\ t.wa = "INACTIVE"
  /\ t.wa = "REPLACED" => t.chain.calls = <<>>
  /\ t.wa = "FAULTY" => t.chain.calls = <<Subst>>
  /\ AtUser /\ k.queue = NoCall => ~t.chain.live /\ (IsInSysenter(t) => ~t.restore)
  /\ k.queue # NoCall =>
       /\ AtUser /\ IsInSysenter(t)
       /\ \/ k.queue = Call("restart", RestartedAs) /\ t.restore /\ ~t.chain.live
          \/ k.queue.src = "chain" /\ k.queue.nr \in Chained /\ t.chain.live /\ t.wa = "INACTIVE"
          \/ k.queue = Call("replaced", Subst) /\ t.chain.live /\ t.wa = "REPLACED"

\* Who made the current syscall, and what PRoot made of it.
CallKinds ==
  ~AtUser =>
    /\ k.call.src \in {"program", "restart", "chain", "replaced"}
    /\ k.call.src = "chain" => t.chain.live /\ t.wa = "INACTIVE" /\ k.call.nr \in Chained
    /\ k.call.src = "replaced" => t.chain.live /\ t.wa = "REPLACED" /\ k.call.nr = Subst
    /\ k.call.src = "restart" => t.restore /\ h.nr = RestartedAs
    /\ k.call.src = "program" => ~t.restore
    /\ OfProgram => /\ k.call.nr \in {h.nr, Void, Subst, Faulty}
                    /\ h.entered = 0 => k.call.nr = h.nr
                    /\ t.chain.live => t.wa = "FAULTY" /\ k.call.nr = Faulty /\ ~IsInSysenter(t)

\* How often the stages of the current request were handled.
Counted ==
  /\ ~AtUser /\ OfProgram =>
       /\ h.exited = 0
       /\ IsInSysenter(t) /\ (FilterAhead \/ (EntryAhead /\ k.mode = "SYSCALL")) => h.entered = 0
       /\ ~IsInSysenter(t) => h.entered = 1
       /\ IsInSysenter(t) /\ ~FilterAhead /\ k.mode = "CONT" =>
            \/ h.entered = 0 /\ h.nr \notin Filtered
            \/ h.entered = 1 /\ h.nr \notin ExitFlag
  /\ AtUser /\ ~IsInSysenter(t) => h.entered = 1 /\ h.exited = 0
  /\ t.wa = "REPLACED" => h.exited = 0
  /\ (\/ AtUser /\ IsInSysenter(t) /\ t.wa = "INACTIVE"
      \/ ~AtUser /\ k.call.src = "chain")
     => (h.nr \in ExitFlag /\ h.entered = 1 => h.exited = 1)

OrderInv ==
  /\ IInv /\ KernelPlaces /\ OrderKnown /\ Followed /\ Staged /\ Refused
  /\ QueueKinds /\ CallKinds /\ Counted /\ Fifo

-----------------------------------------------------------------------------
(* The walk through the gates                                              *)

LEMMA GateWalk ==
  /\ <<"sysenter", "seccomp">> # <<>> /\ <<"seccomp", "sysenter">> # <<>>
  /\ <<"seccomp">> # <<>> /\ <<"sysenter">> # <<>> /\ <<"recheck">> # <<>>
  /\ <<"sysenter", "seccomp">> \notin {<<"seccomp", "sysenter">>, <<"seccomp">>, <<"sysenter">>, <<"recheck">>}
  /\ <<"seccomp", "sysenter">> \notin {<<"seccomp">>, <<"sysenter">>, <<"recheck">>}
  /\ <<"seccomp">> \notin {<<"sysenter">>, <<"recheck">>} /\ <<"sysenter">> # <<"recheck">>
  /\ Head(<<"sysenter", "seccomp">>) = "sysenter" /\ Tail(<<"sysenter", "seccomp">>) = <<"seccomp">>
  /\ Head(<<"seccomp", "sysenter">>) = "seccomp" /\ Tail(<<"seccomp", "sysenter">>) = <<"sysenter">>
  /\ Head(<<"seccomp">>) = "seccomp" /\ Tail(<<"seccomp">>) = <<>>
  /\ Head(<<"sysenter">>) = "sysenter" /\ Tail(<<"sysenter">>) = <<>>
  /\ Head(<<"recheck">>) = "recheck" /\ Tail(<<"recheck">>) = <<>>
  OBVIOUS

LEMMA VoidApart == Void \notin {Subst, Faulty} /\ Subst # Faulty
  BY DEF Void, Subst, Faulty

\* Everything but the types and Fifo.
Shape ==
  KernelPlaces /\ OrderKnown /\ Followed /\ Staged /\ Refused /\ QueueKinds /\ CallKinds /\ Counted

\* What is left alone by the steps of the kernel inside a syscall.
LEMMA EntryGateOrder ==
  ASSUME OrderInv, EntryGate
  PROVE  Shape' /\ Fifo'
<1>1. /\ k.pos = "gate" /\ k.gates # <<>> /\ Head(k.gates) = "sysenter"
      /\ k'.pos = (IF k.mode = "SYSCALL" THEN "sysenter" ELSE "gate")
      /\ k'.gates = Tail(k.gates) /\ k'.mode = k.mode /\ k'.call = k.call /\ k'.queue = k.queue
      /\ k'.sigsys = k.sigsys /\ host' = host /\ global' = global /\ t' = t /\ h' = h
  BY DEF EntryGate, OrderInv, IInv, TypeOK, Kernels
<1>2. host.new \in BOOLEAN /\ k.mode \in {"CONT", "SYSCALL"}
  BY StagesAssumption DEF OrderInv, IInv, TypeOK, Kernels, HostTraits
<1>3. /\ host.new => k.gates = <<"sysenter", "seccomp">> /\ k'.gates = <<"seccomp">>
      /\ ~host.new => k.gates = <<"sysenter">> /\ k'.gates = <<>>
  BY <1>1, <1>2, GateWalk DEF OrderInv, KernelPlaces
<1>4. KernelPlaces'
  BY <1>1, <1>3 DEF OrderInv, KernelPlaces
<1>5. OrderKnown' /\ Followed'
  BY <1>1, <1>3 DEF OrderInv, OrderKnown, Followed, AtUser
<1>6. Staged' /\ Refused'
  BY <1>1, <1>2, <1>3, GateWalk DEF OrderInv, Staged, Refused, AtUser, EntryAhead, Followed, OfProgram
<1>7. QueueKinds' /\ CallKinds'
  BY <1>1 DEF OrderInv, QueueKinds, CallKinds, AtUser, OfProgram
<1>8. Counted'
  BY <1>1, <1>2, <1>3, GateWalk DEF OrderInv, Counted, AtUser, EntryAhead, FilterAhead, OfProgram, Followed, Staged
<1>9. Fifo'
  BY <1>1 DEF OrderInv, Fifo
<1> QED  BY <1>4, <1>5, <1>6, <1>7, <1>8, <1>9 DEF Shape

\* The filters: the syscall is refused, reported, or passed.
LEMMA FilterGateOrder ==
  ASSUME OrderInv, FilterGate
  PROVE  Shape' /\ Fifo'
<1>1. /\ k.pos = "gate" /\ k.gates # <<>> /\ Head(k.gates) \in {"seccomp", "recheck"}
      /\ k'.mode = k.mode /\ k'.call = k.call /\ k'.queue = k.queue
      /\ host' = host /\ global' = global /\ t' = t /\ h' = h
      /\ \/ /\ Refuses(k.call.nr) /\ k'.sigsys /\ k'.gates = <<>>
            /\ k'.pos = IF k.mode = "SYSCALL" /\ ~host.skip THEN "sysexit" ELSE "user"
         \/ /\ ~Refuses(k.call.nr) /\ host.filter /\ k.call.nr \in Filtered /\ Head(k.gates) = "seccomp"
            /\ k'.pos = "seccomp" /\ k'.gates = (IF host.new THEN <<"recheck">> ELSE Tail(k.gates))
            /\ k'.sigsys = k.sigsys
         \/ /\ ~Refuses(k.call.nr)
            /\ ~(host.filter /\ k.call.nr \in Filtered /\ Head(k.gates) = "seccomp")
            /\ k'.gates = Tail(k.gates) /\ k'.pos = "gate" /\ k'.sigsys = k.sigsys
  BY DEF FilterGate, OrderInv, IInv, TypeOK, Kernels
<1>2. /\ host.new \in BOOLEAN /\ host.policy \in BOOLEAN /\ host.skip \in BOOLEAN /\ host.filter \in BOOLEAN
      /\ host.policy => host.new \/ host.skip
      /\ k.mode \in {"CONT", "SYSCALL"}
  BY StagesAssumption DEF OrderInv, IInv, TypeOK, Kernels, HostTraits
<1>3. /\ host.new => k.gates \in {<<"seccomp">>, <<"recheck">>}
      /\ ~host.new => k.gates = <<"seccomp", "sysenter">>
  BY <1>1, <1>2, GateWalk DEF OrderInv, KernelPlaces
<1>4. ~k.sigsys /\ k.queue = NoCall
  BY <1>1 DEF OrderInv, Refused, QueueKinds, AtUser
<1>5. CASE Refuses(k.call.nr)
  <2>1. /\ k'.sigsys /\ k'.gates = <<>> /\ host.policy /\ k.call.nr \in Traps \cup {Void}
        /\ k'.pos = IF k.mode = "SYSCALL" /\ ~host.skip THEN "sysexit" ELSE "user"
    BY <1>1, <1>5 DEF Refuses
  <2>2. OfProgram /\ k.call.nr \notin {Subst, Faulty} /\ k.call.nr # RestartedAs
    BY <1>1, <2>1, StagesAssumption, NumbersAssumption, VoidApart DEF OrderInv, CallKinds, AtUser, OfProgram
  <2>3. ~t.chain.live /\ t.wa = "INACTIVE"
    BY <1>1, <2>2 DEF OrderInv, CallKinds, QueueKinds, AtUser
  <2>4. IsInSysenter(t) <=> (~host.new \/ k.mode = "CONT")
    BY <1>1, <1>2, <1>3, GateWalk DEF OrderInv, Staged, AtUser, EntryAhead
  <2>5. KernelPlaces' /\ OrderKnown' /\ Followed'
    BY <1>1, <1>2, <2>1, <2>4 DEF OrderInv, KernelPlaces, OrderKnown, Followed, AtUser
  <2>6. Staged' /\ Refused'
    BY <1>1, <1>2, <1>4, <2>1, <2>2, <2>3, <2>4, GateWalk DEF OrderInv, Staged, Refused, AtUser, EntryAhead,
       CallKinds, OfProgram, Followed
  <2>4a. IsInSysenter(t) => ~t.restore
    <3>1. ASSUME ~host.new  PROVE k.call.src # "restart"
      BY <1>1, <1>3, <2>2, <2>4, <3>1, GateWalk DEF OrderInv, Counted, CallKinds, FilterAhead, AtUser, OfProgram
    <3> QED  BY <1>1, <2>2, <2>4, <3>1 DEF OrderInv, CallKinds, AtUser, OfProgram, Followed
  <2>7. QueueKinds' /\ CallKinds'
    BY <1>1, <1>2, <1>4, <2>1, <2>2, <2>3, <2>4, <2>4a DEF OrderInv, QueueKinds, CallKinds, AtUser, OfProgram, Followed
  <2>8. Counted'
    BY <1>1, <1>2, <1>3, <1>4, <2>1, <2>2, <2>3, <2>4, GateWalk DEF OrderInv, Counted, AtUser, OfProgram,
       EntryAhead, FilterAhead, Followed
  <2>9. Fifo'
    BY <1>1, <1>4, <2>1, <2>2, <2>3 DEF OrderInv, Fifo, OfProgram
  <2> QED  BY <2>5, <2>6, <2>7, <2>8, <2>9 DEF Shape
<1>6. CASE ~Refuses(k.call.nr) /\ k'.pos = "seccomp"
  <2>1. /\ host.filter /\ k.call.nr \in Filtered /\ k'.sigsys = k.sigsys /\ Head(k.gates) = "seccomp"
        /\ k'.gates = (IF host.new THEN <<"recheck">> ELSE <<"sysenter">>)
    BY <1>1, <1>3, <1>6, GateWalk
  <2>2. KernelPlaces' /\ OrderKnown' /\ Followed'
    BY <1>1, <1>2, <1>6, <2>1 DEF OrderInv, KernelPlaces, OrderKnown, Followed, AtUser
  <2>3. Staged' /\ Refused'
    BY <1>1, <1>2, <1>3, <1>4, <1>6, <2>1, GateWalk DEF OrderInv, Staged, Refused, AtUser, EntryAhead,
       OfProgram, Followed
  <2>4. QueueKinds' /\ CallKinds' /\ Fifo'
    BY <1>1, <1>6, <2>1 DEF OrderInv, QueueKinds, CallKinds, AtUser, OfProgram, Fifo
  <2>5. Counted'
    BY <1>1, <1>2, <1>3, <1>4, <1>6, <2>1, GateWalk DEF OrderInv, Counted, AtUser, OfProgram,
       EntryAhead, FilterAhead, Followed, Staged, CallKinds, OrderKnown
  <2> QED  BY <2>2, <2>3, <2>4, <2>5 DEF Shape
<1>7. CASE ~Refuses(k.call.nr) /\ k'.pos = "gate"
  <2>1. /\ k'.sigsys = k.sigsys
        /\ ~(host.filter /\ k.call.nr \in Filtered /\ Head(k.gates) = "seccomp")
        /\ k'.gates = (IF host.new THEN <<>> ELSE <<"sysenter">>)
    BY <1>1, <1>3, <1>7, GateWalk
  <2>2. KernelPlaces' /\ OrderKnown' /\ Followed'
    BY <1>1, <1>2, <1>7, <2>1 DEF OrderInv, KernelPlaces, OrderKnown, Followed, AtUser
  <2>3. Staged' /\ Refused'
    BY <1>1, <1>2, <1>3, <1>4, <1>7, <2>1, GateWalk DEF OrderInv, Staged, Refused, AtUser, EntryAhead,
       OfProgram, Followed
  <2>4. QueueKinds' /\ CallKinds' /\ Fifo'
    BY <1>1, <1>7, <2>1 DEF OrderInv, QueueKinds, CallKinds, AtUser, OfProgram, Fifo
  <2>5. Counted'
    BY <1>1, <1>2, <1>3, <1>4, <1>7, <2>1, GateWalk DEF OrderInv, Counted, AtUser, OfProgram,
       EntryAhead, FilterAhead, Followed, Staged, CallKinds, OrderKnown
  <2> QED  BY <2>2, <2>3, <2>4, <2>5 DEF Shape
<1> QED  BY <1>1, <1>5, <1>6, <1>7

LEMMA ExecuteOrder ==
  ASSUME OrderInv, Execute
  PROVE  Shape' /\ Fifo'
<1>1. /\ k.pos = "gate" /\ k.gates = <<>>
      /\ k'.pos \in {"leaving", "exec", "fork"} /\ (k'.pos = "fork" => k.call.nr \in Forks)
      /\ k'.gates = <<>> /\ k'.mode = k.mode /\ k'.call = k.call /\ k'.queue = k.queue /\ k'.sigsys = k.sigsys
      /\ host' = host /\ global' = global /\ t' = t
      /\ h'.nr = h.nr /\ h'.entered = h.entered /\ h'.exited = h.exited /\ h'.registered = h.registered
      /\ h'.ran = IF k.call.src = "chain" THEN Append(h.ran, k.call.nr) ELSE h.ran
  BY DEF Execute, OrderInv, IInv, TypeOK, Kernels, Histories
<1>2. KernelPlaces' /\ OrderKnown' /\ Followed'
  BY <1>1 DEF OrderInv, KernelPlaces, OrderKnown, Followed, AtUser
<1>3. Staged' /\ Refused'
  BY <1>1, GateWalk DEF OrderInv, Staged, Refused, AtUser, EntryAhead, OfProgram
<1>4. QueueKinds' /\ CallKinds'
  BY <1>1 DEF OrderInv, QueueKinds, CallKinds, AtUser, OfProgram
<1>5. Counted'
  BY <1>1, GateWalk DEF OrderInv, Counted, AtUser, OfProgram, EntryAhead, FilterAhead, Staged
<1>6. Fifo'
  <2>1. /\ h.ran \in Seq(Numbers) /\ k.call.nr \in Numbers
        /\ t.wa # "FAULTY" => t.chain.calls \in Seq(Numbers)
    BY ConstantNumbers DEF OrderInv, IInv, TypeOK, Histories, Kernels, Calls, Tracees, Queues
  <2>2. k.queue = NoCall
    BY <1>1 DEF OrderInv, QueueKinds, AtUser
  <2>3. h.ran \o <<>> \o <<k.call.nr>> = Append(h.ran, k.call.nr) \o <<>> \o <<>>
    BY <2>1
  <2>4. h.ran \o <<>> \o <<>> = h.ran
    BY <2>1
  <2> DEFINE rest == IF t.wa = "FAULTY" THEN <<>> ELSE t.chain.calls
  <2>5. k.queue.src # "chain" /\ k'.queue.src # "chain"
    BY <1>1, <2>2 DEF NoCall
  <2>6. h.registered = h.ran \o <<>> \o (IF k.call.src = "chain" THEN <<k.call.nr>> ELSE <<>>) \o rest
    BY <1>1, <2>5 DEF OrderInv, Fifo
  <2>7. h.registered = h'.ran \o <<>> \o <<>> \o rest
    <3> HIDE DEF rest
    <3> QED  BY <1>1, <2>3, <2>4, <2>6
  <2> QED  BY <1>1, <2>5, <2>7 DEF Fifo
<1> QED  BY <1>2, <1>3, <1>4, <1>5, <1>6 DEF Shape

LEMMA KernelOrder ==
  ASSUME OrderInv, ExitGate \/ SigSysStop \/ SignalStop
  PROVE  Shape' /\ Fifo'
<1>1. /\ k'.gates = k.gates /\ k'.mode = k.mode /\ k'.call = k.call /\ k'.queue = k.queue
      /\ host' = host /\ global' = global /\ t' = t /\ h' = h
      /\ \/ /\ k.pos = "leaving" /\ k'.sigsys = k.sigsys
            /\ k'.pos = IF k.mode = "SYSCALL" THEN "sysexit" ELSE "user"
         \/ k.pos = "user" /\ k.sigsys /\ k'.pos = "sigsys" /\ ~k'.sigsys
         \/ k.pos = "user" /\ ~k.sigsys /\ k'.pos \in {"signal", "bare"} /\ ~k'.sigsys
  BY DEF ExitGate, SigSysStop, SignalStop, OrderInv, IInv, TypeOK, Kernels
<1>2. k.mode \in {"CONT", "SYSCALL"} /\ k.sigsys \in BOOLEAN
  BY DEF OrderInv, IInv, TypeOK, Kernels
<1>3. KernelPlaces' /\ OrderKnown' /\ Followed'
  BY <1>1, <1>2 DEF OrderInv, KernelPlaces, OrderKnown, Followed, AtUser
<1>4. Staged' /\ Refused'
  BY <1>1, <1>2 DEF OrderInv, Staged, Refused, AtUser, EntryAhead, OfProgram
<1>5. QueueKinds' /\ CallKinds'
  BY <1>1, <1>2 DEF OrderInv, QueueKinds, CallKinds, AtUser, OfProgram, Followed
<1>6. Counted'
  BY <1>1, <1>2 DEF OrderInv, Counted, AtUser, OfProgram, EntryAhead, FilterAhead, Staged, Followed, CallKinds
<1>7. Fifo'
  BY <1>1 DEF OrderInv, Fifo
<1> QED  BY <1>3, <1>4, <1>5, <1>6, <1>7 DEF Shape

\* A syscall instruction is executed: every gate is ahead of it.
LEMMA IssueOrder ==
  ASSUME OrderInv, NEW call, Issue(call)
  PROVE  /\ k'.pos = "gate" /\ k'.gates = Gates /\ k'.call = call /\ k'.queue = NoCall
         /\ k'.mode = k.mode /\ k'.sigsys = k.sigsys
  BY DEF Issue, OrderInv, IInv, TypeOK, Kernels

LEMMA ProgramCallOrder ==
  ASSUME OrderInv, NEW nr \in Syscalls, ProgramCall(nr)
  PROVE  Shape' /\ Fifo'
<1>1. /\ k.pos = "user" /\ k.queue = NoCall /\ ~k.sigsys
      /\ k'.pos = "gate" /\ k'.gates = Gates /\ k'.call = Call("program", nr) /\ k'.queue = NoCall
      /\ k'.mode = k.mode /\ ~k'.sigsys /\ host' = host /\ global' = global /\ t' = t
      /\ h'.nr = nr /\ h'.entered = 0 /\ h'.exited = 0 /\ h'.registered = <<>> /\ h'.ran = <<>>
  BY IssueOrder DEF ProgramCall, OrderInv, IInv, TypeOK, Histories
<1>2. host.new \in BOOLEAN /\ k'.call.src = "program" /\ k'.call.nr = nr
  BY <1>1, StagesAssumption DEF OrderInv, IInv, TypeOK, HostTraits, Call
<1>3. /\ ~t.chain.live /\ ~t.restore /\ IsInSysenter(t) /\ t.wa = "INACTIVE" /\ t.chain.calls = <<>> /\ ~t.handled
  BY <1>1 DEF OrderInv, QueueKinds, Staged, AtUser
<1>4. KernelPlaces' /\ OrderKnown' /\ Followed'
  BY <1>1, <1>2, <1>3 DEF OrderInv, KernelPlaces, OrderKnown, Followed, AtUser, Gates
<1>5. Staged' /\ Refused'
  BY <1>1, <1>2, <1>3, GateWalk DEF OrderInv, Staged, Refused, AtUser, EntryAhead, Gates
<1>6. QueueKinds' /\ CallKinds'
  BY <1>1, <1>2, <1>3 DEF OrderInv, QueueKinds, CallKinds, AtUser, OfProgram
<1>7. Counted'
  BY <1>1, <1>2, <1>3, GateWalk DEF Counted, AtUser, OfProgram, EntryAhead, FilterAhead, Gates
<1>8. Fifo'
  <2>1. k'.queue.src # "chain"
    BY <1>1 DEF NoCall
  <2> QED  BY <1>1, <1>2, <1>3, <2>1 DEF Fifo
<1> QED  BY <1>4, <1>5, <1>6, <1>7, <1>8 DEF Shape

LEMMA QueuedCallOrder ==
  ASSUME OrderInv, QueuedCall
  PROVE  Shape' /\ Fifo'
<1>1. /\ k.pos = "user" /\ k.queue # NoCall /\ ~k.sigsys
      /\ k'.pos = "gate" /\ k'.gates = Gates /\ k'.call = k.queue /\ k'.queue = NoCall
      /\ k'.mode = k.mode /\ ~k'.sigsys /\ host' = host /\ global' = global /\ t' = t
      /\ h'.registered = h.registered /\ h'.ran = h.ran
      /\ k.queue.src = "restart" => h'.nr = k.queue.nr /\ h'.entered = 0 /\ h'.exited = 0
      /\ k.queue.src # "restart" => h' = h
  BY IssueOrder DEF QueuedCall, OrderInv, IInv, TypeOK, Histories
<1>2. host.new \in BOOLEAN /\ k.mode = "SYSCALL"
  BY <1>1, StagesAssumption DEF OrderInv, IInv, TypeOK, HostTraits, Kernels, Followed
<1>3. IsInSysenter(t) /\ ~t.handled
  BY <1>1 DEF OrderInv, Staged, AtUser
<1>4. \/ k.queue.src = "restart" /\ k.queue.nr = RestartedAs /\ t.restore /\ ~t.chain.live
      \/ k.queue.src = "chain" /\ k.queue.nr \in Chained /\ t.chain.live /\ t.wa = "INACTIVE"
      \/ k.queue.src = "replaced" /\ k.queue.nr = Subst /\ t.chain.live /\ t.wa = "REPLACED"
  BY <1>1 DEF OrderInv, QueueKinds, Call
<1>5. KernelPlaces' /\ OrderKnown' /\ Followed'
  BY <1>1, <1>2, <1>3 DEF OrderInv, KernelPlaces, OrderKnown, Followed, AtUser, Gates
<1>6. Staged' /\ Refused'
  BY <1>1, <1>2, <1>3, GateWalk DEF OrderInv, Staged, Refused, AtUser, EntryAhead, Gates
<1>7. QueueKinds' /\ CallKinds'
  BY <1>1, <1>4 DEF OrderInv, QueueKinds, CallKinds, AtUser, OfProgram
<1>8. Counted'
  BY <1>1, <1>2, <1>3, <1>4, GateWalk DEF OrderInv, Counted, AtUser, OfProgram, EntryAhead, FilterAhead, Gates
<1>9. Fifo'
  <2>1. k'.queue.src # "chain"
    BY <1>1 DEF NoCall
  <2>2. h.ran \in Seq(Numbers) /\ k.queue.nr \in Numbers
    BY DEF OrderInv, IInv, TypeOK, Histories, Kernels, Calls
  <2>3. h.ran \o <<k.queue.nr>> \o <<>> = h.ran \o <<>> \o <<k.queue.nr>>
    BY <2>2
  <2> DEFINE rest == IF t.wa = "FAULTY" THEN <<>> ELSE t.chain.calls
  <2>4. h.registered = h.ran \o (IF k.queue.src = "chain" THEN <<k.queue.nr>> ELSE <<>>) \o <<>> \o rest
    BY <1>1 DEF OrderInv, Fifo
  <2>5. h.registered = h.ran \o <<>> \o (IF k.queue.src = "chain" THEN <<k.queue.nr>> ELSE <<>>) \o rest
    <3> HIDE DEF rest
    <3> QED  BY <2>3, <2>4
  <2> QED  BY <1>1, <2>1, <2>5 DEF Fifo
<1> QED  BY <1>5, <1>6, <1>7, <1>8, <1>9 DEF Shape

-----------------------------------------------------------------------------
(* What the two halves of translate_syscall() do to the fields             *)

\* The entry stage changes the number of a syscall of the program only, and when it
\* cannot, it puts the replacement behind a call made to fail.
EntryTranslated(tr, nr, u, number) ==
  /\ u.seccomp = tr.seccomp /\ u.restore = tr.restore /\ u.handled = tr.handled
  /\ \/ /\ tr.chain.live /\ number = nr
        /\ u.chain = tr.chain /\ u.wa = tr.wa
     \/ /\ ~tr.chain.live /\ number \in {nr, Void, Subst, Faulty}
        /\ u.chain = tr.chain /\ u.wa = tr.wa
     \/ /\ ~tr.chain.live /\ number = Faulty
        /\ u.chain = [live |-> TRUE, calls |-> <<Subst>>] /\ u.wa = "FAULTY"

LEMMA EnterFields ==
  ASSUME OrderlyHandlers, host \in Hosts,
         NEW tr \in Handled, NEW nr \in Numbers, NEW o \in EnterOutcomes(nr),
         NEW e, e = TranslateEnter(tr, nr, o)
  PROVE  /\ EntryTranslated(tr, nr, e.t, e.nr)
         /\ tr.how = "SYSCALL" => e.t.how = "SYSCALL" /\ ~IsInSysenter(e.t)
         /\ tr.how = "CONT" /\ ~tr.chain.live /\ nr \notin ExitFlag =>
              /\ e.t.how = "CONT" <=> IsInSysenter(e.t)
              /\ e.t.how = "CONT" => e.t.pending = tr.pending /\ e.t.chain = tr.chain
         /\ tr.pending => e.t.pending
<1> DEFINE chained == tr.chain.live
           failed  == ~chained /\ o.res = "err"
           asks    == chained \/ o.ask # "none" \/ (failed /\ host.arm)
           status  == IF failed THEN -1 ELSE 1
           how     == IF asks THEN "SYSCALL" ELSE tr.how
           number  == IF chained \/ o.res = "ok" THEN nr
                      ELSE IF o.res = "subst" THEN Subst ELSE Void
           st      == IF how = "CONT" THEN 0 ELSE status
           pend    == tr.pending \/ (~chained /\ o.ask = "pending")
           t1 == [tr EXCEPT !.status  = IF how = "CONT" THEN 0 ELSE status,
                            !.how     = how,
                            !.pending = @ \/ (~chained /\ o.ask = "pending")]
           t2 == [t1 EXCEPT !.chain = [live |-> TRUE, calls |-> <<Subst>>], !.wa = "FAULTY"]
           t3 == [t1 EXCEPT !.status = status, !.how = "SYSCALL"]
<1>1. status \in {-1, 1} /\ how \in {"CONT", "SYSCALL"} /\ tr.chain.live \in BOOLEAN
  BY DEF Handled, Tracees, Queues
<1>2. t1 = [tr EXCEPT !.status = st, !.how = how, !.pending = pend]
  OBVIOUS
<1>3. /\ t1.status = st /\ t1.how = how /\ t1.pending = pend
      /\ t1.seccomp = tr.seccomp /\ t1.restore = tr.restore /\ t1.handled = tr.handled
      /\ t1.chain = tr.chain /\ t1.wa = tr.wa /\ t1 \in Handled
  <2>1. st \in {-1, 0, 1} /\ pend \in BOOLEAN
    BY <1>1 DEF Handled, Tracees
  <2> HIDE DEF st, how, pend, t1
  <2> QED  BY <1>1, <1>2, <2>1 DEF Handled, Tracees
<1>4. /\ t2.status = t1.status /\ t2.how = t1.how /\ t2.pending = t1.pending
      /\ t2.seccomp = t1.seccomp /\ t2.restore = t1.restore /\ t2.handled = t1.handled
      /\ t2.chain = [live |-> TRUE, calls |-> <<Subst>>] /\ t2.wa = "FAULTY"
  <2> HIDE DEF t1
  <2> QED  BY <1>3 DEF Handled, Tracees
<1>5. /\ t3.status = status /\ t3.how = "SYSCALL" /\ t3.pending = t1.pending
      /\ t3.seccomp = t1.seccomp /\ t3.restore = t1.restore /\ t3.handled = t1.handled
      /\ t3.chain = t1.chain /\ t3.wa = t1.wa
  <2> HIDE DEF t1, status
  <2> QED  BY <1>3 DEF Handled, Tracees
<1>6. TranslateEnter(tr, nr, o) =
        CASE number = nr \/ host.canset -> [t |-> t1, nr |-> number, void |-> number = Void]
          [] number # nr /\ number = Subst /\ ~host.canset -> [t |-> t2, nr |-> Faulty, void |-> FALSE]
          [] OTHER -> [t |-> IF how = "CONT" THEN t3 ELSE t1, nr |-> Faulty, void |-> TRUE]
  BY Zenon DEF TranslateEnter
\* A number that cannot be changed belongs to a syscall whose exit is asked for.
<1>7. ASSUME number # nr, number = Subst, ~host.canset, nr \notin ExitFlag
      PROVE  how = "SYSCALL"
  <2>2. o.res = "subst"
    BY <1>7, VoidApart
  <2>3. nr \in Substs /\ (nr \in Ask => o.ask = "how")
    BY <2>2 DEF EnterOutcomes
  <2>4. nr \in Ask
    BY <1>7, <2>3 DEF OrderlyHandlers
  <2> QED  BY <2>3, <2>4
<1>8. o.ask = "pending" => how = "SYSCALL"
  OBVIOUS
<1>9. chained => number = nr
  OBVIOUS
<1>10. number \in {nr, Void, Subst}
  OBVIOUS
<1>11. how = "CONT" => pend = tr.pending /\ ~chained /\ tr.how = "CONT"
  BY DEF Handled, Tracees
<1>12. /\ tr.how = "SYSCALL" => how = "SYSCALL"
       /\ chained => how = "SYSCALL"
       /\ tr.pending => pend
       /\ st = IF how = "CONT" THEN 0 ELSE status
  OBVIOUS
<1>13. CASE number = nr \/ host.canset
  <2>1. e.t = t1 /\ e.nr = number
    <3> HIDE DEF t1, t2, t3, number, how
    <3> QED  BY <1>6, <1>13
  <2> HIDE DEF t1, t2, t3, number, how, st, status, pend
  <2> QED  BY <1>1, <1>3, <1>9, <1>10, <1>11, <1>12, <2>1 DEF EntryTranslated, IsInSysenter
<1>14. CASE number # nr /\ number = Subst /\ ~host.canset
  <2>1. e.t = t2 /\ e.nr = Faulty
    <3> HIDE DEF t1, t2, t3, number, how
    <3> QED  BY <1>6, <1>14
  <2> HIDE DEF t1, t2, t3, number, how, st, status, pend
  <2> QED  BY <1>1, <1>3, <1>4, <1>7, <1>9, <1>11, <1>12, <1>14, <2>1 DEF EntryTranslated, IsInSysenter
<1>15. CASE number # nr /\ number # Subst /\ ~host.canset
  <2>1. e.t = (IF how = "CONT" THEN t3 ELSE t1) /\ e.nr = Faulty
    <3> HIDE DEF t1, t2, t3, number, how
    <3> QED  BY <1>6, <1>15
  <2> HIDE DEF t1, t2, t3, number, how, st, status, pend
  <2> QED  BY <1>1, <1>3, <1>5, <1>9, <1>11, <1>12, <1>15, <2>1 DEF EntryTranslated, IsInSysenter
<1> QED  BY <1>13, <1>14, <1>15

LEMMA ChainNextFields ==
  ASSUME NEW tr \in Handled, NEW n, n = ChainNext(tr)
  PROVE  /\ n.t.status = tr.status /\ n.t.seccomp = tr.seccomp /\ n.t.pending = tr.pending
         /\ n.t.restore = tr.restore /\ n.t.handled = tr.handled /\ n.t.wa = tr.wa
         /\ ~tr.chain.live => n.t = tr /\ n.queue = NoCall
         /\ tr.chain.live /\ tr.chain.calls = <<>> =>
              n.queue = NoCall /\ n.t.chain = NoChain /\ n.t.how = tr.how
         /\ tr.chain.live /\ tr.chain.calls # <<>> =>
              /\ n.queue = Call(IF Head(tr.chain.calls) = Subst THEN "replaced" ELSE "chain",
                                Head(tr.chain.calls))
              /\ n.t.chain = [live |-> TRUE, calls |-> Tail(tr.chain.calls)] /\ n.t.how = "SYSCALL"
<1>1. CASE ~tr.chain.live
  BY <1>1 DEF ChainNext
<1>2. CASE tr.chain.live /\ tr.chain.calls = <<>>
  <2> DEFINE u == [tr EXCEPT !.chain = NoChain]
  <2>1. n.t = u /\ n.queue = NoCall
    BY <1>2 DEF ChainNext
  <2>2. /\ u.status = tr.status /\ u.seccomp = tr.seccomp /\ u.pending = tr.pending
        /\ u.restore = tr.restore /\ u.handled = tr.handled /\ u.wa = tr.wa
        /\ u.chain = NoChain /\ u.how = tr.how
    BY DEF Handled, Tracees
  <2> HIDE DEF u
  <2> QED  BY <1>2, <2>1, <2>2
<1>3. CASE tr.chain.live /\ tr.chain.calls # <<>>
  <2> DEFINE c == [tr.chain EXCEPT !.calls = Tail(@)]
             u == [tr EXCEPT !.chain = c, !.how = "SYSCALL"]
  <2>1. tr.chain \in Queues
    BY DEF Handled, Tracees
  <2>2. c = [live |-> TRUE, calls |-> Tail(tr.chain.calls)]
    <3>1. tr.chain.calls \in Seq(Numbers) /\ Tail(tr.chain.calls) \in Seq(Numbers)
      BY <1>3, <2>1, QueueValues
    <3>2. c \in Queues /\ c.live = TRUE /\ c.calls = Tail(tr.chain.calls)
      BY <1>3, <2>1, <3>1 DEF Queues
    <3> HIDE DEF c
    <3> QED  BY <3>2 DEF Queues
  <2>3. [tr EXCEPT !.chain.calls = Tail(@), !.how = "SYSCALL"] = u
    BY DEF Handled, Tracees
  <2>4. /\ n.t = [tr EXCEPT !.chain.calls = Tail(@), !.how = "SYSCALL"]
        /\ n.queue = Call(IF Head(tr.chain.calls) = Subst THEN "replaced" ELSE "chain",
                          Head(tr.chain.calls))
    BY <1>3 DEF ChainNext
  <2> HIDE DEF c
  <2>5. /\ u.status = tr.status /\ u.seccomp = tr.seccomp /\ u.pending = tr.pending
        /\ u.restore = tr.restore /\ u.handled = tr.handled /\ u.wa = tr.wa
        /\ u.chain = c /\ u.how = "SYSCALL"
    BY DEF Handled, Tracees
  <2> HIDE DEF u
  <2> QED  BY <1>3, <2>2, <2>3, <2>4, <2>5
<1> QED  BY <1>1, <1>2, <1>3

\* What the effects of an exit are to the fields.
Effects(tr, o, u) ==
  /\ u.handled = tr.handled
  /\ Requested(tr) =>
       /\ u.wa = "INACTIVE" /\ u.pending = (tr.pending \/ o.pend)
       /\ u.how = IF o.pend \/ o.again THEN "SYSCALL" ELSE tr.how
       /\ u.restore = (tr.restore \/ o.again)
       /\ u.seccomp = IF o.disable /\ tr.seccomp = "ENABLED" THEN "DISABLING" ELSE tr.seccomp
  /\ ~Requested(tr) =>
       /\ u.wa = IF tr.wa = "FAULTY" THEN "REPLACED" ELSE tr.wa
       /\ u.pending = tr.pending /\ u.how = tr.how /\ u.restore = tr.restore
       /\ u.seccomp = tr.seccomp
  /\ u.chain = IF o.chain = <<>> \/ (~Requested(tr) /\ tr.wa = "FAULTY") THEN tr.chain
               ELSE [live |-> TRUE, calls |-> tr.chain.calls \o o.chain]

LEMMA EffectsFields ==
  ASSUME NEW tr \in Handled, NEW o, o.chain \in Seq(Numbers),
         o.pend \in BOOLEAN, o.disable \in BOOLEAN, o.again \in BOOLEAN
  PROVE  Effects(tr, o, ExitEffects(tr, o))
<1> DEFINE u == ExitEffects(tr, o)
<1> DEFINE add(v)  == IF o.chain = <<>> THEN v
                      ELSE [v EXCEPT !.chain = [live |-> TRUE, calls |-> @.calls \o o.chain]]
           hw == IF o.pend \/ o.again THEN "SYSCALL" ELSE tr.how
           sc == IF o.disable /\ tr.seccomp = "ENABLED" THEN "DISABLING" ELSE tr.seccomp
           pd == tr.pending \/ o.pend
           rs == tr.restore \/ o.again
           dn == [tr EXCEPT !.wa = "INACTIVE", !.pending = pd, !.how = hw, !.restore = rs, !.seccomp = sc]
<1>1. hw \in {"CONT", "SYSCALL"} /\ sc \in {"DISABLED", "DISABLING", "ENABLED"} /\ pd \in BOOLEAN /\ rs \in BOOLEAN
  BY DEF Handled, Tracees
<1>2. /\ dn \in Handled /\ dn.wa = "INACTIVE" /\ dn.pending = pd /\ dn.how = hw /\ dn.restore = rs
      /\ dn.seccomp = sc /\ dn.handled = tr.handled /\ dn.chain = tr.chain
  <2> HIDE DEF hw, sc, pd, rs
  <2> QED  BY <1>1 DEF Handled, Tracees
<1>3. ASSUME NEW v \in Handled
      PROVE  /\ add(v).chain = IF o.chain = <<>> THEN v.chain
                               ELSE [live |-> TRUE, calls |-> v.chain.calls \o o.chain]
             /\ add(v).wa = v.wa /\ add(v).pending = v.pending /\ add(v).how = v.how
             /\ add(v).restore = v.restore /\ add(v).seccomp = v.seccomp /\ add(v).handled = v.handled
  <2> DEFINE c == [live |-> TRUE, calls |-> v.chain.calls \o o.chain]
             w == [v EXCEPT !.chain = c]
  <2>1. /\ w.chain = c /\ w.wa = v.wa /\ w.pending = v.pending /\ w.how = v.how
        /\ w.restore = v.restore /\ w.seccomp = v.seccomp /\ w.handled = v.handled
    <3> HIDE DEF c
    <3> QED  BY DEF Handled, Tracees
  <2>2. add(v) = IF o.chain = <<>> THEN v ELSE w
    OBVIOUS
  <2> HIDE DEF w, add
  <2> QED  BY <2>1, <2>2
<1>4. u = IF Requested(tr) THEN add(dn)
          ELSE IF tr.wa = "FAULTY" THEN [tr EXCEPT !.wa = "REPLACED"]
          ELSE add(tr)
  BY Zenon DEF ExitEffects
<1> DEFINE rp == [tr EXCEPT !.wa = "REPLACED"]
<1>5. /\ rp.wa = "REPLACED" /\ rp.pending = tr.pending /\ rp.how = tr.how /\ rp.restore = tr.restore
      /\ rp.seccomp = tr.seccomp /\ rp.handled = tr.handled /\ rp.chain = tr.chain
  BY DEF Handled, Tracees
<1> HIDE DEF add, dn, rp, u
<1>6. ASSUME Requested(tr)  PROVE Effects(tr, o, u)
  BY <1>2, <1>3, <1>4, <1>6 DEF Effects
<1>7. ASSUME ~Requested(tr), tr.wa = "FAULTY"  PROVE Effects(tr, o, u)
  <2>1. u = rp
    BY <1>4, <1>7 DEF rp
  <2> QED  BY <1>5, <1>7, <2>1 DEF Effects
<1>8. ASSUME ~Requested(tr), tr.wa # "FAULTY"  PROVE Effects(tr, o, u)
  BY <1>3, <1>4, <1>8 DEF Effects
<1> QED  BY <1>6, <1>7, <1>8 DEF u

LEMMA ConcatFacts ==
  ASSUME NEW S, NEW a \in Seq(S), NEW b \in Seq(S)
  PROVE  /\ a \o b \in Seq(S)
         /\ b = <<>> => a \o b = a
         /\ a = <<>> => a \o b = b
         /\ a \o b = <<>> => a = <<>> /\ b = <<>>
  OBVIOUS

LEMMA SingletonSeq ==
  ASSUME NEW S, NEW a \in S
  PROVE  <<a>> \in Seq(S)
  OBVIOUS

\* Calls are added behind those that are left, of which the next one is queued.
Moved(ran, rest, added, next1, rest1) ==
  next1 \o rest1 = rest \o added => (ran \o rest) \o added = ran \o next1 \o <<>> \o rest1

LEMMA CallsMove ==
  ASSUME NEW S, NEW ran \in Seq(S), NEW rest \in Seq(S), NEW added \in Seq(S),
         NEW next1 \in Seq(S), NEW rest1 \in Seq(S)
  PROVE  Moved(ran, rest, added, next1, rest1)
<1>1. (ran \o rest) \o added = ran \o (rest \o added)
  BY ConcatAssociative, SMTT(60)
<1>2. ran \o next1 \o <<>> = ran \o next1
  BY ConcatProperties, ConcatEmptySeq
<1>3. (ran \o next1) \o rest1 = ran \o (next1 \o rest1)
  BY ConcatAssociative, SMTT(60)
<1> QED  BY <1>1, <1>2, <1>3 DEF Moved

LEMMA QueueRecord ==
  ASSUME NEW c, NEW s, c = [live |-> TRUE, calls |-> s]
  PROVE  c.live /\ c.calls = s
  OBVIOUS

LEMMA HeadTailFacts ==
  ASSUME NEW S, NEW a \in Seq(S), a # <<>>
  PROVE  Head(a) \in S /\ Tail(a) \in Seq(S) /\ a = <<Head(a)>> \o Tail(a)
  OBVIOUS

\* The fields of a tracee at the exit of a syscall: what is left to do is known.
ExitReady(tr, o) ==
  /\ o.chain \in Seq(Chained) /\ o.pend \in BOOLEAN /\ o.disable \in BOOLEAN /\ o.again \in BOOLEAN
  /\ o.again => o.chain = <<>>
  /\ tr.wa # "FAULTY" => tr.chain.calls \in Seq(Chained)
  /\ tr.wa = "FAULTY" => tr.chain.calls = <<Subst>> /\ o.chain = <<>>
  /\ tr.wa # "INACTIVE" => tr.chain.live
  /\ Requested(tr) => tr.chain.calls = <<>>

\* The exit stage makes a place for the next syscall of the chain or ends the chain.
ExitTranslated(tr, o, x, q) ==
  /\ x.t.status = 0 /\ x.t.handled = tr.handled /\ q \in Seq(Numbers)
  /\ Requested(tr) =>
       /\ x.t.wa = "INACTIVE" /\ x.t.pending = (tr.pending \/ o.pend)
       /\ x.t.seccomp = IF o.disable /\ tr.seccomp = "ENABLED" THEN "DISABLING" ELSE tr.seccomp
  /\ ~Requested(tr) => x.t.pending = tr.pending /\ x.t.seccomp = tr.seccomp
  /\ Requested(tr) /\ o.again =>
       /\ x.queue = Call("restart", RestartedAs) /\ x.t.restore /\ x.t.how = "SYSCALL"
       /\ x.t.chain = NoChain
  /\ tr.wa = "FAULTY" =>
       /\ x.t.wa = "REPLACED" /\ x.t.chain = [live |-> TRUE, calls |-> <<>>]
       /\ x.queue = Call("replaced", Subst) /\ x.t.how = "SYSCALL" /\ x.t.restore = tr.restore
  /\ tr.wa # "FAULTY" /\ ~(Requested(tr) /\ o.again) =>
       /\ x.t.wa = "INACTIVE"
       /\ q = <<>> => /\ x.queue = NoCall /\ x.t.chain = NoChain /\ ~x.t.restore
                      /\ x.t.how = IF Requested(tr) /\ o.pend THEN "SYSCALL" ELSE tr.how
       /\ q # <<>> => /\ x.queue = Call("chain", Head(q)) /\ Head(q) \in Chained
                      /\ Tail(q) \in Seq(Chained)
                      /\ x.t.chain = [live |-> TRUE, calls |-> Tail(q)]
                      /\ x.t.how = "SYSCALL" /\ x.t.restore = tr.restore

LEMMA ExitFields ==
  ASSUME NEW tr \in Handled, NEW o, ExitReady(tr, o),
         NEW x, x = TranslateExit(tr, o), NEW q, q = tr.chain.calls \o o.chain
  PROVE  ExitTranslated(tr, o, x, q)
<1> DEFINE u == ExitEffects(tr, o)
           v == [u EXCEPT !.status = 0]
           n == ChainNext(v)
           w == [n.t EXCEPT !.restore = FALSE]
<1>0. o.chain \in Seq(Numbers) /\ Chained \subseteq Numbers
  BY ConstantNumbers DEF ExitReady
<1>1. u \in Handled
  BY <1>0, ExitEffectsType DEF ExitReady
<1>2. Effects(tr, o, u)
  BY <1>0, EffectsFields DEF ExitReady
<1> HIDE DEF u
<1>3. /\ v \in Handled /\ v.status = 0 /\ v.handled = u.handled /\ v.wa = u.wa /\ v.pending = u.pending
      /\ v.how = u.how /\ v.restore = u.restore /\ v.seccomp = u.seccomp /\ v.chain = u.chain
  BY <1>1 DEF Handled, Tracees
<1> HIDE DEF v
<1>4. n.t \in Handled
  BY <1>3, ChainNextType
<1>5. /\ n.t.status = v.status /\ n.t.seccomp = v.seccomp /\ n.t.pending = v.pending
      /\ n.t.restore = v.restore /\ n.t.handled = v.handled /\ n.t.wa = v.wa
      /\ ~v.chain.live => n.t = v /\ n.queue = NoCall
      /\ v.chain.live /\ v.chain.calls = <<>> =>
           n.queue = NoCall /\ n.t.chain = NoChain /\ n.t.how = v.how
      /\ v.chain.live /\ v.chain.calls # <<>> =>
           /\ n.queue = Call(IF Head(v.chain.calls) = Subst THEN "replaced" ELSE "chain",
                             Head(v.chain.calls))
           /\ n.t.chain = [live |-> TRUE, calls |-> Tail(v.chain.calls)] /\ n.t.how = "SYSCALL"
  BY <1>3, ChainNextFields
<1>6. /\ w.status = n.t.status /\ w.seccomp = n.t.seccomp /\ w.pending = n.t.pending
      /\ ~w.restore /\ w.handled = n.t.handled /\ w.wa = n.t.wa /\ w.chain = n.t.chain /\ w.how = n.t.how
  <2> HIDE DEF n
  <2> QED  BY <1>4 DEF Handled, Tracees
<1>7. /\ o.again /\ Requested(tr) => x.t = n.t /\ x.queue = Call("restart", RestartedAs)
      /\ ~(o.again /\ Requested(tr)) =>
           x.queue = n.queue /\ x.t = IF n.queue = NoCall THEN w ELSE n.t
  <2>1. x = IF o.again /\ Requested(tr)
            THEN [t |-> n.t, queue |-> Call("restart", RestartedAs)]
            ELSE [t     |-> IF n.queue = NoCall THEN w ELSE n.t,
                  queue |-> n.queue]
    BY Zenon DEF TranslateExit, u, v
  <2> HIDE DEF n, w
  <2> QED  BY <2>1
<1> HIDE DEF n, w
<1>8. /\ tr.chain \in Queues /\ tr.how \in {"CONT", "SYSCALL"} /\ tr.wa \in {"INACTIVE", "FAULTY", "REPLACED"}
      /\ tr.chain.live \in BOOLEAN /\ tr.chain.calls \in Seq(Numbers) /\ tr.restore \in BOOLEAN
  BY QueueValues DEF Handled, Tracees
<1>9. q \in Seq(Numbers) /\ (o.chain = <<>> => q = tr.chain.calls) /\ (tr.chain.calls = <<>> => q = o.chain)
  <2>1. o.chain \in Seq(Numbers)
    BY <1>0 DEF ExitReady
  <2>2. tr.chain.calls \in Seq(Numbers)
    BY <1>8
  <2> DEFINE a == tr.chain.calls
             b == o.chain
  <2>3. a \in Seq(Numbers) /\ b \in Seq(Numbers) /\ q = a \o b
    BY <2>1, <2>2
  <2> HIDE DEF a, b
  <2>4. q \in Seq(Numbers) /\ (b = <<>> => q = a) /\ (a = <<>> => q = b)
    BY <2>3, ConcatFacts
  <2> QED  BY <2>4 DEF a, b
<1>10. \A nr : Call("chain", nr) # NoCall /\ Call("replaced", nr) # NoCall
  BY DEF Call, NoCall
<1>11. ~tr.chain.live /\ tr.chain.calls = <<>> => tr.chain = NoChain
  BY <1>8 DEF NoChain, Queues
<1>12. CASE Requested(tr) /\ o.again
  <2>1. o.chain = <<>> /\ tr.chain.calls = <<>>
    BY <1>12 DEF ExitReady
  <2>2. /\ u.chain = tr.chain /\ u.wa = "INACTIVE" /\ u.pending = (tr.pending \/ o.pend)
        /\ u.how = "SYSCALL" /\ u.restore /\ u.handled = tr.handled
        /\ u.seccomp = IF o.disable /\ tr.seccomp = "ENABLED" THEN "DISABLING" ELSE tr.seccomp
    BY <1>2, <1>12, <2>1 DEF Effects
  <2>3. n.t.chain = NoChain /\ n.t.how = "SYSCALL"
    BY <1>3, <1>5, <1>8, <1>11, <2>1, <2>2
  <2>4. x.t = n.t /\ x.queue = Call("restart", RestartedAs) /\ tr.wa # "FAULTY"
    BY <1>7, <1>12 DEF ExitReady, Requested
  <2> QED  BY <1>3, <1>5, <1>9, <1>12, <2>2, <2>3, <2>4 DEF ExitTranslated
<1>13. CASE tr.wa = "FAULTY"
  <2>1. ~Requested(tr) /\ tr.chain.live /\ tr.chain.calls = <<Subst>> /\ o.chain = <<>>
    BY <1>13 DEF ExitReady, Requested
  <2>2. Head(<<Subst>>) = Subst /\ Tail(<<Subst>>) = <<>> /\ <<Subst>> # <<>>
    OBVIOUS
  <2>3. /\ u.chain = tr.chain /\ u.wa = "REPLACED" /\ u.pending = tr.pending
        /\ u.restore = tr.restore /\ u.seccomp = tr.seccomp /\ u.handled = tr.handled
    BY <1>2, <1>13, <2>1 DEF Effects
  <2>4. /\ n.queue = Call("replaced", Subst) /\ n.t.chain = [live |-> TRUE, calls |-> <<>>]
        /\ n.t.how = "SYSCALL"
    <3> DEFINE c == v.chain.calls
    <3>1. v.chain.live /\ c = <<Subst>>
      BY <1>3, <2>1, <2>3
    <3>2. /\ n.queue = Call(IF Head(c) = Subst THEN "replaced" ELSE "chain", Head(c))
          /\ n.t.chain = [live |-> TRUE, calls |-> Tail(c)] /\ n.t.how = "SYSCALL"
      BY <1>5, <2>2, <3>1
    <3> QED  BY <2>2, <3>1, <3>2
  <2>5. x.queue = n.queue /\ x.t = n.t
    BY <1>7, <1>10, <2>1, <2>4
  <2> QED  BY <1>3, <1>5, <1>9, <1>13, <2>1, <2>3, <2>4, <2>5 DEF ExitTranslated
<1>14. CASE tr.wa # "FAULTY" /\ ~(Requested(tr) /\ o.again)
  <2>1. q \in Seq(Chained)
    BY <1>14, ConcatFacts DEF ExitReady
  <2>2. q # <<>> => Head(q) \in Chained /\ Tail(q) \in Seq(Chained)
    BY <2>1, HeadTailFacts
  <2>3. Subst \notin Chained
    BY StagesAssumption, NumbersAssumption
  <2>4. u.wa = "INACTIVE" /\ u.how = (IF Requested(tr) /\ o.pend THEN "SYSCALL" ELSE tr.how)
    BY <1>2, <1>8, <1>14 DEF Requested, Effects
  <2>5. CASE q = <<>>
    <3>1. o.chain = <<>> /\ tr.chain.calls = <<>>
      <4>1. tr.chain.calls \o o.chain = <<>>
        BY <2>5
      <4> QED  BY <1>0, <1>8, <4>1, ConcatFacts
    <3>2. n.queue = NoCall /\ n.t.chain = NoChain /\ n.t.how = u.how
      BY <1>2, <1>3, <1>5, <1>8, <1>11, <3>1 DEF Effects
    <3> QED  BY <1>2, <1>3, <1>5, <1>6, <1>7, <1>9, <1>14, <2>4, <2>5, <3>2 DEF Effects, ExitTranslated
  <2>6. CASE q # <<>>
    <3>1. u.chain.live /\ u.chain.calls = q
      <4>1. CASE o.chain = <<>>
        <5>1. tr.chain.calls = q /\ tr.chain.calls # <<>>
          BY <1>9, <2>6, <4>1
        <5>2. u.chain = tr.chain /\ tr.chain.live
          BY <1>2, <1>14, <4>1, <5>1 DEF ExitReady, Requested, Effects
        <5> QED  BY <5>1, <5>2
      <4>2. CASE o.chain # <<>>
        <5>1. u.chain = [live |-> TRUE, calls |-> q]
          BY <1>2, <1>14, <4>2 DEF Effects
        <5> QED  BY <5>1, QueueRecord
      <4> QED  BY <4>1, <4>2
    <3>2. n.queue = Call("chain", Head(q)) /\ n.t.chain = [live |-> TRUE, calls |-> Tail(q)] /\ n.t.how = "SYSCALL"
      BY <1>3, <1>5, <2>2, <2>3, <2>6, <3>1
    <3>3. u.restore = tr.restore
      BY <1>2, <1>8, <1>14 DEF Effects
    <3>4. x.t = n.t /\ x.queue = n.queue
      BY <1>7, <1>10, <1>14, <3>2
    <3>5. /\ x.t.status = 0 /\ x.t.handled = tr.handled /\ x.t.pending = u.pending /\ x.t.seccomp = u.seccomp
          /\ x.t.wa = "INACTIVE" /\ x.t.restore = tr.restore
      BY <1>2, <1>3, <1>5, <2>4, <3>3, <3>4 DEF Effects
    <3>6. /\ Requested(tr) =>
               /\ x.t.pending = (tr.pending \/ o.pend)
               /\ x.t.seccomp = IF o.disable /\ tr.seccomp = "ENABLED" THEN "DISABLING" ELSE tr.seccomp
          /\ ~Requested(tr) => x.t.pending = tr.pending /\ x.t.seccomp = tr.seccomp
      BY <1>2, <1>14, <3>5 DEF Effects
    <3>7. /\ x.queue = Call("chain", Head(q)) /\ x.t.chain = [live |-> TRUE, calls |-> Tail(q)]
          /\ x.t.how = "SYSCALL"
      BY <3>2, <3>4
    <3> QED  BY <1>9, <1>14, <2>2, <2>6, <3>5, <3>6, <3>7 DEF ExitTranslated
  <2> QED  BY <2>5, <2>6
<1> QED  BY <1>12, <1>13, <1>14

-----------------------------------------------------------------------------
(* The stops that PRoot handles                                            *)

\* What is known of the fields when a stop is handled, and what is left of them.
LEMMA PreparedFields ==
  ASSUME IInv
  PROVE  /\ Prepared.status = t.status /\ Prepared.seccomp = t.seccomp /\ Prepared.pending = t.pending
         /\ Prepared.restore = t.restore /\ Prepared.handled = t.handled /\ Prepared.chain = t.chain
         /\ Prepared.wa = t.wa /\ Prepared.last = t.last /\ Prepared.skip = t.skip
         /\ Prepared.how = IF t.seccomp = "ENABLED" /\ ~t.pending /\ ~t.chain.live /\ ~t.restore
                           THEN "CONT" ELSE "SYSCALL"
  BY DEF IInv, TypeOK, Tracees, Prepared, DefaultHow, SysexitNecessary

\* u is tr but for its restart_how, its suppressed signal and its skip mark.
Alike(u, tr) ==
  /\ u.status = tr.status /\ u.seccomp = tr.seccomp /\ u.pending = tr.pending
  /\ u.restore = tr.restore /\ u.handled = tr.handled /\ u.chain = tr.chain /\ u.wa = tr.wa

Resumes(r, pos) ==
  /\ k'.pos = pos /\ k'.mode = r.t.how /\ k'.gates = k.gates /\ k'.sigsys = k.sigsys
  /\ k'.call.src = k.call.src /\ k'.call.nr = r.nr /\ k'.queue = r.queue
  /\ Alike(t', r.t) /\ t'.last = r.t.how

LEMMA RestartFields ==
  ASSUME IInv, NEW r, GoodOutcome(r), NEW pos \in {"user", "gate", "leaving"}, Restart(r, pos)
  PROVE  Resumes(r, pos)
<1>1. t' = [r.t EXCEPT !.last = r.t.how, !.how = "none"] /\ r.t \in Handled
  BY DEF Restart, GoodOutcome
<1>2. Alike(t', r.t) /\ t'.last = r.t.how
  BY <1>1 DEF Handled, Tracees, Alike
<1>3. k' = [k EXCEPT !.pos = pos, !.mode = r.t.how, !.call.nr = r.nr, !.queue = r.queue]
  BY DEF Restart
<1>4. k \in Kernels /\ k.call \in Calls
  BY DEF IInv, TypeOK, Kernels
<1> DEFINE c == [k.call EXCEPT !.nr = r.nr]
<1>5. c.src = k.call.src /\ c.nr = r.nr
  BY <1>4 DEF Calls
<1>6. k' = [k EXCEPT !.pos = pos, !.mode = r.t.how, !.call = c, !.queue = r.queue]
  BY <1>3, <1>4 DEF Kernels
<1> HIDE DEF c
<1>7. /\ k'.pos = pos /\ k'.mode = r.t.how /\ k'.gates = k.gates /\ k'.sigsys = k.sigsys
      /\ k'.call = c /\ k'.queue = r.queue
  BY <1>4, <1>6 DEF Kernels
<1> QED  BY <1>2, <1>5, <1>7 DEF Resumes

LEMMA EventOrder ==
  ASSUME OrderInv, ExecEvent \/ ForkEvent
  PROVE  Shape' /\ Fifo'
<1>1. IInv /\ Prepared \in Handled
  BY AtStop DEF OrderInv
<1>2. ASSUME NEW r, GoodOutcome(r), Restart(r, "leaving"), Alike(r.t, Prepared), r.t.how = k.mode,
             r.nr = k.call.nr, r.queue = k.queue, k.pos \in {"exec", "fork"},
             host' = host, global' = global, h' = h
      PROVE  Shape' /\ Fifo'
  <2>1. Resumes(r, "leaving")
    BY <1>1, <1>2, RestartFields
  <2>2. /\ k'.pos = "leaving" /\ k'.mode = k.mode /\ k'.gates = k.gates /\ k'.sigsys = k.sigsys
        /\ k'.call.src = k.call.src /\ k'.call.nr = k.call.nr /\ k'.queue = k.queue
        /\ t'.status = t.status /\ t'.seccomp = t.seccomp /\ t'.pending = t.pending
        /\ t'.restore = t.restore /\ t'.handled = t.handled /\ t'.chain = t.chain /\ t'.wa = t.wa
        /\ t'.last = k.mode
    BY <1>1, <1>2, <2>1, PreparedFields DEF Resumes, Alike
  <2>3. KernelPlaces' /\ OrderKnown'
    BY <1>2, <2>2 DEF OrderInv, KernelPlaces, OrderKnown
  <2>4. Followed' /\ Staged' /\ Refused'
    BY <1>2, <2>2 DEF OrderInv, Followed, Staged, Refused, AtUser, EntryAhead, IsInSysenter, OfProgram
  <2>5. QueueKinds' /\ CallKinds' /\ Counted'
    BY <1>2, <2>2 DEF OrderInv, QueueKinds, CallKinds, Counted, AtUser, EntryAhead, FilterAhead, IsInSysenter, OfProgram
  <2>6. Fifo'
    BY <1>2, <2>2 DEF OrderInv, Fifo
  <2> QED  BY <2>3, <2>4, <2>5, <2>6 DEF Shape
<1>3. k.call \in Calls /\ k.queue \in Calls /\ Announced(Prepared, k.queue)
  BY <1>1, AtStop
<1>4. CASE ExecEvent
  <2> DEFINE r == HandleExecEvent(Prepared)
  <2>1. GoodOutcome(r) /\ Restart(r, "leaving")
    BY <1>1, <1>3, <1>4, EventOutcomes DEF ExecEvent
  <2>2. Prepared.last = k.mode /\ k.mode \in {"CONT", "SYSCALL"}
    BY <1>1, PreparedFields DEF OrderInv, Followed, IInv, TypeOK, Kernels
  <2>3. r = Outcome([Prepared EXCEPT !.how = k.mode], k.call.nr, k.queue, NoSignal)
    BY <2>2 DEF HandleExecEvent
  <2>4. r.t = [Prepared EXCEPT !.how = k.mode] /\ r.nr = k.call.nr /\ r.queue = k.queue
    BY <2>3 DEF Outcome
  <2> HIDE DEF r
  <2>5. Alike(r.t, Prepared) /\ r.t.how = k.mode
    BY <1>1, <2>4 DEF Handled, Tracees, Alike
  <2> QED  BY <1>2, <1>4, <2>1, <2>4, <2>5 DEF ExecEvent
<1>5. CASE ForkEvent
  <2> DEFINE r == HandleForkEvent(Prepared)
  <2>1. GoodOutcome(r) /\ Restart(r, "leaving")
    BY <1>1, <1>3, <1>5, EventOutcomes DEF ForkEvent
  <2>2. r.t = Prepared /\ r.nr = k.call.nr /\ r.queue = k.queue
    BY DEF HandleForkEvent, Outcome
  <2> HIDE DEF r
  <2>3. Alike(r.t, Prepared)
    BY <2>2 DEF Alike
  <2>4. r.t.how = k.mode
    <3>1. k.pos = "fork" /\ k.call.nr \in Forks /\ k.mode \in {"CONT", "SYSCALL"}
      BY <1>5 DEF ForkEvent, OrderInv, KernelPlaces, IInv, TypeOK, Kernels
    <3>2. Prepared.how = IF t.seccomp = "ENABLED" /\ ~t.pending /\ ~t.chain.live /\ ~t.restore
                         THEN "CONT" ELSE "SYSCALL"
      BY <1>1, PreparedFields
    <3> QED  BY <2>2, <3>1, <3>2 DEF OrderInv, Followed, Staged, AtUser, EntryAhead
  <2> QED  BY <1>2, <1>5, <2>1, <2>2, <2>3, <2>4 DEF ForkEvent
<1> QED  BY <1>4, <1>5

\* A tracee that is resumed after a signal is where it was.
LEMMA SignalResumes ==
  ASSUME OrderInv, k.pos \in {"signal", "bare"}, NEW r, GoodOutcome(r), Restart(r, "user"),
         Alike(r.t, Prepared), r.t.how = Prepared.how, r.nr = k.call.nr, r.queue = k.queue,
         host' = host, global' = global, h'.nr = h.nr, h'.entered = h.entered, h'.exited = h.exited,
         h'.registered = h.registered, h'.ran = h.ran
  PROVE  Shape' /\ Fifo'
<1>1. IInv
  BY DEF OrderInv
<1>2. Resumes(r, "user")
  BY <1>1, RestartFields
<1>3. /\ k'.pos = "user" /\ k'.gates = k.gates /\ k'.sigsys = k.sigsys
      /\ k'.mode = IF t.seccomp = "ENABLED" /\ ~t.pending /\ ~t.chain.live /\ ~t.restore
                   THEN "CONT" ELSE "SYSCALL"
      /\ k'.call.src = k.call.src /\ k'.call.nr = k.call.nr /\ k'.queue = k.queue
      /\ t'.status = t.status /\ t'.seccomp = t.seccomp /\ t'.pending = t.pending
      /\ t'.restore = t.restore /\ t'.handled = t.handled /\ t'.chain = t.chain /\ t'.wa = t.wa
      /\ t'.last = k'.mode
  BY <1>1, <1>2, PreparedFields DEF Resumes, Alike
<1>4. IsInSysenter(t) /\ ~k.sigsys
  BY DEF OrderInv, Staged, Refused, AtUser
<1>5. KernelPlaces' /\ OrderKnown'
  BY <1>3 DEF OrderInv, KernelPlaces, OrderKnown
<1>6. Followed' /\ Staged' /\ Refused'
  BY <1>3, <1>4 DEF OrderInv, Followed, Staged, Refused, QueueKinds, AtUser, EntryAhead, IsInSysenter, OfProgram
<1>7. QueueKinds' /\ CallKinds' /\ Counted'
  BY <1>3, <1>4 DEF OrderInv, QueueKinds, CallKinds, Counted, AtUser, EntryAhead, FilterAhead, IsInSysenter, OfProgram
<1>8. Fifo'
  BY <1>3 DEF OrderInv, Fifo
<1> QED  BY <1>5, <1>6, <1>7, <1>8 DEF Shape

LEMMA SignalOrder ==
  ASSUME OrderInv, SignalEvent
  PROVE  Shape' /\ Fifo'
<1>1. IInv /\ Prepared \in Handled /\ k.pos = "signal" /\ h \in Histories
  BY AtStop DEF OrderInv, SignalEvent, IInv, TypeOK
<1> DEFINE r == HandleSignal(Prepared, k.sent)
<1>2. GoodOutcome(r) /\ Restart(r, "user")
  <2>1. k.sent \in {NoSignal} \cup Signals
    BY <1>1, StagesAssumption DEF IInv, TypeOK, Kernels, NoSignal, Signals
  <2> QED  BY <1>1, <2>1, AtStop, SignalOutcome DEF SignalEvent
<1>3. /\ host' = host /\ global' = global
      /\ h'.nr = h.nr /\ h'.entered = h.entered /\ h'.exited = h.exited
      /\ h'.registered = h.registered /\ h'.ran = h.ran
  BY <1>1 DEF SignalEvent, Histories
<1>4. Alike(r.t, Prepared) /\ r.t.how = Prepared.how /\ r.nr = k.call.nr /\ r.queue = k.queue
  <2> DEFINE u == [Prepared EXCEPT !.suppressed = k.sent]
  <2>1. Alike(u, Prepared) /\ u.how = Prepared.how
    BY <1>1 DEF Handled, Tracees, Alike
  <2>2. r = IF Prepared.chain.live \/ Prepared.restore
            THEN Outcome(u, k.call.nr, k.queue, NoSignal)
            ELSE Outcome(Prepared, k.call.nr, k.queue, k.sent)
    BY DEF HandleSignal
  <2> HIDE DEF u, r
  <2> QED  BY <2>1, <2>2 DEF Outcome, Alike
<1> HIDE DEF r
<1> QED  BY <1>1, <1>2, <1>3, <1>4, SignalResumes

LEMMA BareSignalOrder ==
  ASSUME OrderInv, BareSignalEvent
  PROVE  Shape' /\ Fifo'
<1>1. IInv /\ k.pos = "bare" /\ h \in Histories
  BY DEF OrderInv, BareSignalEvent, IInv, TypeOK
<1> DEFINE r == HandleForkEvent(Prepared)
<1>2. GoodOutcome(r) /\ Restart(r, "user")
  BY <1>1, BareRestart
<1>3. /\ host' = host /\ global' = global
      /\ h'.nr = h.nr /\ h'.entered = h.entered /\ h'.exited = h.exited
      /\ h'.registered = h.registered /\ h'.ran = h.ran
  BY <1>1 DEF BareSignalEvent, Histories
<1>4. r.t = Prepared /\ r.nr = k.call.nr /\ r.queue = k.queue
  BY DEF HandleForkEvent, Outcome
<1> HIDE DEF r
<1>5. Alike(r.t, Prepared) /\ r.t.how = Prepared.how
  BY <1>4 DEF Alike
<1> QED  BY <1>1, <1>2, <1>3, <1>4, <1>5, SignalResumes

LEMMA StageDefaultsFields ==
  ASSUME NEW tr \in Handled, NEW u, u = StageDefaults(tr)
  PROVE  /\ u.status = tr.status /\ u.seccomp = tr.seccomp /\ u.restore = tr.restore
         /\ u.handled = tr.handled /\ u.chain = tr.chain /\ u.wa = tr.wa
         /\ tr.seccomp # "ENABLED" => u.pending = tr.pending /\ u.how = tr.how
         /\ tr.seccomp = "ENABLED" =>
              IF IsInSysenter(tr) THEN u.pending /\ u.how = "SYSCALL" ELSE ~u.pending /\ u.how = "CONT"
<1> DEFINE a == [tr EXCEPT !.how = "SYSCALL", !.pending = TRUE]
           b == [tr EXCEPT !.how = "CONT", !.pending = FALSE]
<1>1. /\ a.status = tr.status /\ a.seccomp = tr.seccomp /\ a.restore = tr.restore
      /\ a.handled = tr.handled /\ a.chain = tr.chain /\ a.wa = tr.wa
      /\ a.pending /\ a.how = "SYSCALL"
  BY DEF Handled, Tracees
<1>2. /\ b.status = tr.status /\ b.seccomp = tr.seccomp /\ b.restore = tr.restore
      /\ b.handled = tr.handled /\ b.chain = tr.chain /\ b.wa = tr.wa
      /\ ~b.pending /\ b.how = "CONT"
  BY DEF Handled, Tracees
<1>3. u = IF tr.seccomp # "ENABLED" THEN tr ELSE IF IsInSysenter(tr) THEN a ELSE b
  BY Zenon DEF StageDefaults
<1> HIDE DEF a, b
<1> QED  BY <1>1, <1>2, <1>3

\* The end of a SIGTRAP | 0x80 stop.
LEMMA TrapEndFields ==
  ASSUME NEW tr \in Handled, NEW u,
         u = AfterDisabling(IF Redelivered(tr) = NoSignal THEN tr
                            ELSE [tr EXCEPT !.suppressed = NoSignal])
  PROVE  /\ u.status = tr.status /\ u.pending = tr.pending /\ u.restore = tr.restore
         /\ u.handled = tr.handled /\ u.chain = tr.chain /\ u.wa = tr.wa
         /\ tr.seccomp # "DISABLING" => u.seccomp = tr.seccomp /\ u.how = tr.how
         /\ tr.seccomp = "DISABLING" => u.seccomp = "DISABLED" /\ u.how = "SYSCALL"
<1> DEFINE v == IF Redelivered(tr) = NoSignal THEN tr ELSE [tr EXCEPT !.suppressed = NoSignal]
           w == [v EXCEPT !.how = "SYSCALL", !.seccomp = "DISABLED"]
<1>1. /\ v \in Handled /\ v.status = tr.status /\ v.pending = tr.pending /\ v.restore = tr.restore
      /\ v.handled = tr.handled /\ v.chain = tr.chain /\ v.wa = tr.wa /\ v.seccomp = tr.seccomp /\ v.how = tr.how
  BY DEF Handled, Tracees
<1> HIDE DEF v
<1>2. /\ w.status = v.status /\ w.pending = v.pending /\ w.restore = v.restore
      /\ w.handled = v.handled /\ w.chain = v.chain /\ w.wa = v.wa
      /\ w.seccomp = "DISABLED" /\ w.how = "SYSCALL"
  BY <1>1 DEF Handled, Tracees
<1>3. u = IF v.seccomp = "DISABLING" THEN w ELSE v
  BY DEF AfterDisabling, v
<1> HIDE DEF w
<1> QED  BY <1>1, <1>2, <1>3

LEMMA SysenterOrder ==
  ASSUME OrderlyHandlers, OrderInv, SysenterStage
  PROVE  Shape' /\ Fifo'
<1>1. /\ IInv /\ Prepared \in Handled /\ k.call.nr \in Numbers /\ h \in Histories
      /\ k.call \in Calls /\ k.queue \in Calls /\ Announced(Prepared, k.queue) /\ host \in Hosts
      /\ host.new \in BOOLEAN /\ k.mode \in {"CONT", "SYSCALL"} /\ k.pos \in {"sysenter", "sysexit"}
      /\ t.seccomp \in {"DISABLED", "DISABLING", "ENABLED"} /\ IsInSysenter(t)
  BY AtStop, StagesAssumption DEF OrderInv, SysenterStage, IInv, TypeOK, Kernels, HostTraits, Tracees
<1>2. k.pos = "sysenter" /\ ~t.handled /\ k.mode = "SYSCALL" /\ k.queue = NoCall /\ t.seccomp # "DISABLING"
  BY <1>1 DEF OrderInv, KernelPlaces, Staged, QueueKinds, Followed, AtUser, EntryAhead
<1>3. PICK o \in EnterOutcomes(k.call.nr) :
        LET r == HandleSysTrap(Prepared, k.call.nr, o, o) IN
        /\ Restart(r, Resumed)
        /\ h' = [h EXCEPT !.entered = IF t.handled \/ t.chain.live THEN @ ELSE 1 + @,
                          !.delivered = Delivered(r.signal)]
  BY DEF SysenterStage
<1> DEFINE r == HandleSysTrap(Prepared, k.call.nr, o, o)
           t1 == StageDefaults(Prepared)
           e  == TranslateEnter(t1, k.call.nr, o)
           t2 == [e.t EXCEPT !.skip = global.afterEnter /\ e.void]
           n  == IF t.handled \/ t.chain.live THEN h.entered ELSE 1 + h.entered
<1>4. GoodOutcome(r) /\ Restart(r, "gate")
  BY <1>1, <1>2, <1>3, AtStop, SysTrapEnter DEF Resumed
<1>5. /\ host' = host /\ global' = global
      /\ h'.nr = h.nr /\ h'.entered = n /\ h'.exited = h.exited
      /\ h'.registered = h.registered /\ h'.ran = h.ran
  <2>1. h' = [h EXCEPT !.entered = n, !.delivered = Delivered(r.signal)]
    BY <1>3
  <2> HIDE DEF n, r
  <2> QED  BY <1>1, <2>1 DEF Histories, SysenterStage
<1>6. Prepared.seccomp # "DISABLING" /\ ~Prepared.handled /\ IsInSysenter(Prepared)
  BY <1>1, <1>2, AtStop, PreparedFields
<1>7. r = Outcome(AfterDisabling(IF Redelivered(t2) = NoSignal THEN t2
                                 ELSE [t2 EXCEPT !.suppressed = NoSignal]),
                  e.nr, NoCall, Redelivered(t2))
  BY <1>6 DEF HandleSysTrap
<1>8. t1 \in Handled /\ e.t \in Handled /\ e.nr \in Numbers
  BY <1>1, StageDefaultsType, TranslateEnterType
<1>9. /\ t1.status = t.status /\ t1.seccomp = t.seccomp /\ t1.restore = t.restore
      /\ t1.handled = t.handled /\ t1.chain = t.chain /\ t1.wa = t.wa /\ t1.how = "SYSCALL"
      /\ t.seccomp = "ENABLED" => t1.pending
  <2>1. Prepared.how = "SYSCALL" \/ t.seccomp = "ENABLED"
    BY <1>1, PreparedFields
  <2> HIDE DEF t1
  <2>2. t1 = StageDefaults(Prepared)
    BY DEF t1
  <2> QED  BY <1>1, <1>6, <2>1, <2>2, StageDefaultsFields, PreparedFields
<1>10. /\ EntryTranslated(t1, k.call.nr, e.t, e.nr)
       /\ e.t.how = "SYSCALL" /\ ~IsInSysenter(e.t)
       /\ t1.pending => e.t.pending
  <2> HIDE DEF t1, e
  <2>1. e = TranslateEnter(t1, k.call.nr, o)
    BY DEF e
  <2> QED  BY <1>1, <1>8, <1>9, <2>1, EnterFields
<1> HIDE DEF t1, e
<1>11. t2 \in Handled /\ Alike(t2, e.t) /\ t2.how = e.t.how
  BY <1>8 DEF Handled, Tracees, Alike
<1> HIDE DEF t2, r, n
<1>12. Alike(r.t, e.t) /\ r.t.how = "SYSCALL" /\ r.nr = e.nr /\ r.queue = NoCall
  <2> DEFINE u == AfterDisabling(IF Redelivered(t2) = NoSignal THEN t2
                                 ELSE [t2 EXCEPT !.suppressed = NoSignal])
  <2>1. r.t = u /\ r.nr = e.nr /\ r.queue = NoCall
    BY <1>7 DEF Outcome
  <2>2. t2.seccomp = t.seccomp
    BY <1>9, <1>10, <1>11 DEF Alike, EntryTranslated
  <2> HIDE DEF u
  <2>3. u = AfterDisabling(IF Redelivered(t2) = NoSignal THEN t2
                           ELSE [t2 EXCEPT !.suppressed = NoSignal])
    BY DEF u
  <2>4. Alike(u, t2) /\ u.how = t2.how
    BY <1>2, <1>11, <2>2, <2>3, TrapEndFields DEF Alike
  <2> QED  BY <1>10, <1>11, <2>1, <2>4 DEF Alike
<1>13. Resumes(r, "gate")
  BY <1>1, <1>4, RestartFields
<1>14. /\ k'.pos = "gate" /\ k'.gates = k.gates /\ k'.sigsys = k.sigsys /\ k'.mode = "SYSCALL"
       /\ k'.call.src = k.call.src /\ k'.call.nr = e.nr /\ k'.queue = NoCall
       /\ t'.status = e.t.status /\ t'.seccomp = e.t.seccomp /\ t'.pending = e.t.pending
       /\ t'.restore = e.t.restore /\ t'.handled = e.t.handled /\ t'.chain = e.t.chain /\ t'.wa = e.t.wa
       /\ t'.last = "SYSCALL"
  BY <1>12, <1>13 DEF Resumes, Alike
<1>15. /\ ~IsInSysenter(t') /\ t'.seccomp = t.seccomp /\ t'.restore = t.restore /\ ~t'.handled
       /\ t.seccomp = "ENABLED" => t'.pending
       /\ \/ /\ t.chain.live /\ e.nr = k.call.nr
             /\ t'.chain = t.chain /\ t'.wa = t.wa
          \/ /\ ~t.chain.live /\ e.nr \in {k.call.nr, Void, Subst, Faulty}
             /\ t'.chain = t.chain /\ t'.wa = t.wa
          \/ /\ ~t.chain.live /\ e.nr = Faulty
             /\ t'.chain = [live |-> TRUE, calls |-> <<Subst>>] /\ t'.wa = "FAULTY"
  BY <1>2, <1>9, <1>10, <1>14 DEF EntryTranslated, IsInSysenter
<1>16. k.gates = (IF host.new THEN <<"seccomp">> ELSE <<>>) /\ ~k.sigsys
  BY <1>2 DEF OrderInv, KernelPlaces, Refused
<1>17. KernelPlaces' /\ OrderKnown' /\ Followed'
  BY <1>2, <1>5, <1>14, <1>15, <1>16 DEF OrderInv, KernelPlaces, OrderKnown, Followed, AtUser
<1>18. Staged' /\ Refused'
  BY <1>1, <1>14, <1>15, <1>16, GateWalk DEF Staged, Refused, AtUser, EntryAhead
<1>19. /\ t.chain.live \in BOOLEAN
       /\ ~t.chain.live => t.chain.calls = <<>> /\ t.wa = "INACTIVE"
  BY <1>1 DEF OrderInv, QueueKinds, IInv, TypeOK, Tracees, Queues
<1>20. QueueKinds'
  BY <1>2, <1>14, <1>15, <1>19, QueueRecord DEF OrderInv, QueueKinds, AtUser
<1>21. n = IF t.chain.live THEN h.entered ELSE 1 + h.entered
  BY <1>2 DEF n
<1>22. h.entered \in Nat
  BY <1>1 DEF Histories
<1>23. CallKinds'
  BY <1>1, <1>2, <1>5, <1>14, <1>15, <1>19, <1>21, <1>22, QueueRecord DEF OrderInv, CallKinds, AtUser, OfProgram
<1>24. Counted'
  BY <1>1, <1>2, <1>5, <1>14, <1>15, <1>16, <1>19, <1>21, <1>22, GateWalk
     DEF OrderInv, Counted, CallKinds, AtUser, OfProgram, EntryAhead, FilterAhead
<1>25. Fifo'
  <2>1. k.call.src = "chain" => e.nr = k.call.nr
    BY <1>2, <1>15 DEF OrderInv, CallKinds, AtUser
  <2>2. (IF t'.wa = "FAULTY" THEN <<>> ELSE t'.chain.calls) = (IF t.wa = "FAULTY" THEN <<>> ELSE t.chain.calls)
    BY <1>15, <1>19
  <2> QED  BY <1>2, <1>5, <1>14, <2>1, <2>2 DEF OrderInv, Fifo
<1> QED  BY <1>17, <1>18, <1>20, <1>23, <1>24, <1>25 DEF Shape

LEMMA ExitChain ==
  ASSUME NEW nr, NEW room \in Int, NEW o \in ExitOutcomes(nr, room)
  PROVE  /\ o.chain \in Seq(Chained)
         /\ o.pend \in BOOLEAN /\ o.disable \in BOOLEAN /\ o.again \in BOOLEAN
         /\ o.chain # <<>> => nr \in Chains
         /\ o.disable => nr \in Disabling
         /\ o.again => nr \in Again
<1>1. o \in [chain : UNION {[1 .. n -> Chained] : n \in 0 .. room},
            pend  : BOOLEAN, disable : BOOLEAN, again : BOOLEAN]
  BY DEF ExitOutcomes
<1>2. PICK n \in 0 .. room : o.chain \in [1 .. n -> Chained]
  BY <1>1
<1>3. o.chain \in Seq(Chained)
  BY <1>2
<1> QED  BY <1>1, <1>3 DEF ExitOutcomes

\* The entry stop of a syscall translated at its seccomp event is taken for its exit.
LEMMA SysexitHandled ==
  ASSUME OrderInv, SysexitStage, k.pos = "sysenter"
  PROVE  Shape' /\ Fifo'
<1>1. /\ IInv /\ Prepared \in Handled /\ k.call.nr \in Numbers /\ h \in Histories
      /\ k.call \in Calls /\ k.queue \in Calls /\ Announced(Prepared, k.queue)
      /\ host.new \in BOOLEAN /\ MaxChain - Len(h.registered) \in Int
  BY AtStop, StagesAssumption DEF OrderInv, IInv, TypeOK, Kernels, HostTraits, Histories
<1>2. /\ ~IsInSysenter(t) /\ t.handled /\ k.mode = "SYSCALL" /\ k.queue = NoCall /\ ~host.new
      /\ t.seccomp = "ENABLED" /\ k.call.nr \notin Forks /\ k.gates = <<>> /\ ~k.sigsys
  BY <1>1 DEF OrderInv, KernelPlaces, Staged, QueueKinds, Refused, AtUser, EntryAhead, SysexitStage
<1>3. PICK o \in ExitOutcomes(h.nr, MaxChain - Len(h.registered)) :
        LET r == HandleSysTrap(Prepared, k.call.nr, o, o)
            translated == ~t.handled /\ t.wa # "FAULTY" IN
        /\ ~translated => o.chain = <<>>
        /\ Restart(r, Resumed)
        /\ h' = [h EXCEPT !.exited = IF translated /\ Requested(t) THEN 1 + @ ELSE @,
                          !.registered = @ \o o.chain,
                          !.delivered = Delivered(r.signal)]
  BY DEF SysexitStage
<1> DEFINE r  == HandleSysTrap(Prepared, k.call.nr, o, o)
           t1 == StageDefaults(Prepared)
           u  == [t1 EXCEPT !.handled = FALSE, !.how = "SYSCALL"]
<1>4. o.chain \in Seq(Numbers) /\ o.pend \in BOOLEAN /\ o.disable \in BOOLEAN /\ o.again \in BOOLEAN
  BY <1>1, ExitOutcomesType
<1>5. GoodOutcome(r) /\ Restart(r, "gate")
  BY <1>1, <1>2, <1>3, <1>4, AtStop, SysTrapExit DEF Resumed
<1>6. /\ host' = host /\ global' = global
      /\ h'.nr = h.nr /\ h'.entered = h.entered /\ h'.exited = h.exited
      /\ h'.registered = h.registered /\ h'.ran = h.ran
  <2>1. h' = [h EXCEPT !.registered = @ \o o.chain, !.delivered = Delivered(r.signal)] /\ o.chain = <<>>
    BY <1>1, <1>2, <1>3 DEF Histories
  <2>2. h.registered \in Seq(Numbers) /\ h.registered \o <<>> = h.registered
    BY <1>1, ConcatFacts DEF Histories
  <2> HIDE DEF r
  <2> QED  BY <1>1, <2>1, <2>2 DEF Histories, SysexitStage
<1>7. Prepared.seccomp = "ENABLED" /\ Prepared.handled /\ ~IsInSysenter(Prepared)
  BY <1>1, <1>2, AtStop, PreparedFields
<1>8. r = Outcome(AfterDisabling(u), k.call.nr, k.queue, NoSignal)
  BY <1>7 DEF HandleSysTrap
<1>9. /\ t1.status = t.status /\ t1.seccomp = t.seccomp /\ t1.restore = t.restore
      /\ t1.chain = t.chain /\ t1.wa = t.wa /\ t1 \in Handled
  <2>1. t1 \in Handled
    BY <1>1, StageDefaultsType
  <2> HIDE DEF t1
  <2>2. t1 = StageDefaults(Prepared)
    BY DEF t1
  <2> QED  BY <1>1, <2>1, <2>2, StageDefaultsFields, PreparedFields
<1> HIDE DEF t1
<1>10. /\ u.status = t.status /\ u.seccomp = t.seccomp /\ u.restore = t.restore
       /\ u.chain = t.chain /\ u.wa = t.wa /\ ~u.handled /\ u.how = "SYSCALL"
  BY <1>9 DEF Handled, Tracees
<1> HIDE DEF u, r
<1>11. r.t = u /\ r.nr = k.call.nr /\ r.queue = NoCall
  BY <1>2, <1>8, <1>10 DEF AfterDisabling, Outcome
<1>12. Resumes(r, "gate")
  BY <1>1, <1>5, RestartFields
<1>13. /\ k'.pos = "gate" /\ k'.gates = k.gates /\ k'.sigsys = k.sigsys /\ k'.mode = "SYSCALL"
       /\ k'.call.src = k.call.src /\ k'.call.nr = k.call.nr /\ k'.queue = NoCall
       /\ t'.status = t.status /\ t'.seccomp = t.seccomp
       /\ t'.restore = t.restore /\ ~t'.handled /\ t'.chain = t.chain /\ t'.wa = t.wa
       /\ t'.last = "SYSCALL"
  BY <1>10, <1>11, <1>12 DEF Resumes, Alike
<1>14. KernelPlaces' /\ OrderKnown' /\ Followed'
  BY <1>2, <1>6, <1>13 DEF OrderInv, KernelPlaces, OrderKnown, Followed, AtUser
<1>15. Staged' /\ Refused'
  BY <1>2, <1>6, <1>13, GateWalk DEF Staged, Refused, AtUser, EntryAhead, IsInSysenter
<1>16. QueueKinds' /\ CallKinds' /\ Fifo'
  BY <1>2, <1>6, <1>13 DEF OrderInv, QueueKinds, CallKinds, Fifo, AtUser, OfProgram, IsInSysenter
<1>17. Counted'
  BY <1>2, <1>6, <1>13, GateWalk DEF OrderInv, Counted, AtUser, OfProgram, EntryAhead, FilterAhead, IsInSysenter
<1> QED  BY <1>14, <1>15, <1>16, <1>17 DEF Shape

\* What the exit of the current syscall leaves behind: u are the fields, queue the next
\* syscall, of those in q.
Left(o, u, queue, q) ==
  /\ IsInSysenter(u) /\ ~u.handled
  /\ Requested(t) /\ o.again =>
       queue = Call("restart", RestartedAs) /\ u.restore /\ u.chain = NoChain /\ u.wa = "INACTIVE"
  /\ t.wa = "FAULTY" =>
       /\ u.wa = "REPLACED" /\ u.chain = [live |-> TRUE, calls |-> <<>>]
       /\ queue = Call("replaced", Subst) /\ u.restore = t.restore
  /\ t.wa # "FAULTY" /\ ~(Requested(t) /\ o.again) =>
       /\ u.wa = "INACTIVE"
       /\ q = <<>> => queue = NoCall /\ u.chain = NoChain /\ ~u.restore
       /\ q # <<>> => /\ queue = Call("chain", Head(q)) /\ Head(q) \in Chained
                      /\ Tail(q) \in Seq(Chained)
                      /\ u.chain = [live |-> TRUE, calls |-> Tail(q)] /\ u.restore = t.restore

\* What is known of the exit that is handled.
Leaving(o) ==
  /\ o.chain \in Seq(Chained) /\ o.pend \in BOOLEAN /\ o.disable \in BOOLEAN /\ o.again \in BOOLEAN
  /\ o.chain # <<>> => h.nr \in Chains
  /\ o.disable => h.nr \in Disabling
  /\ o.again => h.nr \in Again
  /\ t.wa = "FAULTY" => o.chain = <<>>

LEMMA LeavingReady ==
  ASSUME OrderlyHandlers, OrderInv, NEW o, Leaving(o), NEW tr, tr.chain = t.chain, tr.wa = t.wa
  PROVE  ExitReady(tr, o) /\ (Requested(tr) <=> Requested(t))
<1>1. /\ t.chain.calls \in Seq(Chained) \/ (t.wa = "FAULTY" /\ t.chain.calls = <<Subst>>)
      /\ t.wa \in {"INACTIVE", "FAULTY", "REPLACED"}
      /\ ~t.chain.live => t.chain.calls = <<>> /\ t.wa = "INACTIVE"
      /\ t.wa = "REPLACED" => t.chain.calls = <<>>
      /\ t.wa = "FAULTY" => t.chain.calls = <<Subst>>
  BY DEF OrderInv, QueueKinds, IInv, TypeOK, Tracees
<1>2. o.again => o.chain = <<>>
  BY DEF Leaving, OrderlyHandlers
<1> QED  BY <1>1, <1>2 DEF ExitReady, Leaving, Requested

\* What is known of the chain and of the counts at the exit of a syscall.
Leavable ==
  /\ h.registered = h.ran \o (IF t.wa = "FAULTY" THEN <<>> ELSE t.chain.calls)
  /\ Requested(t) \/ t.wa = "FAULTY" => h.exited = 0
  /\ ~Requested(t) /\ t.wa # "FAULTY" => (h.nr \in ExitFlag /\ h.entered = 1 => h.exited = 1)

LEMMA SysexitLeavable ==
  ASSUME OrderInv, k.pos = "sysexit", ~IsInSysenter(t)
  PROVE  Leavable
<1>1. k.queue.src # "chain"
  BY DEF OrderInv, QueueKinds, AtUser, NoCall
<1>2. h.ran \in Seq(Numbers)
  BY DEF OrderInv, IInv, TypeOK, Histories
<1>3. h.ran \o <<>> \o <<>> = h.ran
  BY <1>2
<1> DEFINE rest == IF t.wa = "FAULTY" THEN <<>> ELSE t.chain.calls
<1>4. h.registered = h.ran \o <<>> \o <<>> \o rest
  BY <1>1 DEF OrderInv, Fifo
<1>5. h.registered = h.ran \o rest
  <2> HIDE DEF rest
  <2> QED  BY <1>3, <1>4
<1>6. Requested(t) \/ t.wa = "FAULTY" => h.exited = 0
  BY DEF OrderInv, CallKinds, QueueKinds, Counted, AtUser, OfProgram, Requested
<1>7. ~Requested(t) /\ t.wa # "FAULTY" => (h.nr \in ExitFlag /\ h.entered = 1 => h.exited = 1)
  BY DEF OrderInv, CallKinds, QueueKinds, Counted, AtUser, OfProgram, Requested
<1> QED  BY <1>5, <1>6, <1>7 DEF Leavable

\* Once the exit of a syscall is handled, the chain and the counts are as they should be.
LEMMA LeftInOrder ==
  ASSUME OrderlyHandlers, OrderInv, Leavable, NEW o, Leaving(o), NEW u, NEW queue, NEW q,
         q = t.chain.calls \o o.chain, Left(o, u, queue, q),
         k'.pos = "user", k'.queue = queue, Alike(t', u),
         h'.nr = h.nr, h'.entered = h.entered, h'.ran = h.ran,
         h'.exited = IF t.wa # "FAULTY" /\ Requested(t) THEN 1 + h.exited ELSE h.exited,
         h'.registered = h.registered \o o.chain
  PROVE  Staged' /\ QueueKinds' /\ CallKinds' /\ Counted' /\ Fifo'
<1>1. /\ t'.status = u.status /\ ~t'.handled /\ t'.restore = u.restore /\ t'.chain = u.chain /\ t'.wa = u.wa
      /\ IsInSysenter(t')
  BY DEF Alike, Left, IsInSysenter
<1>2. Staged' /\ CallKinds'
  BY <1>1 DEF Staged, CallKinds, AtUser, EntryAhead
<1>3. \/ /\ Requested(t) /\ o.again /\ o.chain = <<>> /\ t.wa # "FAULTY" /\ t.chain.calls = <<>>
         /\ queue = Call("restart", RestartedAs) /\ t'.restore /\ t'.chain = NoChain /\ t'.wa = "INACTIVE"
      \/ /\ t.wa = "FAULTY" /\ o.chain = <<>>
         /\ t'.wa = "REPLACED" /\ t'.chain = [live |-> TRUE, calls |-> <<>>]
         /\ queue = Call("replaced", Subst)
      \/ /\ t.wa # "FAULTY" /\ q = <<>> /\ t'.wa = "INACTIVE"
         /\ queue = NoCall /\ t'.chain = NoChain /\ ~t'.restore
      \/ /\ t.wa # "FAULTY" /\ q # <<>> /\ t'.wa = "INACTIVE"
         /\ queue = Call("chain", Head(q)) /\ Head(q) \in Chained /\ Tail(q) \in Seq(Chained)
         /\ t'.chain = [live |-> TRUE, calls |-> Tail(q)]
  <2>1. ExitReady(t, o)
    BY LeavingReady
  <2> HIDE DEF Leaving
  <2>2. CASE Requested(t) /\ o.again
    BY <1>1, <2>1, <2>2 DEF Left, ExitReady, Requested
  <2>3. CASE t.wa = "FAULTY"
    BY <1>1, <2>1, <2>3 DEF Left, ExitReady
  <2>4. CASE t.wa # "FAULTY" /\ ~(Requested(t) /\ o.again)
    BY <1>1, <2>1, <2>4 DEF Left
  <2> QED  BY <2>2, <2>3, <2>4
<1>3a. \/ /\ Requested(t) /\ o.again /\ o.chain = <<>> /\ t.wa # "FAULTY" /\ t.chain.calls = <<>>
          /\ queue = Call("restart", RestartedAs) /\ queue.src = "restart" /\ queue # NoCall
          /\ t'.restore /\ ~t'.chain.live /\ t'.chain.calls = <<>> /\ t'.wa = "INACTIVE"
       \/ /\ t.wa = "FAULTY" /\ o.chain = <<>>
          /\ queue = Call("replaced", Subst) /\ queue.src = "replaced" /\ queue # NoCall
          /\ t'.chain.live /\ t'.chain.calls = <<>> /\ t'.wa = "REPLACED"
       \/ /\ t.wa # "FAULTY" /\ q = <<>>
          /\ queue = NoCall /\ queue.src = "none"
          /\ ~t'.restore /\ ~t'.chain.live /\ t'.chain.calls = <<>> /\ t'.wa = "INACTIVE"
       \/ /\ t.wa # "FAULTY" /\ q # <<>> /\ Head(q) \in Chained /\ Tail(q) \in Seq(Chained)
          /\ queue.src = "chain" /\ queue.nr = Head(q) /\ queue # NoCall
          /\ t'.chain.live /\ t'.chain.calls = Tail(q) /\ t'.wa = "INACTIVE"
  <2>1. /\ Call("restart", RestartedAs).src = "restart" /\ Call("restart", RestartedAs) # NoCall
        /\ Call("replaced", Subst).src = "replaced" /\ Call("replaced", Subst) # NoCall
        /\ NoCall.src = "none"
        /\ Call("chain", Head(q)).src = "chain" /\ Call("chain", Head(q)).nr = Head(q)
        /\ Call("chain", Head(q)) # NoCall
    BY DEF Call, NoCall
  <2>2. NoChain.live = FALSE /\ NoChain.calls = <<>>
    BY DEF NoChain
  <2>3. t'.chain = [live |-> TRUE, calls |-> <<>>] => t'.chain.live /\ t'.chain.calls = <<>>
    BY QueueRecord
  <2>4. t'.chain = [live |-> TRUE, calls |-> Tail(q)] => t'.chain.live /\ t'.chain.calls = Tail(q)
    BY QueueRecord
  <2> QED  BY <1>3, <2>1, <2>2, <2>3, <2>4
<1>4. QueueKinds'
  <2>1. <<>> \in Seq(Chained)
    BY EmptySeq
  <2> QED  BY <1>1, <1>3a, <2>1 DEF QueueKinds, AtUser
<1>5. Counted'
  <2>1. h.exited \in Nat
    BY DEF OrderInv, IInv, TypeOK, Histories
  <2>2. t.wa = "FAULTY" => h'.exited = 0
    BY DEF Leavable
  <2>3. t.wa # "FAULTY" => (h.nr \in ExitFlag /\ h.entered = 1 => h'.exited = 1)
    BY <2>1 DEF Leavable
  <2> QED  BY <1>1, <1>3, <2>2, <2>3 DEF Counted, AtUser, OfProgram
<1>6. Fifo'
  <2>1. /\ h.ran \in Seq(Numbers) /\ o.chain \in Seq(Numbers) /\ Chained \subseteq Numbers
        /\ t.chain.calls \in Seq(Numbers)
    BY ConstantNumbers DEF OrderInv, IInv, TypeOK, Histories, Tracees, Queues, Leaving
  <2> DEFINE rest == IF t.wa = "FAULTY" THEN <<>> ELSE t.chain.calls
             rest1 == IF t'.wa = "FAULTY" THEN <<>> ELSE t'.chain.calls
             next1 == IF queue.src = "chain" THEN <<queue.nr>> ELSE <<>>
  <2>2. h'.registered = (h.ran \o rest) \o o.chain /\ rest \in Seq(Numbers)
    BY <2>1, EmptySeq DEF Leavable
  <2>3. next1 \o rest1 = rest \o o.chain /\ next1 \in Seq(Numbers) /\ rest1 \in Seq(Numbers)
    <3>1. CASE queue.src = "chain"
      <4>2. rest = t.chain.calls /\ rest1 = Tail(q) /\ next1 = <<Head(q)>>
        BY <1>3a, <3>1
      <4>3. q \in Seq(Numbers)
        BY <2>1, ConcatProperties
      <4>4. <<Head(q)>> \o Tail(q) = q
        BY <1>3a, <3>1, <4>3, HeadTailFacts
      <4>5. Head(q) \in Numbers /\ Tail(q) \in Seq(Numbers)
        BY <1>3a, <3>1, <4>3, HeadTailFacts
      <4>6. <<Head(q)>> \in Seq(Numbers)
        BY <4>5, SingletonSeq
      <4> HIDE DEF rest, rest1, next1
      <4> QED  BY <4>2, <4>4, <4>5, <4>6
    <3>2. CASE queue.src # "chain"
      <4>1. next1 = <<>> /\ rest1 = <<>>
        BY <1>3a, <3>2
      <4>2. rest \o o.chain = <<>>
        <5>1. CASE t.wa # "FAULTY" /\ q = <<>>
          BY <5>1
        <5>2. CASE o.chain = <<>> /\ rest = <<>>
          BY <2>1, <5>2, ConcatEmptySeq
        <5> QED  BY <1>3a, <3>2, <5>1, <5>2
      <4> HIDE DEF rest, rest1, next1
      <4>3. <<>> \o <<>> = <<>> /\ <<>> \in Seq(Numbers)
        BY EmptySeq, ConcatEmptySeq
      <4> QED  BY <4>1, <4>2, <4>3
    <3> QED  BY <3>1, <3>2
  <2>4. Fifo' <=> h'.registered = h.ran \o next1 \o <<>> \o rest1
    BY DEF Fifo
  <2> HIDE DEF next1, rest1, rest
  <2>5. (h.ran \o rest) \o o.chain = h.ran \o next1 \o <<>> \o rest1
    <3>1. /\ h.ran \in Seq(Numbers) /\ rest \in Seq(Numbers) /\ o.chain \in Seq(Numbers)
          /\ next1 \in Seq(Numbers) /\ rest1 \in Seq(Numbers)
      BY <2>1, <2>2, <2>3
    <3>2. Moved(h.ran, rest, o.chain, next1, rest1)
      BY <3>1, CallsMove
    <3> QED  BY <3>2, <2>3 DEF Moved
  <2> QED  BY <2>2, <2>4, <2>5
<1> QED  BY <1>2, <1>4, <1>5, <1>6

\* What translating an exit leaves of the fields, however the stop began.
LEMMA ExitLeft ==
  ASSUME OrderlyHandlers, OrderInv, NEW o, Leaving(o),
         NEW tr \in Handled, tr.chain = t.chain, tr.wa = t.wa, tr.restore = t.restore, ~tr.handled,
         NEW x, x = TranslateExit(tr, o)
  PROVE  /\ Left(o, x.t, x.queue, t.chain.calls \o o.chain)
         /\ x.t.seccomp = "ENABLED" => tr.seccomp = "ENABLED"
         /\ x.t.seccomp = "DISABLING" => tr.seccomp = "DISABLING" \/ o.disable
         /\ tr.seccomp = "ENABLED" => x.t.seccomp \in {"ENABLED", "DISABLING"}
         /\ x.t.how = "CONT" => /\ tr.how = "CONT" /\ x.queue = NoCall
                                /\ x.t.chain = NoChain /\ ~x.t.restore
                                /\ x.t.pending = tr.pending
         /\ x.t.how \in {"CONT", "SYSCALL"}
<1>1. ExitReady(tr, o) /\ (Requested(tr) <=> Requested(t))
  BY LeavingReady
<1> DEFINE q == tr.chain.calls \o o.chain
<1>2. q = t.chain.calls \o o.chain
  OBVIOUS
<1> HIDE DEF q
<1>3. ExitTranslated(tr, o, x, q)
  <2>1. q = tr.chain.calls \o o.chain
    BY DEF q
  <2> QED  BY <1>1, <2>1, ExitFields
<1>4. tr.seccomp \in {"DISABLED", "DISABLING", "ENABLED"} /\ tr.how \in {"CONT", "SYSCALL"}
        /\ tr.pending \in BOOLEAN
  BY DEF Handled, Tracees
<1>5. Left(o, x.t, x.queue, q)
  BY <1>1, <1>3 DEF ExitTranslated, Left, IsInSysenter
<1>6. /\ x.t.seccomp = "ENABLED" => tr.seccomp = "ENABLED"
      /\ x.t.seccomp = "DISABLING" => tr.seccomp = "DISABLING" \/ o.disable
      /\ tr.seccomp = "ENABLED" => x.t.seccomp \in {"ENABLED", "DISABLING"}
  BY <1>1, <1>3, <1>4 DEF ExitTranslated
<1>7. /\ x.t.how = "CONT" => /\ tr.how = "CONT" /\ x.queue = NoCall
                             /\ x.t.chain = NoChain /\ ~x.t.restore
                             /\ x.t.pending = tr.pending
      /\ x.t.how \in {"CONT", "SYSCALL"}
  BY <1>1, <1>3, <1>4 DEF ExitTranslated
<1> QED  BY <1>2, <1>5, <1>6, <1>7

\* The exit stop of a syscall, or what the kernel reports in place of it.
LEMMA SysexitLeave ==
  ASSUME OrderlyHandlers, OrderInv, SysexitStage, k.pos = "sysexit"
  PROVE  Shape' /\ Fifo'
<1>1. /\ IInv /\ Prepared \in Handled /\ k.call.nr \in Numbers /\ h \in Histories
      /\ k.call \in Calls /\ k.queue \in Calls /\ Announced(Prepared, k.queue)
      /\ host.new \in BOOLEAN /\ MaxChain - Len(h.registered) \in Int /\ k.sigsys \in BOOLEAN
      /\ t.seccomp \in {"DISABLED", "DISABLING", "ENABLED"}
  BY AtStop, StagesAssumption DEF OrderInv, IInv, TypeOK, Kernels, HostTraits, Histories, Tracees
<1>2. ~IsInSysenter(t) /\ ~t.handled /\ k.mode = "SYSCALL" /\ k.queue = NoCall /\ t.seccomp # "DISABLING" /\ ~AtUser
  BY <1>1 DEF OrderInv, KernelPlaces, Staged, QueueKinds, Followed, AtUser, EntryAhead, SysexitStage
<1>3. PICK o \in ExitOutcomes(h.nr, MaxChain - Len(h.registered)) :
        LET r == HandleSysTrap(Prepared, k.call.nr, o, o)
            translated == ~t.handled /\ t.wa # "FAULTY" IN
        /\ ~translated => o.chain = <<>>
        /\ k.sigsys => ~o.again
        /\ Restart(r, Resumed)
        /\ h' = [h EXCEPT !.exited = IF translated /\ Requested(t) THEN 1 + @ ELSE @,
                          !.registered = @ \o o.chain,
                          !.delivered = Delivered(r.signal)]
  BY DEF SysexitStage
<1> DEFINE r  == HandleSysTrap(Prepared, k.call.nr, o, o)
           t1 == StageDefaults(Prepared)
           x  == TranslateExit(t1, o)
           n  == IF t.wa # "FAULTY" /\ Requested(t) THEN 1 + h.exited ELSE h.exited
<1>4. /\ o.chain \in Seq(Numbers) /\ o.pend \in BOOLEAN /\ o.disable \in BOOLEAN /\ o.again \in BOOLEAN
      /\ Leaving(o) /\ (k.sigsys => ~o.again)
  <2>1. o.chain \in Seq(Numbers) /\ o.pend \in BOOLEAN /\ o.disable \in BOOLEAN /\ o.again \in BOOLEAN
    BY <1>1, ExitOutcomesType
  <2>2. /\ o.chain \in Seq(Chained) /\ (o.chain # <<>> => h.nr \in Chains)
        /\ (o.disable => h.nr \in Disabling) /\ (o.again => h.nr \in Again)
    BY <1>1, ExitChain
  <2> QED  BY <1>3, <2>1, <2>2 DEF Leaving
<1>5. GoodOutcome(r) /\ Restart(r, "user")
  BY <1>1, <1>2, <1>3, <1>4, AtStop, SysTrapExit DEF Resumed
<1>6. /\ host' = host /\ global' = global
      /\ h'.nr = h.nr /\ h'.entered = h.entered /\ h'.exited = n
      /\ h'.registered = h.registered \o o.chain /\ h'.ran = h.ran
  <2>1. h' = [h EXCEPT !.exited = n, !.registered = @ \o o.chain, !.delivered = Delivered(r.signal)]
    BY <1>2, <1>3
  <2> HIDE DEF r, n
  <2> QED  BY <1>1, <2>1 DEF Histories, SysexitStage
<1>7. Prepared.seccomp # "DISABLING" /\ ~Prepared.handled /\ ~IsInSysenter(Prepared)
  BY <1>1, <1>2, AtStop, PreparedFields
<1>8. r = Outcome(AfterDisabling(IF Redelivered(x.t) = NoSignal THEN x.t
                                 ELSE [x.t EXCEPT !.suppressed = NoSignal]),
                  k.call.nr, x.queue, Redelivered(x.t))
  BY <1>7 DEF HandleSysTrap
<1>9. /\ t1 \in Handled /\ t1.restore = t.restore /\ t1.chain = t.chain /\ t1.wa = t.wa /\ ~t1.handled
      /\ t1.seccomp = t.seccomp
      /\ t1.how = "CONT" => t.seccomp = "ENABLED" /\ ~t1.pending
  <2>1. t1 \in Handled
    BY <1>1, StageDefaultsType
  <2> HIDE DEF t1
  <2>2. t1 = StageDefaults(Prepared)
    BY DEF t1
  <2>3. t.seccomp # "ENABLED" => Prepared.how = "SYSCALL"
    BY <1>1, PreparedFields
  <2> QED  BY <1>1, <1>7, <2>1, <2>2, <2>3, StageDefaultsFields, PreparedFields
<1>10. x.t \in Handled
  BY <1>4, <1>9, TranslateExitType
<1>11. /\ Left(o, x.t, x.queue, t.chain.calls \o o.chain)
       /\ x.t.seccomp = "ENABLED" => t1.seccomp = "ENABLED"
       /\ t1.seccomp = "ENABLED" => x.t.seccomp \in {"ENABLED", "DISABLING"}
       /\ x.t.how = "CONT" => /\ t1.how = "CONT" /\ x.queue = NoCall
                              /\ x.t.chain = NoChain /\ ~x.t.restore
                              /\ x.t.pending = t1.pending
       /\ x.t.how \in {"CONT", "SYSCALL"}
  <2> HIDE DEF t1, x
  <2>1. x = TranslateExit(t1, o)
    BY DEF x
  <2> QED  BY <1>4, <1>9, <2>1, ExitLeft
<1> HIDE DEF t1, x, r
<1>12. /\ r.nr = k.call.nr /\ r.queue = x.queue
       /\ r.t.status = x.t.status /\ r.t.pending = x.t.pending /\ r.t.restore = x.t.restore
       /\ r.t.handled = x.t.handled /\ r.t.chain = x.t.chain /\ r.t.wa = x.t.wa
       /\ r.t.seccomp # "DISABLING" /\ (r.t.seccomp = "ENABLED" => x.t.seccomp = "ENABLED")
       /\ r.t.how = "CONT" => x.t.how = "CONT" /\ r.t.seccomp = x.t.seccomp
       /\ r.t.how \in {"CONT", "SYSCALL"}
  <2> DEFINE u == AfterDisabling(IF Redelivered(x.t) = NoSignal THEN x.t
                                 ELSE [x.t EXCEPT !.suppressed = NoSignal])
  <2>1. r.t = u /\ r.nr = k.call.nr /\ r.queue = x.queue
    BY <1>8 DEF Outcome
  <2> HIDE DEF u
  <2>2. u = AfterDisabling(IF Redelivered(x.t) = NoSignal THEN x.t
                           ELSE [x.t EXCEPT !.suppressed = NoSignal])
    BY DEF u
  <2>3. /\ u.status = x.t.status /\ u.pending = x.t.pending /\ u.restore = x.t.restore
        /\ u.handled = x.t.handled /\ u.chain = x.t.chain /\ u.wa = x.t.wa
        /\ x.t.seccomp # "DISABLING" => u.seccomp = x.t.seccomp /\ u.how = x.t.how
        /\ x.t.seccomp = "DISABLING" => u.seccomp = "DISABLED" /\ u.how = "SYSCALL"
    BY <1>10, <2>2, TrapEndFields
  <2> QED  BY <1>11, <2>1, <2>3
<1>13. Left(o, r.t, x.queue, t.chain.calls \o o.chain)
  BY <1>11, <1>12 DEF Left, IsInSysenter
<1>14. Resumes(r, "user")
  BY <1>1, <1>5, RestartFields
<1>15. /\ k'.pos = "user" /\ k'.gates = k.gates /\ k'.sigsys = k.sigsys /\ k'.mode = r.t.how
       /\ k'.call.src = k.call.src /\ k'.call.nr = k.call.nr /\ k'.queue = x.queue
       /\ Alike(t', r.t) /\ t'.last = r.t.how
  BY <1>12, <1>14 DEF Resumes
<1>16. Staged' /\ QueueKinds' /\ CallKinds' /\ Counted' /\ Fifo'
  <2>1. Leavable
    BY <1>2, SysexitLeavable
  <2> DEFINE q == t.chain.calls \o o.chain
  <2>2. Left(o, r.t, x.queue, q)
    BY <1>13
  <2>3. h'.exited = IF t.wa # "FAULTY" /\ Requested(t) THEN 1 + h.exited ELSE h.exited
    BY <1>6
  <2>4. q = t.chain.calls \o o.chain
    OBVIOUS
  <2> HIDE DEF q, n
  <2> QED  BY <1>4, <1>6, <1>15, <2>1, <2>2, <2>3, <2>4, LeftInOrder
<1>17. KernelPlaces' /\ OrderKnown'
  BY <1>6, <1>9, <1>11, <1>12, <1>15 DEF OrderInv, KernelPlaces, OrderKnown, Alike
<1>18. Followed'
  <2>1. /\ t'.seccomp = r.t.seccomp /\ t'.pending = r.t.pending /\ t'.restore = r.t.restore
        /\ t'.chain = r.t.chain /\ IsInSysenter(t')
    BY <1>13, <1>15 DEF Alike, Left, IsInSysenter
  <2>2. r.t.how = "CONT" => /\ r.t.seccomp = "ENABLED" /\ ~r.t.pending /\ ~r.t.chain.live /\ ~r.t.restore
                            /\ x.queue = NoCall
    <3>1. x.t.how = "CONT" => x.t.seccomp \in {"ENABLED", "DISABLING"} /\ ~x.t.pending
      BY <1>9, <1>11
    <3> QED  BY <1>9, <1>11, <1>12, <3>1 DEF NoChain
  <2> QED  BY <1>12, <1>15, <2>1, <2>2 DEF Followed, AtUser
<1>19. Refused'
  <2>1. IsInSysenter(t')
    BY <1>13, <1>15 DEF Alike, Left, IsInSysenter
  <2>2. ASSUME k.sigsys  PROVE x.queue # NoCall => host.new /\ k.call.nr = Void
    <3>1. host.new /\ k.call.nr \in Traps \cup {Void} /\ k.call.nr \in {h.nr, Void} /\ ~t.chain.live
      BY <1>2, <2>2 DEF OrderInv, Refused
    <3>2. t.chain.calls = <<>> /\ t.wa = "INACTIVE" /\ Requested(t) /\ ~o.again
      BY <1>4, <2>2, <3>1 DEF OrderInv, QueueKinds, Requested
    <3>3. <<>> \o o.chain = o.chain
      BY <1>4, ConcatEmptySeq
    <3>4. o.chain = <<>> => x.queue = NoCall
      <4> DEFINE q == t.chain.calls \o o.chain
      <4>1. q = o.chain
        BY <3>2, <3>3
      <4>2. Left(o, r.t, x.queue, q)
        BY <1>13
      <4> HIDE DEF q
      <4> QED  BY <3>2, <4>1, <4>2 DEF Left
    <3> QED  BY <1>4, <3>1, <3>4 DEF Leaving, OrderlyHandlers
  <2>3. k.sigsys => host.policy /\ k.call.nr \in Traps \cup {Void}
    BY DEF OrderInv, Refused
  <2> QED  BY <1>6, <1>15, <2>1, <2>2, <2>3 DEF Refused
<1> QED  BY <1>16, <1>17, <1>18, <1>19 DEF Shape

LEMMA SysexitOrder ==
  ASSUME OrderlyHandlers, OrderInv, SysexitStage
  PROVE  Shape' /\ Fifo'
<1>1. k.pos \in {"sysenter", "sysexit"}
  BY DEF SysexitStage
<1> QED  BY <1>1, SysexitHandled, SysexitLeave

\* A seccomp event is either left to another stop of the same syscall, or it is where
\* the entry is translated.
SeccompKept(r) ==
  /\ r.nr = k.call.nr /\ r.queue = NoCall /\ r.t.how = "SYSCALL"
  /\ r.t.status = t.status /\ r.t.pending = t.pending /\ r.t.restore = t.restore
  /\ r.t.handled = t.handled /\ r.t.chain = t.chain /\ r.t.wa = t.wa
  /\ r.t.seccomp \in {t.seccomp, "ENABLED"}
  /\ host.new <=> ~IsInSysenter(t)

SeccompTranslated(r) ==
  /\ IsInSysenter(t) /\ ~t.chain.live /\ ~t.restore
  /\ r.queue = NoCall /\ r.t.seccomp = "ENABLED" /\ ~r.t.restore
  /\ r.nr \in {k.call.nr, Void, Subst, Faulty}
  /\ \/ r.t.chain = t.chain /\ r.t.wa = t.wa
     \/ /\ r.t.chain = [live |-> TRUE, calls |-> <<Subst>>] /\ r.t.wa = "FAULTY"
        /\ r.nr = Faulty /\ r.t.how = "SYSCALL"
  /\ r.t.how \in {"CONT", "SYSCALL"}
  /\ r.t.how = "CONT" <=> IsInSysenter(r.t)
  /\ r.t.how = "CONT" => ~r.t.pending /\ k.call.nr \notin ExitFlag
  /\ r.t.handled <=> (~host.new /\ r.t.how = "SYSCALL")

LEMMA SeccompKeptOrder ==
  ASSUME OrderInv, k.pos = "seccomp", NEW r, SeccompKept(r), Resumes(r, "gate"),
         host' = host, h' = h, global'.detected, global'.afterEnter = host.new
  PROVE  Shape' /\ Fifo'
<1>1. /\ k'.pos = "gate" /\ k'.gates = k.gates /\ k'.sigsys = k.sigsys /\ k'.mode = "SYSCALL"
      /\ k'.call.src = k.call.src /\ k'.call.nr = k.call.nr /\ k'.queue = NoCall
      /\ t'.status = t.status /\ t'.pending = t.pending /\ t'.restore = t.restore
      /\ t'.handled = t.handled /\ t'.chain = t.chain /\ t'.wa = t.wa
      /\ t'.seccomp \in {t.seccomp, "ENABLED"} /\ t'.last = "SYSCALL"
      /\ host.new <=> ~IsInSysenter(t)
  BY DEF SeccompKept, Resumes, Alike
<1>2. /\ host.filter /\ k.call.nr \in Filtered /\ ~k.sigsys /\ k.queue = NoCall
      /\ k.gates = IF host.new THEN <<"recheck">> ELSE <<"sysenter">>
      /\ k.call.nr \notin Forks /\ host.new \in BOOLEAN
  BY StagesAssumption DEF OrderInv, KernelPlaces, Refused, QueueKinds, AtUser, IInv, TypeOK, HostTraits
<1>3. KernelPlaces' /\ OrderKnown' /\ Followed'
  BY <1>1, <1>2 DEF OrderInv, KernelPlaces, OrderKnown, Followed, AtUser
<1>4. ~t.handled
  BY <1>1, <1>2 DEF OrderInv, Staged, AtUser, EntryAhead
<1>5. Staged' /\ Refused'
  BY <1>1, <1>2, <1>4, GateWalk DEF Staged, Refused, AtUser, EntryAhead, IsInSysenter
<1>6. QueueKinds' /\ CallKinds'
  <2>1. QueueKinds'
    BY <1>1, <1>2 DEF OrderInv, QueueKinds, AtUser, IsInSysenter
  <2>2. CallKinds'
    BY <1>1, <1>2 DEF OrderInv, CallKinds, AtUser, OfProgram, IsInSysenter
  <2> QED  BY <2>1, <2>2
<1>6a. Fifo'
  BY <1>1, <1>2 DEF OrderInv, Fifo
<1>7. Counted'
  BY <1>1, <1>2, GateWalk DEF OrderInv, Counted, AtUser, OfProgram, EntryAhead, FilterAhead, IsInSysenter
<1> QED  BY <1>3, <1>5, <1>6, <1>6a, <1>7 DEF Shape

LEMMA SeccompTranslatedOrder ==
  ASSUME OrderInv, k.pos = "seccomp", NEW r, SeccompTranslated(r), Resumes(r, "gate"),
         host' = host, global'.detected, global'.afterEnter = host.new,
         h'.nr = h.nr, h'.entered = 1 + h.entered, h'.exited = h.exited,
         h'.registered = h.registered, h'.ran = h.ran
  PROVE  Shape' /\ Fifo'
<1>1. /\ k'.pos = "gate" /\ k'.gates = k.gates /\ k'.sigsys = k.sigsys /\ k'.mode = r.t.how
      /\ k'.call.src = k.call.src /\ k'.call.nr = r.nr /\ k'.queue = NoCall
      /\ t'.status = r.t.status /\ t'.pending = r.t.pending /\ ~t'.restore
      /\ t'.handled = r.t.handled /\ t'.chain = r.t.chain /\ t'.wa = r.t.wa
      /\ t'.seccomp = "ENABLED" /\ t'.last = r.t.how
  BY DEF SeccompTranslated, Resumes, Alike
<1>2. /\ host.filter /\ k.call.nr \in Filtered /\ ~k.sigsys /\ k.queue = NoCall
      /\ k.gates = IF host.new THEN <<"recheck">> ELSE <<"sysenter">>
      /\ k.call.nr \notin Forks /\ host.new \in BOOLEAN
      /\ Void \notin Forks /\ Subst \notin Forks /\ Faulty \notin Forks
  BY StagesAssumption, NumbersAssumption
     DEF OrderInv, KernelPlaces, Refused, QueueKinds, AtUser, IInv, TypeOK, HostTraits
<1>3. /\ IsInSysenter(t) /\ ~t.chain.live /\ ~t.restore /\ r.nr \in {k.call.nr, Void, Subst, Faulty}
      /\ r.nr \notin Forks /\ r.t.how \in {"CONT", "SYSCALL"}
      /\ k'.mode = "CONT" <=> IsInSysenter(t')
      /\ k'.mode = "CONT" => ~t'.pending /\ ~t'.chain.live /\ k.call.nr \notin ExitFlag
      /\ t'.handled <=> (~host.new /\ k'.mode = "SYSCALL")
  BY <1>1, <1>2 DEF SeccompTranslated, IsInSysenter
<1>4. \/ t'.chain = t.chain /\ t'.wa = t.wa
      \/ t'.chain.live /\ t'.chain.calls = <<Subst>> /\ t'.wa = "FAULTY" /\ k'.call.nr = Faulty /\ k'.mode = "SYSCALL"
  BY <1>1, QueueRecord DEF SeccompTranslated
<1>5. /\ t.chain.calls = <<>> /\ t.wa = "INACTIVE" /\ k.call.src = "program"
      /\ h.entered = 0 /\ h.exited = 0 /\ k.call.nr = h.nr
  BY <1>3 DEF OrderInv, QueueKinds, CallKinds, Counted, AtUser, OfProgram, FilterAhead
<1>6. KernelPlaces' /\ OrderKnown'
  BY <1>1, <1>2 DEF OrderInv, KernelPlaces, OrderKnown
<1>7. Followed'
  BY <1>1, <1>3 DEF Followed
<1>8. Staged'
  BY <1>1, <1>2, <1>3, GateWalk DEF Staged, AtUser, EntryAhead
<1>9. Refused'
  BY <1>1, <1>2 DEF Refused
<1>10. QueueKinds'
  BY <1>1, <1>4, <1>5, <1>3 DEF OrderInv, QueueKinds, AtUser
<1>11. CallKinds'
  BY <1>1, <1>3, <1>4, <1>5 DEF CallKinds, AtUser, OfProgram
<1>12. Counted'
  BY <1>1, <1>2, <1>3, <1>4, <1>5, GateWalk DEF Counted, AtUser, OfProgram, EntryAhead, FilterAhead
<1>13. Fifo'
  <2>1. (IF t'.wa = "FAULTY" THEN <<>> ELSE t'.chain.calls) = <<>>
    BY <1>4, <1>5
  <2>2. k'.queue = k.queue /\ k'.call.src # "chain" /\ k.call.src # "chain"
    BY <1>1, <1>2, <1>5
  <2> QED  BY <1>5, <2>1, <2>2 DEF OrderInv, Fifo
<1> QED  BY <1>6, <1>7, <1>8, <1>9, <1>10, <1>11, <1>12, <1>13 DEF Shape

\* The fields of the tracee once the order of the stops is detected.
Detected(tr) ==
  /\ tr \in Handled
  /\ tr.status = t.status /\ tr.pending = t.pending /\ tr.restore = t.restore /\ tr.handled = t.handled
  /\ tr.chain = t.chain /\ tr.wa = t.wa /\ tr.last = k.mode
  /\ tr.seccomp \in {t.seccomp, "ENABLED"}
  /\ tr.seccomp # "ENABLED" => tr.how = "SYSCALL"

LEMMA SeccompHandled ==
  ASSUME OrderlyHandlers, OrderInv, k.pos = "seccomp", NEW tr0, Detected(tr0),
         IsInSysenter(t) /\ host.new => tr0.seccomp = "ENABLED",
         NEW after, after = host.new, NEW o \in EnterOutcomes(k.call.nr),
         NEW r, r = HandleSeccompEvent(tr0, after, k.call.nr, o)
  PROVE  /\ (IsInSysenter(t) /\ ~t.chain.live /\ tr0.seccomp = "ENABLED"
              /\ (after \/ ~(k.call.nr \in ExitFlag \/ SysexitNecessary(t)))) => SeccompTranslated(r)
         /\ ~(IsInSysenter(t) /\ ~t.chain.live /\ tr0.seccomp = "ENABLED"
              /\ (after \/ ~(k.call.nr \in ExitFlag \/ SysexitNecessary(t)))) => SeccompKept(r)
<1> DEFINE tr == [tr0 EXCEPT !.skip = FALSE]
           nr == k.call.nr
           common == nr \in ExitFlag \/ SysexitNecessary(tr)
           trC == [tr EXCEPT !.how = "CONT"]
           trS == [tr EXCEPT !.how = "SYSCALL"]
           trL == [tr EXCEPT !.how = tr.last]
           eC  == TranslateEnter(trC, nr, o)
           eS  == TranslateEnter(trS, nr, o)
           how == IF eC.t.pending \/ eC.t.seccomp = "DISABLING" THEN "SYSCALL" ELSE eC.t.how
           hd  == ~after /\ how = "SYSCALL"
           u == [eC.t EXCEPT !.how = how, !.handled = hd]
           v == [eS.t EXCEPT !.how = "SYSCALL"]
<1>1. /\ host \in Hosts /\ host.new \in BOOLEAN /\ nr \in Numbers /\ IsInSysenter(t) \in BOOLEAN
      /\ k.mode \in {"CONT", "SYSCALL"} /\ t.chain.live \in BOOLEAN /\ t.restore \in BOOLEAN
      /\ t.pending \in BOOLEAN
  BY AtStop, StagesAssumption DEF OrderInv, IInv, TypeOK, HostTraits, Kernels, Tracees, Queues, IsInSysenter
<1>2. /\ IsInSysenter(t) /\ host.new => k.mode = "CONT"
      /\ ~IsInSysenter(t) => host.new /\ k.mode = "SYSCALL"
      /\ ~t.handled
  BY <1>1 DEF OrderInv, Staged, Followed, AtUser, EntryAhead
<1>3. k.mode = "CONT" => ~t.pending /\ ~t.chain.live /\ ~t.restore
  BY DEF OrderInv, Followed
<1>4. \A w \in {tr, trC, trS, trL} :
        /\ w \in Handled /\ w.status = t.status /\ w.pending = t.pending /\ w.restore = t.restore
        /\ w.handled = t.handled /\ w.chain = t.chain /\ w.wa = t.wa /\ w.seccomp = tr0.seccomp
  <2>1. tr0 \in Handled
    BY DEF Detected
  <2>2. /\ tr \in Handled /\ tr.status = t.status /\ tr.pending = t.pending /\ tr.restore = t.restore
        /\ tr.handled = t.handled /\ tr.chain = t.chain /\ tr.wa = t.wa /\ tr.seccomp = tr0.seccomp
    BY <2>1 DEF Detected, Handled, Tracees
  <2> HIDE DEF tr
  <2>3. ASSUME NEW hw \in {"CONT", "SYSCALL"}, NEW w, w = [tr EXCEPT !.how = hw]
        PROVE  /\ w \in Handled /\ w.status = t.status /\ w.pending = t.pending /\ w.restore = t.restore
               /\ w.handled = t.handled /\ w.chain = t.chain /\ w.wa = t.wa /\ w.seccomp = tr0.seccomp
    BY <2>2, <2>3 DEF Handled, Tracees
  <2>4. tr.last \in {"CONT", "SYSCALL"}
    BY <2>2 DEF Handled, Tracees
  <2> QED  BY <2>2, <2>3, <2>4
<1>5. trC.how = "CONT" /\ trS.how = "SYSCALL" /\ trL.how = k.mode /\ tr.how = tr0.how
  <2>1. tr0 \in Handled
    BY DEF Detected
  <2>2. tr \in Handled /\ tr.last = k.mode /\ tr.how = tr0.how
    BY <2>1 DEF Detected, Handled, Tracees
  <2> HIDE DEF tr
  <2> QED  BY <2>2 DEF Handled, Tracees
<1>6. common <=> (nr \in ExitFlag \/ SysexitNecessary(t))
  BY <1>4 DEF SysexitNecessary
<1>7. r = IF after /\ ~IsInSysenter(tr)
          THEN Outcome(trL, nr, NoCall, NoSignal)
          ELSE IF tr.seccomp # "ENABLED" THEN Outcome(tr, nr, NoCall, NoSignal)
          ELSE IF common /\ after THEN Outcome(v, eS.nr, NoCall, NoSignal)
          ELSE IF common THEN Outcome(trS, nr, NoCall, NoSignal)
          ELSE Outcome(u, eC.nr, NoCall, NoSignal)
  BY Zenon DEF HandleSeccompEvent
<1> HIDE DEF tr, trC, trS, trL, common, nr
<1>8. \A w, m : Outcome(w, m, NoCall, NoSignal).t = w /\ Outcome(w, m, NoCall, NoSignal).nr = m
                /\ Outcome(w, m, NoCall, NoSignal).queue = NoCall
  BY DEF Outcome
<1>9. IsInSysenter(tr) <=> IsInSysenter(t)
  BY <1>4 DEF IsInSysenter
<1>10. CASE after /\ ~IsInSysenter(t)
  <2>1. r.t = trL /\ r.nr = nr /\ r.queue = NoCall
    BY <1>7, <1>8, <1>9, <1>10
  <2> QED  BY <1>2, <1>4, <1>5, <1>10, <2>1 DEF SeccompKept, Detected, nr
<1>11. CASE IsInSysenter(t) /\ tr0.seccomp # "ENABLED"
  <2>1. r.t = tr /\ r.nr = nr /\ r.queue = NoCall
    BY <1>4, <1>7, <1>8, <1>9, <1>11
  <2> QED  BY <1>1, <1>2, <1>4, <1>5, <1>11, <2>1 DEF SeccompKept, Detected, nr
<1>12. CASE IsInSysenter(t) /\ tr0.seccomp = "ENABLED" /\ common /\ after
  <2>1. r.t = v /\ r.nr = eS.nr /\ r.queue = NoCall
    BY <1>4, <1>7, <1>8, <1>9, <1>12
  <2>2. eS.t \in Handled /\ nr \in Numbers
    BY <1>1, <1>4, TranslateEnterType DEF nr
  <2>3. EntryTranslated(trS, nr, eS.t, eS.nr) /\ ~IsInSysenter(eS.t) /\ trS \in Handled
    <3> HIDE DEF eS
    <3>1. eS = TranslateEnter(trS, nr, o) /\ o \in EnterOutcomes(nr)
      BY DEF eS, nr
    <3> QED  BY <1>1, <1>4, <1>5, <2>2, <3>1, EnterFields
  <2> HIDE DEF eS
  <2>4. /\ v.status = eS.t.status /\ v.seccomp = eS.t.seccomp /\ v.restore = eS.t.restore
        /\ v.handled = eS.t.handled /\ v.chain = eS.t.chain /\ v.wa = eS.t.wa /\ v.how = "SYSCALL"
    BY <2>2 DEF Handled, Tracees
  <2>5. ~t.chain.live /\ ~t.restore
    BY <1>2, <1>3, <1>12
  <2> HIDE DEF v
  <2>6. /\ v.seccomp = "ENABLED" /\ ~v.restore /\ ~v.handled /\ ~IsInSysenter(v)
        /\ eS.nr \in {nr, Void, Subst, Faulty}
        /\ \/ v.chain = t.chain /\ v.wa = t.wa
           \/ v.chain = [live |-> TRUE, calls |-> <<Subst>>] /\ v.wa = "FAULTY" /\ eS.nr = Faulty
    BY <1>2, <1>4, <1>12, <2>3, <2>4, <2>5 DEF EntryTranslated, IsInSysenter
  <2> QED  BY <1>6, <1>12, <2>1, <2>4, <2>5, <2>6 DEF SeccompTranslated, nr
<1>13. CASE IsInSysenter(t) /\ tr0.seccomp = "ENABLED" /\ common /\ ~after
  <2>1. r.t = trS /\ r.nr = nr /\ r.queue = NoCall
    BY <1>4, <1>7, <1>8, <1>9, <1>13
  <2> QED  BY <1>1, <1>2, <1>4, <1>5, <1>6, <1>13, <2>1 DEF SeccompKept, Detected, nr
<1>14. CASE IsInSysenter(t) /\ tr0.seccomp = "ENABLED" /\ ~common
  <2>0. ~t.chain.live /\ ~t.restore /\ ~t.pending /\ nr \notin ExitFlag
    BY <1>6, <1>14 DEF SysexitNecessary
  <2>1. r.t = u /\ r.nr = eC.nr /\ r.queue = NoCall
    BY <1>4, <1>7, <1>8, <1>9, <1>14
  <2>2. eC.t \in Handled /\ nr \in Numbers
    BY <1>1, <1>4, TranslateEnterType DEF nr
  <2>3. /\ EntryTranslated(trC, nr, eC.t, eC.nr) /\ trC \in Handled
        /\ eC.t.how = "CONT" <=> IsInSysenter(eC.t)
        /\ eC.t.how = "CONT" => eC.t.pending = trC.pending /\ eC.t.chain = trC.chain
    <3> HIDE DEF eC
    <3>1. eC = TranslateEnter(trC, nr, o) /\ o \in EnterOutcomes(nr)
      BY DEF eC, nr
    <3>2. ~trC.chain.live /\ trC \in Handled /\ trC.how = "CONT"
      BY <1>4, <1>5, <2>0
    <3> QED  BY <1>1, <2>0, <2>2, <3>1, <3>2, EnterFields
  <2> HIDE DEF eC
  <2>4. eC.t.how \in {"CONT", "SYSCALL"} /\ eC.t.seccomp = "ENABLED" /\ how = eC.t.how /\ hd \in BOOLEAN
    BY <1>4, <1>14, <2>0, <2>2, <2>3 DEF EntryTranslated, Handled, Tracees
  <2> HIDE DEF how, hd
  <2>5. /\ u.status = eC.t.status /\ u.seccomp = eC.t.seccomp /\ u.restore = eC.t.restore
        /\ u.pending = eC.t.pending
        /\ u.handled = hd /\ u.chain = eC.t.chain /\ u.wa = eC.t.wa /\ u.how = how
    BY <2>2, <2>4 DEF Handled, Tracees
  <2> HIDE DEF u
  <2>6. /\ u.seccomp = "ENABLED" /\ ~u.restore /\ u.handled = hd
        /\ eC.nr \in {nr, Void, Subst, Faulty}
        /\ u.how \in {"CONT", "SYSCALL"} /\ (u.how = "CONT" <=> IsInSysenter(u))
        /\ u.how = "CONT" => ~u.pending
        /\ \/ u.chain = t.chain /\ u.wa = t.wa
           \/ /\ u.chain = [live |-> TRUE, calls |-> <<Subst>>] /\ u.wa = "FAULTY" /\ eC.nr = Faulty
              /\ u.how = "SYSCALL"
    <3>1. /\ eC.t.restore = FALSE /\ eC.nr \in {nr, Void, Subst, Faulty}
          /\ \/ eC.t.chain = t.chain /\ eC.t.wa = t.wa
             \/ eC.t.chain = [live |-> TRUE, calls |-> <<Subst>>] /\ eC.t.wa = "FAULTY" /\ eC.nr = Faulty
      BY <1>1, <1>4, <2>0, <2>3 DEF EntryTranslated
    <3>2. eC.t.how = "CONT" => ~eC.t.pending /\ ~eC.t.chain.live
      BY <1>4, <2>0, <2>3
    <3>3. eC.t.chain = [live |-> TRUE, calls |-> <<Subst>>] => eC.t.chain.live
      BY QueueRecord
    <3> QED  BY <2>3, <2>4, <2>5, <3>1, <3>2, <3>3 DEF IsInSysenter
  <2>7. hd <=> (~host.new /\ u.how = "SYSCALL")
    BY <2>4, <2>5 DEF hd
  <2> QED  BY <1>6, <1>14, <2>0, <2>1, <2>6, <2>7 DEF SeccompTranslated, nr
<1> QED  BY <1>1, <1>2, <1>10, <1>11, <1>12, <1>13, <1>14

LEMMA SeccompOrder ==
  ASSUME OrderlyHandlers, OrderInv, SeccompEvent
  PROVE  Shape' /\ Fifo'
<1> DEFINE first == ~global.detected
           after == IF first THEN ~IsInSysenter(t) ELSE global.afterEnter
           tr    == IF first THEN [Prepared EXCEPT !.seccomp = "ENABLED"] ELSE Prepared
           translated == /\ IsInSysenter(t) /\ ~t.chain.live /\ tr.seccomp = "ENABLED"
                         /\ after \/ ~(k.call.nr \in ExitFlag \/ SysexitNecessary(t))
           n     == IF translated THEN 1 + h.entered ELSE h.entered
<1>1. /\ IInv /\ Prepared \in Handled /\ k.pos = "seccomp" /\ h \in Histories /\ k.call.nr \in Numbers
      /\ host.new \in BOOLEAN /\ k.mode \in {"CONT", "SYSCALL"} /\ global.detected \in BOOLEAN
      /\ t.seccomp \in {"DISABLED", "DISABLING", "ENABLED"} /\ IsInSysenter(t) \in BOOLEAN
  BY AtStop, StagesAssumption
     DEF OrderInv, SeccompEvent, IInv, TypeOK, Kernels, HostTraits, Tracees, IsInSysenter
<1>2. /\ IsInSysenter(t) /\ host.new => k.mode = "CONT" /\ t.seccomp = "ENABLED"
      /\ ~IsInSysenter(t) => host.new
      /\ k.mode = t.last
  BY <1>1 DEF OrderInv, Staged, Followed, AtUser, EntryAhead
<1>3. after = host.new
  BY <1>1, <1>2 DEF OrderInv, OrderKnown
<1>4. /\ Detected(tr) /\ (IsInSysenter(t) /\ host.new => tr.seccomp = "ENABLED")
  <2> DEFINE u == [Prepared EXCEPT !.seccomp = "ENABLED"]
  <2>1. /\ u \in Handled /\ u.seccomp = "ENABLED" /\ u.last = Prepared.last /\ u.how = Prepared.how
        /\ u.status = Prepared.status /\ u.pending = Prepared.pending /\ u.restore = Prepared.restore
        /\ u.handled = Prepared.handled /\ u.chain = Prepared.chain /\ u.wa = Prepared.wa
    BY <1>1 DEF Handled, Tracees
  <2>2. tr = IF first THEN u ELSE Prepared
    OBVIOUS
  <2> HIDE DEF u, tr, first
  <2> QED  BY <1>1, <1>2, <2>1, <2>2, PreparedFields DEF Detected
<1>5. /\ global' = [detected |-> TRUE, afterEnter |-> after]
      /\ \E o \in EnterOutcomes(k.call.nr) :
           /\ Restart(HandleSeccompEvent(tr, after, k.call.nr, o), "gate")
           /\ h' = [h EXCEPT !.entered = IF translated THEN 1 + @ ELSE @]
      /\ host' = host
  BY DEF SeccompEvent
<1>6. PICK o \in EnterOutcomes(k.call.nr) :
           /\ Restart(HandleSeccompEvent(tr, after, k.call.nr, o), "gate")
           /\ h' = [h EXCEPT !.entered = n]
  BY <1>5
<1>7. translated <=> /\ IsInSysenter(t) /\ ~t.chain.live /\ tr.seccomp = "ENABLED"
                     /\ after \/ ~(k.call.nr \in ExitFlag \/ SysexitNecessary(t))
  OBVIOUS
<1>8. global'.detected /\ global'.afterEnter = host.new
  BY <1>3, <1>5
<1>9. /\ translated => n = 1 + h.entered
      /\ ~translated => n = h.entered
  OBVIOUS
<1> HIDE DEF first, after, tr, translated, n
<1>10. /\ h'.nr = h.nr /\ h'.entered = n /\ h'.exited = h.exited
       /\ h'.registered = h.registered /\ h'.ran = h.ran /\ (~translated => h' = h)
  BY <1>1, <1>6, <1>9 DEF Histories
<1> DEFINE r == HandleSeccompEvent(tr, after, k.call.nr, o)
<1>11. Resumes(r, "gate")
  <2>1. GoodOutcome(r)
    BY <1>1, <1>3, <1>4, SeccompOutcome DEF Detected
  <2> HIDE DEF r
  <2>2. Restart(r, "gate")
    BY <1>6 DEF r
  <2> QED  BY <1>1, <2>1, <2>2, RestartFields
<1>12. /\ translated => SeccompTranslated(r)
       /\ ~translated => SeccompKept(r)
  <2> HIDE DEF r
  <2>1. r = HandleSeccompEvent(tr, after, k.call.nr, o)
    BY DEF r
  <2> QED  BY <1>1, <1>3, <1>4, <1>7, <2>1, SeccompHandled
<1> HIDE DEF r
<1>13. CASE translated
  BY <1>1, <1>5, <1>8, <1>9, <1>10, <1>11, <1>12, <1>13, SeccompTranslatedOrder
<1>14. CASE ~translated
  BY <1>1, <1>5, <1>8, <1>10, <1>11, <1>12, <1>14, SeccompKeptOrder
<1> QED  BY <1>13, <1>14

LEMMA RefusedFields ==
  ASSUME NEW tr \in Handled, NEW restarts \in BOOLEAN, NEW r, r = HandleRefused(tr, restarts)
  PROVE  /\ IsInSysenter(r.t) /\ r.t.seccomp = tr.seccomp /\ r.t.pending = tr.pending
         /\ r.t.handled = tr.handled /\ r.t.chain = tr.chain /\ r.t.wa = tr.wa
         /\ restarts => /\ r.t.restore /\ r.t.how = "SYSCALL" /\ r.queue = Call("restart", RestartedAs)
         /\ ~restarts => /\ r.t.restore = tr.restore /\ r.t.how = tr.how /\ r.queue = NoCall
<1> DEFINE u == [tr EXCEPT !.status = 0]
           v == [u EXCEPT !.restore = TRUE, !.how = "SYSCALL"]
<1>1. /\ u \in Handled /\ u.status = 0 /\ u.seccomp = tr.seccomp /\ u.pending = tr.pending
      /\ u.handled = tr.handled /\ u.chain = tr.chain /\ u.wa = tr.wa
      /\ u.restore = tr.restore /\ u.how = tr.how
  BY DEF Handled, Tracees
<1> HIDE DEF u
<1>2. /\ v.status = 0 /\ v.seccomp = tr.seccomp /\ v.pending = tr.pending
      /\ v.handled = tr.handled /\ v.chain = tr.chain /\ v.wa = tr.wa
      /\ v.restore /\ v.how = "SYSCALL"
  BY <1>1 DEF Handled, Tracees
<1>3. r = IF restarts THEN [t |-> v, queue |-> Call("restart", RestartedAs)]
          ELSE [t |-> u, queue |-> NoCall]
  BY DEF HandleRefused, u
<1> HIDE DEF v
<1> QED  BY <1>1, <1>2, <1>3 DEF IsInSysenter

\* A program that is about to run, with nothing left of the last syscall but its restart.
LEMMA RestedOrder ==
  ASSUME OrderInv, host' = host, global' = global,
         k'.pos = "user", ~k'.sigsys, k'.mode = t'.last, IsInSysenter(t'), ~t'.handled,
         t'.seccomp # "DISABLING", t'.seccomp = "ENABLED" => t.seccomp = "ENABLED",
         ~t'.chain.live, t'.chain.calls = <<>>, t'.wa = "INACTIVE",
         k'.mode = "CONT" => t'.seccomp = "ENABLED" /\ ~t'.pending /\ ~t'.restore /\ k'.queue = NoCall,
         \/ k'.queue = NoCall /\ ~t'.restore
         \/ k'.queue = Call("restart", RestartedAs) /\ t'.restore,
         h'.registered = h'.ran, h'.ran \in Seq(Numbers),
         h'.nr \in ExitFlag /\ h'.entered = 1 => h'.exited = 1
  PROVE  Shape' /\ Fifo'
<1>1. KernelPlaces' /\ OrderKnown' /\ Followed'
  BY DEF OrderInv, KernelPlaces, OrderKnown, Followed, AtUser
<1>2. Staged' /\ Refused'
  BY DEF Staged, Refused, AtUser, EntryAhead
<1>3. QueueKinds'
  <2>1. Call("restart", RestartedAs) # NoCall /\ <<>> \in Seq(Chained)
    BY EmptySeq DEF Call, NoCall
  <2> QED  BY <2>1 DEF QueueKinds, AtUser
<1>4. CallKinds' /\ Counted'
  BY DEF CallKinds, Counted, AtUser
<1>5. Fifo'
  <2>1. k'.queue.src # "chain"
    BY DEF NoCall, Call
  <2>2. h'.ran = h'.ran \o <<>> \o <<>> \o <<>>
    BY ConcatEmptySeq
  <2> QED  BY <2>1, <2>2 DEF Fifo
<1> QED  BY <1>1, <1>2, <1>3, <1>4, <1>5 DEF Shape

\* SIGSYS after the exit of the refused syscall was handled, or never to be.
LEMMA SigSysOrder ==
  ASSUME OrderlyHandlers, OrderInv, Spared, SigSysEvent
  PROVE  Shape' /\ Fifo'
<1>1. /\ IInv /\ Prepared \in Handled /\ k.pos = "sigsys" /\ h \in Histories /\ k.call.nr \in Numbers
      /\ k.call \in Calls /\ k.queue \in Calls /\ Announced(Prepared, k.queue)
      /\ host.new \in BOOLEAN /\ k.mode \in {"CONT", "SYSCALL"} /\ MaxChain - Len(h.registered) \in Int
      /\ t.seccomp \in {"DISABLED", "DISABLING", "ENABLED"} /\ IsInSysenter(t) \in BOOLEAN
      /\ k.sigsys \in BOOLEAN /\ t.wa \in {"INACTIVE", "FAULTY", "REPLACED"} /\ AtUser
  BY AtStop, StagesAssumption
     DEF OrderInv, SigSysEvent, IInv, TypeOK, Kernels, HostTraits, Tracees, IsInSysenter, Histories, AtUser
<1>2. /\ ~k.sigsys /\ ~t.handled /\ t.seccomp # "DISABLING"
      /\ host.policy /\ k.call.nr \in Traps \cup {Void}
      /\ k.queue # NoCall => host.new /\ k.call.nr = Void /\ IsInSysenter(t)
      /\ ~IsInSysenter(t) => host.skip /\ host.new /\ k.call.nr \in {h.nr, Void} /\ ~t.chain.live
      /\ host.new => global.afterEnter
  BY <1>1 DEF OrderInv, Refused, Staged, Followed, OrderKnown, QueueKinds
<1>3. PICK restarts \in BOOLEAN, o \in ExitOutcomes(h.nr, MaxChain - Len(h.registered)) :
        LET r == HandleSigSys(Prepared, k.call.nr, o, restarts) IN
        /\ (IsInSysenter(t) \/ t.wa = "FAULTY") => o.chain = <<>>
        /\ ~o.again
        /\ Restart(r, "user")
        /\ h' = [h EXCEPT !.exited = IF ~IsInSysenter(t) /\ Requested(t) THEN 1 + @ ELSE @,
                          !.registered = @ \o o.chain]
  BY DEF SigSysEvent
<1> DEFINE r == HandleSigSys(Prepared, k.call.nr, o, restarts)
           x == IF IsInSysenter(Prepared) THEN [t |-> Prepared, queue |-> k.queue]
                ELSE TranslateExit(Prepared, o)
           f == HandleRefused(x.t, restarts)
           y == [x.t EXCEPT !.skip = FALSE]
           kept == Prepared.skip \/ (global.afterEnter /\ k.call.nr = Void)
           n == IF ~IsInSysenter(t) /\ Requested(t) THEN 1 + h.exited ELSE h.exited
<1>4. /\ o.chain \in Seq(Numbers) /\ o.pend \in BOOLEAN /\ o.disable \in BOOLEAN /\ o.again \in BOOLEAN
      /\ Leaving(o) /\ ~o.again /\ (IsInSysenter(t) => o.chain = <<>>)
  <2>1. o.chain \in Seq(Numbers) /\ o.pend \in BOOLEAN /\ o.disable \in BOOLEAN /\ o.again \in BOOLEAN
    BY <1>1, ExitOutcomesType
  <2>2. /\ o.chain \in Seq(Chained) /\ (o.chain # <<>> => h.nr \in Chains)
        /\ (o.disable => h.nr \in Disabling) /\ (o.again => h.nr \in Again)
    BY <1>1, ExitChain
  <2> QED  BY <1>3, <2>1, <2>2 DEF Leaving
<1>5. Resumes(r, "user")
  <2>1. GoodOutcome(r)
    BY <1>1, <1>4, SigSysOutcome
  <2> HIDE DEF r
  <2>2. Restart(r, "user")
    BY <1>3 DEF r
  <2> QED  BY <1>1, <2>1, <2>2, RestartFields
<1>6. /\ host' = host /\ global' = global
      /\ h'.nr = h.nr /\ h'.entered = h.entered /\ h'.exited = n
      /\ h'.registered = h.registered \o o.chain /\ h'.ran = h.ran
  <2>1. h' = [h EXCEPT !.exited = n, !.registered = @ \o o.chain]
    BY <1>3
  <2> HIDE DEF n
  <2> QED  BY <1>1, <2>1 DEF Histories, SigSysEvent
<1>7. r = IF kept THEN Outcome(y, k.call.nr, x.queue, NoSignal)
          ELSE Outcome(f.t, k.call.nr, f.queue, NoSignal)
  BY Zenon DEF HandleSigSys
<1>8. /\ kept => r.t = y /\ r.nr = k.call.nr /\ r.queue = x.queue
      /\ ~kept => r.t = f.t /\ r.nr = k.call.nr /\ r.queue = f.queue
  <2> HIDE DEF kept, y, x, f, r
  <2> QED  BY <1>7 DEF Outcome
<1>9. ~kept => k.call.nr # Void \/ ~host.new
  BY <1>2
<1>10. /\ Prepared.seccomp = t.seccomp /\ Prepared.pending = t.pending /\ Prepared.restore = t.restore
       /\ Prepared.handled = t.handled /\ Prepared.chain = t.chain /\ Prepared.wa = t.wa
       /\ Prepared.status = t.status
       /\ Prepared.how = IF t.seccomp = "ENABLED" /\ ~t.pending /\ ~t.chain.live /\ ~t.restore
                         THEN "CONT" ELSE "SYSCALL"
       /\ IsInSysenter(Prepared) <=> IsInSysenter(t)
  BY <1>1, AtStop, PreparedFields
<1>11. h.ran \in Seq(Numbers) /\ h.registered \in Seq(Numbers)
  BY <1>1 DEF Histories
<1>12. k.queue.src # "chain" => h.registered = h.ran \o (IF t.wa = "FAULTY" THEN <<>> ELSE t.chain.calls)
  <2> DEFINE rest == IF t.wa = "FAULTY" THEN <<>> ELSE t.chain.calls
  <2>1. k.queue.src # "chain" => h.registered = h.ran \o <<>> \o <<>> \o rest
    BY <1>1 DEF OrderInv, Fifo
  <2>2. h.ran \o <<>> \o <<>> = h.ran
    BY <1>11
  <2> HIDE DEF rest
  <2>3. k.queue.src # "chain" => h.registered = h.ran \o rest
    BY <2>1, <2>2
  <2> QED  BY <2>3 DEF rest
<1>13. k.queue = NoCall => k.queue.src # "chain"
  BY DEF NoCall
<1> HIDE DEF kept, r
\* The exit was handled at its own stop, or its entry was the last one followed.
<1>14. CASE IsInSysenter(t)
  <2>1. x.t = Prepared /\ x.queue = k.queue /\ n = h.exited /\ o.chain = <<>>
    BY <1>4, <1>10, <1>14
  <2>2. h.registered \o <<>> = h.registered
    BY <1>11, ConcatFacts, EmptySeq
  <2>3. /\ h'.nr = h.nr /\ h'.entered = h.entered /\ h'.exited = h.exited
        /\ h'.registered = h.registered /\ h'.ran = h.ran
    BY <1>6, <2>1, <2>2
  <2> HIDE DEF x, n
  <2>4. CASE kept
    <3>1. y.how = Prepared.how /\ Alike(y, Prepared)
      BY <1>1, <2>1 DEF Handled, Tracees, Alike
    <3> HIDE DEF y
    <3>2. /\ k'.pos = "user" /\ k'.gates = k.gates /\ k'.sigsys = k.sigsys /\ k'.mode = Prepared.how
          /\ k'.call.src = k.call.src /\ k'.call.nr = k.call.nr /\ k'.queue = k.queue
          /\ t'.status = t.status /\ t'.seccomp = t.seccomp /\ t'.pending = t.pending
          /\ t'.restore = t.restore /\ t'.handled = t.handled /\ t'.chain = t.chain /\ t'.wa = t.wa
          /\ t'.last = k'.mode
      BY <1>5, <1>8, <1>10, <2>1, <2>4, <3>1 DEF Resumes, Alike
    <3>3. KernelPlaces' /\ OrderKnown'
      BY <1>6, <3>2 DEF OrderInv, KernelPlaces, OrderKnown
    <3>4. Followed' /\ Staged' /\ Refused'
      BY <1>1, <1>2, <1>6, <1>10, <1>14, <3>2
         DEF OrderInv, Followed, Staged, Refused, QueueKinds, AtUser, EntryAhead, IsInSysenter
    <3>5. QueueKinds' /\ CallKinds' /\ Counted'
      BY <1>1, <1>2, <1>14, <2>3, <3>2
         DEF OrderInv, QueueKinds, CallKinds, Counted, AtUser, EntryAhead, FilterAhead, IsInSysenter
    <3>6. Fifo'
      BY <1>1, <2>3, <3>2 DEF OrderInv, Fifo
    <3> QED  BY <3>3, <3>4, <3>5, <3>6 DEF Shape
  <2>5. CASE ~kept
    <3>1. k.queue = NoCall
      BY <1>2, <1>9, <2>5
    <3>2. /\ ~t.chain.live /\ ~t.restore /\ t.chain.calls = <<>> /\ t.wa = "INACTIVE"
      BY <1>1, <1>14, <3>1 DEF OrderInv, QueueKinds
    <3>3. h.registered = h.ran
      BY <1>11, <1>12, <1>13, <3>1, <3>2, ConcatFacts, EmptySeq
    <3>4. h.nr \in ExitFlag /\ h.entered = 1 => h.exited = 1
      BY <1>1, <1>14, <3>2 DEF OrderInv, Counted
    <3>5. /\ IsInSysenter(f.t) /\ f.t.seccomp = t.seccomp /\ f.t.pending = t.pending
          /\ f.t.handled = t.handled /\ f.t.chain = t.chain /\ f.t.wa = t.wa
          /\ restarts => /\ f.t.restore /\ f.t.how = "SYSCALL" /\ f.queue = Call("restart", RestartedAs)
          /\ ~restarts => /\ f.t.restore = t.restore /\ f.t.how = Prepared.how /\ f.queue = NoCall
      <4> HIDE DEF f
      <4>1. f = HandleRefused(Prepared, restarts)
        BY <2>1 DEF f
      <4> QED  BY <1>1, <1>10, <4>1, RefusedFields
    <3> HIDE DEF f
    <3>6. /\ k'.pos = "user" /\ k'.sigsys = k.sigsys /\ k'.mode = f.t.how /\ k'.queue = f.queue
          /\ t'.status = f.t.status /\ t'.seccomp = t.seccomp /\ t'.pending = t.pending
          /\ t'.restore = f.t.restore /\ t'.handled = t.handled /\ t'.chain = t.chain /\ t'.wa = t.wa
          /\ t'.last = k'.mode /\ IsInSysenter(t')
      BY <1>5, <1>8, <2>5, <3>5 DEF Resumes, Alike, IsInSysenter
    <3> QED  BY <1>2, <1>6, <1>10, <1>11, <2>3, <3>2, <3>3, <3>4, <3>5, <3>6, RestedOrder
  <2> QED  BY <2>4, <2>5
\* The kernel has skipped the exit stop: the exit is handled here.
<1>15. CASE ~IsInSysenter(t)
  <2>1. /\ k.queue = NoCall /\ t.chain.calls = <<>> /\ t.wa = "INACTIVE" /\ Requested(t)
        /\ h.entered = 1 /\ h.exited = 0 /\ n = 1 + h.exited /\ ~o.disable
    BY <1>1, <1>2, <1>4, <1>15 DEF OrderInv, QueueKinds, Counted, Requested, Spared, Leaving
  <2>2. Leavable
    BY <1>12, <1>13, <2>1 DEF Leavable
  <2>3. x.t \in Handled
    BY <1>1, <1>4, <1>10, <1>15, TranslateExitType
  <2>4. /\ Left(o, x.t, x.queue, t.chain.calls \o o.chain)
        /\ x.t.seccomp = "ENABLED" => t.seccomp = "ENABLED"
        /\ x.t.seccomp = "DISABLING" => t.seccomp = "DISABLING" \/ o.disable
        /\ t.seccomp = "ENABLED" => x.t.seccomp \in {"ENABLED", "DISABLING"}
        /\ x.t.how = "CONT" => /\ Prepared.how = "CONT" /\ x.queue = NoCall
                               /\ x.t.chain = NoChain /\ ~x.t.restore
                               /\ x.t.pending = t.pending
        /\ x.t.how \in {"CONT", "SYSCALL"}
    <3>1. x = TranslateExit(Prepared, o)
      BY <1>10, <1>15
    <3> HIDE DEF x
    <3> QED  BY <1>1, <1>2, <1>4, <1>10, <3>1, ExitLeft
  <2> HIDE DEF x, n
  <2>5. CASE kept
    <3>1. Alike(y, x.t) /\ y.how = x.t.how
      BY <2>3 DEF Handled, Tracees, Alike
    <3> HIDE DEF y
    <3>2. /\ k'.pos = "user" /\ k'.gates = k.gates /\ k'.sigsys = k.sigsys /\ k'.mode = x.t.how
          /\ k'.call.src = k.call.src /\ k'.call.nr = k.call.nr /\ k'.queue = x.queue
          /\ Alike(t', x.t) /\ t'.last = k'.mode
      BY <1>5, <1>8, <2>5, <3>1 DEF Resumes, Alike
    <3>3. Staged' /\ QueueKinds' /\ CallKinds' /\ Counted' /\ Fifo'
      <4> DEFINE q == t.chain.calls \o o.chain
      <4>1. Left(o, x.t, x.queue, q) /\ q = t.chain.calls \o o.chain
        BY <2>4
      <4>2. h'.exited = IF t.wa # "FAULTY" /\ Requested(t) THEN 1 + h.exited ELSE h.exited
        BY <1>6, <2>1
      <4> HIDE DEF q
      <4> QED  BY <1>4, <1>6, <2>2, <3>2, <4>1, <4>2, LeftInOrder
    <3>4. KernelPlaces' /\ OrderKnown'
      BY <1>6, <2>4, <3>2 DEF OrderInv, KernelPlaces, OrderKnown, Alike
    <3>5. Followed'
      <4>1. /\ t'.seccomp = x.t.seccomp /\ t'.pending = x.t.pending /\ t'.restore = x.t.restore
            /\ t'.chain = x.t.chain /\ IsInSysenter(t')
        BY <2>4, <3>2 DEF Alike, Left, IsInSysenter
      <4>2. NoChain.live = FALSE
        BY DEF NoChain
      <4> QED  BY <1>2, <1>10, <2>1, <2>4, <3>2, <4>1, <4>2 DEF Followed, AtUser
    <3>6. Refused'
      BY <1>2, <3>2 DEF Refused
    <3> QED  BY <3>3, <3>4, <3>5, <3>6 DEF Shape
  <2>6. CASE ~kept
    <3>1. o.chain = <<>>
      BY <1>2, <1>4, <1>9, <1>15, <2>6 DEF Leaving, OrderlyHandlers
    <3>2. /\ x.queue = NoCall /\ x.t.chain = NoChain /\ ~x.t.restore /\ x.t.wa = "INACTIVE" /\ ~x.t.handled
      <4> DEFINE q == t.chain.calls \o o.chain
      <4>1. q = <<>>
        BY <2>1, <3>1, ConcatEmptySeq
      <4>2. Left(o, x.t, x.queue, q)
        BY <2>4
      <4> HIDE DEF q
      <4> QED  BY <1>4, <2>1, <4>1, <4>2 DEF Left
    <3>3. /\ IsInSysenter(f.t) /\ f.t.seccomp = x.t.seccomp /\ f.t.pending = x.t.pending
          /\ ~f.t.handled /\ f.t.chain = NoChain /\ f.t.wa = "INACTIVE"
          /\ restarts => /\ f.t.restore /\ f.t.how = "SYSCALL" /\ f.queue = Call("restart", RestartedAs)
          /\ ~restarts => /\ ~f.t.restore /\ f.t.how = x.t.how /\ f.queue = NoCall
      <4> HIDE DEF f
      <4>1. f = HandleRefused(x.t, restarts)
        BY DEF f
      <4> QED  BY <2>3, <3>2, <4>1, RefusedFields
    <3> HIDE DEF f
    <3>4. /\ k'.pos = "user" /\ k'.sigsys = k.sigsys /\ k'.mode = f.t.how /\ k'.queue = f.queue
          /\ t'.seccomp = f.t.seccomp /\ t'.pending = f.t.pending
          /\ t'.restore = f.t.restore /\ t'.handled = f.t.handled /\ t'.chain = f.t.chain /\ t'.wa = f.t.wa
          /\ t'.last = k'.mode /\ IsInSysenter(t')
      BY <1>5, <1>8, <2>6, <3>3 DEF Resumes, Alike, IsInSysenter
    <3>5. ~NoChain.live /\ NoChain.calls = <<>>
      BY DEF NoChain
    <3>6. h'.registered = h'.ran /\ h'.ran \in Seq(Numbers) /\ h'.exited = 1
      <4>1. h.registered = h.ran
        BY <1>11, <1>12, <1>13, <2>1, ConcatFacts, EmptySeq
      <4>2. h.registered \o <<>> = h.registered
        BY <1>11, ConcatFacts, EmptySeq
      <4> QED  BY <1>6, <1>11, <2>1, <3>1, <4>1, <4>2
    <3>7. x.t.how = "CONT" => x.t.seccomp = "ENABLED" /\ ~x.t.pending
      BY <1>2, <1>10, <2>1, <2>4
    <3> QED  BY <1>2, <1>6, <2>1, <2>4, <3>3, <3>4, <3>5, <3>6, <3>7, RestedOrder
  <2> QED  BY <2>5, <2>6
<1> QED  BY <1>1, <1>14, <1>15

-----------------------------------------------------------------------------
(* The invariant holds of every state                                      *)

LEMMA InitOrder == Init => OrderInv
<1> SUFFICES ASSUME Init PROVE OrderInv
  OBVIOUS
<1>1. IInv /\ host.new \in BOOLEAN
  BY InitIInv, StagesAssumption DEF IInv, TypeOK, HostTraits
<1>2. /\ t.status = 0 /\ t.seccomp = "DISABLED" /\ ~t.pending /\ t.last = "SYSCALL" /\ ~t.handled
      /\ ~t.restore /\ ~t.chain.live /\ t.chain.calls = <<>> /\ t.wa = "INACTIVE"
      /\ k.pos = "gate" /\ k.mode = "SYSCALL" /\ k.gates = Gates /\ k.queue = NoCall /\ ~k.sigsys
      /\ k.call.src = "program" /\ k.call.nr = Launch /\ NoCall.src # "chain"
      /\ h.nr = Launch /\ h.entered = 0 /\ h.exited = 0 /\ h.registered = <<>> /\ h.ran = <<>>
      /\ ~global.detected /\ global.afterEnter = (host.new /\ host.policy)
  BY DEF Init, NoChain, NoCall, Call
<1>3. IsInSysenter(t)
  BY <1>2 DEF IsInSysenter
<1>4. KernelPlaces /\ OrderKnown /\ Followed
  BY <1>1, <1>2, <1>3 DEF KernelPlaces, OrderKnown, Followed, AtUser, Gates
<1>5. Staged /\ Refused
  BY <1>1, <1>2, <1>3, GateWalk DEF Staged, Refused, AtUser, EntryAhead, Gates
<1>6. QueueKinds
  BY <1>2, EmptySeq DEF QueueKinds, AtUser
<1>7. CallKinds /\ Counted
  BY <1>1, <1>2, <1>3, GateWalk DEF CallKinds, Counted, AtUser, OfProgram, EntryAhead, FilterAhead, Gates
<1>8. Fifo
  BY <1>2, ConcatEmptySeq DEF Fifo
<1> QED  BY <1>1, <1>4, <1>5, <1>6, <1>7, <1>8 DEF OrderInv

LEMMA OrderNext ==
  ASSUME OrderlyHandlers, OrderInv, Spared, [Next]_vars
  PROVE  OrderInv'
<1>1. IInv'
  BY NextStep DEF OrderInv
<1>2. CASE \E nr \in Syscalls : ProgramCall(nr)
  BY <1>1, <1>2, ProgramCallOrder DEF OrderInv, Shape
<1>3. CASE QueuedCall
  BY <1>1, <1>3, QueuedCallOrder DEF OrderInv, Shape
<1>4. CASE EntryGate
  BY <1>1, <1>4, EntryGateOrder DEF OrderInv, Shape
<1>5. CASE FilterGate
  BY <1>1, <1>5, FilterGateOrder DEF OrderInv, Shape
<1>6. CASE Execute
  BY <1>1, <1>6, ExecuteOrder DEF OrderInv, Shape
<1>7. CASE ExitGate \/ SigSysStop \/ SignalStop
  BY <1>1, <1>7, KernelOrder DEF OrderInv, Shape
<1>8. CASE SysenterStage
  BY <1>1, <1>8, SysenterOrder DEF OrderInv, Shape
<1>9. CASE SysexitStage
  BY <1>1, <1>9, SysexitOrder DEF OrderInv, Shape
<1>10. CASE SeccompEvent
  BY <1>1, <1>10, SeccompOrder DEF OrderInv, Shape
<1>11. CASE SigSysEvent
  BY <1>1, <1>11, SigSysOrder DEF OrderInv, Shape
<1>12. CASE SignalEvent
  BY <1>1, <1>12, SignalOrder DEF OrderInv, Shape
<1>13. CASE ExecEvent \/ ForkEvent
  BY <1>1, <1>13, EventOrder DEF OrderInv, Shape
<1>14. CASE BareSignalEvent
  BY <1>1, <1>14, BareSignalOrder DEF OrderInv, Shape
<1>15. CASE UNCHANGED vars
  <2>1. host' = host /\ global' = global /\ t' = t /\ k' = k /\ h' = h
    BY <1>15 DEF vars
  <2>2. KernelPlaces' /\ OrderKnown' /\ Followed' /\ Staged' /\ Refused'
    BY <2>1 DEF OrderInv, KernelPlaces, OrderKnown, Followed, Staged, Refused, AtUser, EntryAhead, OfProgram
  <2>3. QueueKinds' /\ CallKinds' /\ Counted' /\ Fifo'
    BY <2>1 DEF OrderInv, QueueKinds, CallKinds, Counted, Fifo, AtUser, EntryAhead, FilterAhead, OfProgram
  <2> QED  BY <1>1, <2>2, <2>3 DEF OrderInv
<1> QED  BY <1>2, <1>3, <1>4, <1>5, <1>6, <1>7, <1>8, <1>9, <1>10, <1>11, <1>12, <1>13, <1>14, <1>15
            DEF Next, Kernel, Tracer

-----------------------------------------------------------------------------
(* What the invariant says of the program                                  *)

LEMMA OrderHandles == OrderInv => HandledOnce
<1> SUFFICES ASSUME OrderInv PROVE HandledOnce
  OBVIOUS
<1>1. k.mode \in {"CONT", "SYSCALL"}
  BY DEF OrderInv, IInv, TypeOK, Kernels
<1>2. Confined
  BY <1>1, GateWalk DEF Confined, OrderInv, Staged, Counted, CallKinds, AtUser, OfProgram, EntryAhead, FilterAhead
<1>3. ExitHandled
  BY <1>1 DEF ExitHandled, OrderInv, Staged, Counted, QueueKinds, AtUser
<1> QED  BY <1>2, <1>3 DEF HandledOnce

LEMMA OrderSteps == OrderInv => ChainsInStep
  BY DEF OrderInv, ChainsInStep, InStep, ChainTriggered, Staged, QueueKinds, AtUser

LEMMA OrderFollows == OrderInv => FollowedAsDecided
<1> SUFFICES ASSUME OrderInv PROVE FollowedAsDecided
  OBVIOUS
<1>1. k.mode \in {"CONT", "SYSCALL"} /\ host.new \in BOOLEAN
  BY StagesAssumption DEF OrderInv, IInv, TypeOK, Kernels, HostTraits
<1>2. AssertionsHold
  BY <1>1, GateWalk DEF AssertionsHold, OrderInv, OrderKnown, Staged, Followed, KernelPlaces, AtUser, EntryAhead
<1>3. FollowedOnceDisabled
  BY <1>1 DEF FollowedOnceDisabled, OrderInv, Followed
<1> QED  BY <1>2, <1>3 DEF FollowedAsDecided

\* Whatever acceleration, order of the stops, chains, restarts, refusals and signals lie
\* in between, a filtered syscall is translated once before the kernel executes it, and
\* its exit is handled once before the program goes on (tracee/event.c:467-682).
THEOREM EachHandledOnce ==
  ASSUME OrderlyHandlers
  PROVE  Spec /\ []Spared => []HandledOnce
<1>1. Init => OrderInv
  BY InitOrder
<1>2. OrderInv /\ Spared /\ [Next]_vars => OrderInv'
  BY OrderNext
<1>3. OrderInv => HandledOnce
  BY OrderHandles
<1> QED  BY <1>1, <1>2, <1>3, PTL DEF Spec

\* The next stop of a running program is an entry, nothing is left of a chain or of a
\* restart by then, and chained syscalls run once each in the order they were registered
\* (tracee/tracee.h:139-147, syscall/chain.c:79-153).
THEOREM AlwaysInStep ==
  ASSUME OrderlyHandlers
  PROVE  Spec /\ []Spared => []ChainsInStep
<1>1. Init => OrderInv
  BY InitOrder
<1>2. OrderInv /\ Spared /\ [Next]_vars => OrderInv'
  BY OrderNext
<1>3. OrderInv => ChainsInStep
  BY OrderSteps
<1> QED  BY <1>1, <1>2, <1>3, PTL DEF Spec

\* The assertions of handle_tracee_event() never fail, and a tracee that is no longer
\* accelerated is stopped at each syscall (tracee/event.c:526, 527, 532, 576, 580, 612).
THEOREM AlwaysFollowed ==
  ASSUME OrderlyHandlers
  PROVE  Spec /\ []Spared => []FollowedAsDecided
<1>1. Init => OrderInv
  BY InitOrder
<1>2. OrderInv /\ Spared /\ [Next]_vars => OrderInv'
  BY OrderNext
<1>3. OrderInv => FollowedAsDecided
  BY OrderFollows
<1> QED  BY <1>1, <1>2, <1>3, PTL DEF Spec

=============================================================================
