---------------------------- MODULE SessionProofs ----------------------------
(***************************************************************************)
(* Proofs about SessionTurns for any paths, gates and numbers of threads and *)
(* turns.                                                                   *)
(*                                                                         *)
(* The lemmas named ...Does say what an action does to the fields the         *)
(* invariants are about; each invariant is then shown to be kept by them.     *)
(***************************************************************************)
EXTENDS SessionTurns, FiniteSetTheorems, TLAPS

\* What a bag that has been changed by a step keeps of the old one.
SameHitl(new, old) == new.decided = old.decided /\ new.resume_at = old.resume_at
SameRest(new, old) == /\ new.messages = old.messages /\ new.user = old.user
                      /\ new.mode = old.mode /\ new.initialized = old.initialized
                      /\ new.thread = old.thread
-----------------------------------------------------------------------------
(* The functions on bags. *)

LEMMA EmptyIsBag == EmptyBag \in Bag
<1>1. [k \in Outputs |-> Unset] \in [Outputs -> Turns \cup {Unset}]
  OBVIOUS
<1>2. <<>> \in Seq(Message)
  OBVIOUS
<1>3. FALSE \in BOOLEAN /\ {} \in SUBSET Gates
  OBVIOUS
<1> QED BY <1>1, <1>2, <1>3, Zenon DEF EmptyBag, Bag

LEMMA LoadedIsBag ==
  ASSUME TypeOK, NEW th \in Threads
  PROVE  Loaded(th) \in Bag /\ (ckpt[th] # Unset => Loaded(th) = ckpt[th])
BY EmptyIsBag DEF TypeOK, Loaded

LEMMA AppendedMessages ==
  ASSUME NEW ms \in Seq(Message), NEW role \in {"user", "assistant"},
         NEW text \in Turns \cup {Unset}, NEW t \in Turns
  PROVE  /\ AppendMessage(ms, role, text, t) \in Seq(Message)
         /\ text # Unset => AppendMessage(ms, role, text, t) =
                              Append(ms, [role |-> role, text |-> text, by |-> t])
         /\ text # Unset => [role |-> role, text |-> text, by |-> t] \in Message
<1>1. ASSUME text # Unset PROVE [role |-> role, text |-> text, by |-> t] \in Message
  BY <1>1 DEF Message
<1>2. CASE text = Unset
  BY <1>2 DEF AppendMessage
<1>3. CASE text # Unset
  BY <1>1, <1>3 DEF AppendMessage
<1> QED BY <1>1, <1>2, <1>3

LEMMA PreparedBag ==
  ASSUME NEW st \in Bag, NEW t \in Turns
  PROVE  LET p == Prepared(st, t)
             text == ExtractMessage(st)
         IN  /\ p \in Bag /\ p.mode \in Modes /\ text \in Turns \cup {Unset}
             /\ p.messages = AppendMessage(st.messages, "user", text, t)
             /\ p.user = IF text = Unset THEN st.user ELSE text
             /\ p.initialized = st.initialized /\ p.thread = st.thread
             /\ SameHitl(p, st)
<1>1. ExtractMessage(st) \in Turns \cup {Unset} /\ ResolveMode(st) \in Modes
  BY DEF ExtractMessage, ResolveMode, Bag, Modes
<1>2. AppendMessage(st.messages, "user", ExtractMessage(st), t) \in Seq(Message)
  BY <1>1, AppendedMessages DEF Bag
<1> DEFINE ms == AppendMessage(st.messages, "user", ExtractMessage(st), t)
           user == IF ExtractMessage(st) = Unset THEN st.user ELSE ExtractMessage(st)
<1>4. Prepared(st, t) = [st EXCEPT !.messages = ms, !.mode = ResolveMode(st), !.user = user]
  BY DEF Prepared, Bag
<1>5. user \in Turns \cup {Unset}
  BY <1>1 DEF Bag
<1> HIDE DEF ms, user
<1>6. ms \in Seq(Message)
  BY <1>2 DEF ms
<1>7. LET p == Prepared(st, t)
      IN  /\ p \in Bag /\ p.mode = ResolveMode(st) /\ p.messages = ms /\ p.user = user
          /\ p.initialized = st.initialized /\ p.thread = st.thread
          /\ p.decided = st.decided /\ p.resume_at = st.resume_at
  BY <1>1, <1>4, <1>5, <1>6 DEF Bag
<1> QED BY <1>1, <1>7 DEF SameHitl, ms, user

LEMMA AssistantTextType ==
  ASSUME NEW st \in Bag
  PROVE  AssistantText(st) \in Turns \cup {Unset}
<1> DEFINE set == {i \in DOMAIN OutKeys : st.out[OutKeys[i]] # Unset}
           first == CHOOSE i \in set : \A j \in set : i <= j
<1>1. DOMAIN OutKeys = 1..4
  BY DEF OutKeys
<1>2. ASSUME set # {} PROVE first \in set
  <2>1. \E i \in set : \A j \in set : i <= j
    <3>1. set \subseteq {1, 2, 3, 4}
      BY <1>1
    <3>2. CASE 1 \in set
      BY <3>1, <3>2
    <3>3. CASE 1 \notin set /\ 2 \in set
      BY <3>1, <3>3
    <3>4. CASE 1 \notin set /\ 2 \notin set /\ 3 \in set
      BY <3>1, <3>4
    <3>5. CASE 1 \notin set /\ 2 \notin set /\ 3 \notin set /\ 4 \in set
      BY <3>1, <3>5
    <3> HIDE DEF set
    <3> QED BY <1>2, <3>1, <3>2, <3>3, <3>4, <3>5
  <2> QED BY <2>1
<1>3. \A i \in DOMAIN OutKeys : st.out[OutKeys[i]] \in Turns \cup {Unset}
  BY DEF Bag, Outputs
<1> QED BY <1>2, <1>3 DEF AssistantText

LEMMA UpdatedBag ==
  ASSUME NEW stored \in Bag, NEW final \in Bag, NEW text \in Turns, NEW t \in Turns
  PROVE  LET u == Updated(stored, final, text, t)
         IN  /\ u \in Bag
             /\ u.messages = AppendMessage(final.messages, "assistant", text, t)
             /\ u.initialized = (stored.initialized \/ final.mode = "initialize")
             /\ u.thread = stored.thread /\ SameHitl(u, stored)
<1> DEFINE ms == AppendMessage(final.messages, "assistant", text, t)
           b == stored.initialized \/ final.mode = "initialize"
<1>2. Updated(stored, final, text, t) = [stored EXCEPT !.messages = ms, !.initialized = b]
  BY DEF Updated, Bag
<1>3. ms \in Seq(Message) /\ b \in BOOLEAN
  BY AppendedMessages DEF Bag
<1> HIDE DEF ms, b
<1>4. LET u == Updated(stored, final, text, t)
      IN  /\ u \in Bag /\ u.messages = ms /\ u.initialized = b
          /\ u.thread = stored.thread
          /\ u.decided = stored.decided /\ u.resume_at = stored.resume_at
  BY <1>2, <1>3 DEF Bag
<1> QED BY <1>4 DEF SameHitl, ms, b

LEMMA MergedBag ==
  ASSUME NEW old \in Bag, NEW new \in Bag
  PROVE  LET m == MergeBag(old, new)
         IN  /\ m \in Bag /\ m.messages = new.messages
             /\ m.user = Or(new.user, old.user)
             /\ m.initialized = (new.initialized \/ old.initialized)
             /\ m.thread = Or(new.thread, old.thread) /\ SameHitl(m, new)
<1> DEFINE out == [k \in Outputs |-> Or(new.out[k], old.out[k])]
<1>2. out \in [Outputs -> Turns \cup {Unset}]
  BY DEF Bag, Or
<1>3. /\ Or(new.user, old.user) \in Turns \cup {Unset}
      /\ Or(new.message, old.message) \in Turns \cup {Unset}
      /\ (new.initialized \/ old.initialized) \in BOOLEAN
      /\ Or(new.thread, old.thread) \in Threads \cup {Unset}
  BY DEF Bag, Or
<1>4. MergeBag(old, new) =
        [new EXCEPT !.user = Or(new.user, old.user), !.message = Or(new.message, old.message),
                    !.initialized = (new.initialized \/ old.initialized), !.out = out,
                    !.thread = Or(new.thread, old.thread)]
  BY DEF MergeBag, Bag
<1> HIDE DEF out
<1>5. LET m == MergeBag(old, new)
      IN  /\ m.messages = new.messages /\ m.user = Or(new.user, old.user)
          /\ m.initialized = (new.initialized \/ old.initialized)
          /\ m.thread = Or(new.thread, old.thread)
          /\ m.decided = new.decided /\ m.resume_at = new.resume_at
  BY <1>4 DEF Bag
<1>6. MergeBag(old, new) \in Bag
  BY <1>2, <1>3, <1>4 DEF Bag
<1> QED BY <1>5, <1>6 DEF SameHitl
-----------------------------------------------------------------------------
(* What a run, a pause and a checkpoint look like. *)

Placed(c) ==
  call[c].pc # "idle" =>
    /\ call[c].thread \in Threads /\ ckpt[call[c].thread] # Unset
    /\ call[c].st.thread \in {Unset, call[c].thread}

OnPath(c) ==
  /\ call[c].pc = "prepare" => call[c].at = 1
  /\ call[c].pc \in {"run", "record"} => call[c].st.mode \in Modes
  /\ call[c].pc = "run" => call[c].at \in 1..Len(Path[call[c].st.mode])
  /\ call[c].pc = "record" => call[c].at > Len(Path[call[c].st.mode])

WorksOn(c) ==
  /\ call[c].kind = "turn" => call[c].turn = c
  /\ call[c].kind = "resume" => call[call[c].turn].pc # "idle"

Shape ==
  /\ TypeOK
  /\ \A c \in Turns : call[c].pc = "idle" => call[c] = NoRun(c)
  /\ \A c \in Turns : Placed(c) /\ OnPath(c) /\ WorksOn(c)
  /\ \A t \in Turns : pauses[t] # Unset =>
       pauses[t].resume_at \in Gates /\ call[t].pc # "idle"
  /\ \A th \in Threads : ckpt[th] # Unset => ckpt[th].thread \in {Unset, th}

\* Only c's run changes, and it stays the run it was.
Changes(c) ==
  /\ call' \in [Turns -> Run] /\ call'[c].pc # "idle"
  /\ \A e \in Turns \ {c} : call'[e] = call[e]
Continues(c) ==
  /\ Changes(c) /\ call[c].pc # "idle"
  /\ call'[c].kind = call[c].kind /\ call'[c].turn = call[c].turn
  /\ call'[c].thread = call[c].thread

\* The checkpoint of c's thread becomes what c has in hand.
Stores(c) == ckpt' = [ckpt EXCEPT ![call'[c].thread] = call'[c].st]

LEMMA RunIsTyped ==
  ASSUME TypeOK, NEW c \in Turns
  PROVE  /\ call[c] \in Run /\ call[c].st \in Bag /\ call[c].turn \in Turns
         /\ call[c].pc \in PCs /\ call[c].kind \in {"turn", "resume"} /\ call[c].at \in Nat
BY DEF TypeOK, Run

\* A step that changes one run and leaves it, the checkpoints and the pauses well formed.
LEMMA ChangeKeepsShape ==
  ASSUME Shape, NEW c \in Turns, Changes(c),
         call'[c].thread \in Threads, call'[c].st.thread \in {Unset, call'[c].thread},
         OnPath(c)', call'[c].kind = "turn" => call'[c].turn = c,
         call'[c].kind = "resume" => call[call'[c].turn].pc # "idle",
         \/ Stores(c)
         \/ UNCHANGED ckpt /\ ckpt[call'[c].thread] # Unset
         \/ \E b \in Bag : /\ ckpt' = [ckpt EXCEPT ![call'[c].thread] = b]
                           /\ b.thread \in {Unset, call'[c].thread},
         \/ UNCHANGED pauses
         \/ \E t \in Turns : \E b \in Bag \cup {Unset} :
              /\ pauses' = [pauses EXCEPT ![t] = b]
              /\ b # Unset => b.resume_at \in Gates /\ call[t].pc # "idle"
  PROVE  Shape'
<1>1. \E b \in Bag \cup {Unset} :
        /\ ckpt' = [ckpt EXCEPT ![call'[c].thread] = b] /\ b # Unset
        /\ b.thread \in {Unset, call'[c].thread}
  <2>1. CASE Stores(c)
    <3>1. call'[c].st \in Bag
      BY DEF Changes, Run
    <3> QED BY <2>1, <3>1, BagAssumption DEF Stores
  <2>2. CASE UNCHANGED ckpt /\ ckpt[call'[c].thread] # Unset
    <3>1. /\ ckpt' = [ckpt EXCEPT ![call'[c].thread] = ckpt[call'[c].thread]]
          /\ ckpt[call'[c].thread] \in Bag
          /\ ckpt[call'[c].thread].thread \in {Unset, call'[c].thread}
      BY <2>2 DEF Shape, TypeOK
    <3> QED BY <2>2, <3>1
  <2> QED BY <2>1, <2>2, BagAssumption
<1>2. /\ ckpt' \in [Threads -> Bag \cup {Unset}]
      /\ ckpt'[call'[c].thread] # Unset
      /\ \A th \in Threads : ckpt[th] # Unset => ckpt'[th] # Unset
      /\ \A th \in Threads : ckpt'[th] # Unset => ckpt'[th].thread \in {Unset, th}
  BY <1>1 DEF Shape, TypeOK
<1>3. /\ pauses' \in [Turns -> Bag \cup {Unset}]
      /\ \A t \in Turns : pauses'[t] # Unset =>
           pauses'[t].resume_at \in Gates /\ call[t].pc # "idle"
  BY DEF Shape, TypeOK
<1>4. \A e \in Turns : call[e].pc # "idle" => call'[e].pc # "idle"
  BY DEF Changes
<1>5. TypeOK'
  BY <1>2, <1>3 DEF TypeOK, Changes
<1>6. ASSUME NEW e \in Turns
      PROVE  /\ call'[e].pc = "idle" => call'[e] = NoRun(e)
             /\ Placed(e)' /\ OnPath(e)' /\ WorksOn(e)'
  <2>1. CASE e = c
    BY <1>2, <1>4, <2>1, RunIsTyped, <1>5 DEF Changes, Placed, WorksOn, Run
  <2>2. CASE e # c
    <3>1. call'[e] = call[e] /\ call[e].turn \in Turns
      BY <2>2, RunIsTyped DEF Changes, Shape
    <3> QED BY <1>2, <1>4, <3>1 DEF Shape, Placed, OnPath, WorksOn
  <2> QED BY <2>1, <2>2
<1>7. NoRun(c)' = NoRun(c) /\ \A e : NoRun(e)' = NoRun(e)
  BY DEF NoRun, EmptyBag
<1> QED BY <1>2, <1>3, <1>4, <1>5, <1>6, <1>7 DEF Shape
-----------------------------------------------------------------------------
(* What the actions do. *)

LEMMA BeginDoes ==
  ASSUME Shape, NEW c \in Turns, NEW th \in Threads, NEW key \in Keys, NEW b \in InState,
         Begin(c, th, key, b)
  PROVE  LET st == call'[c].st
             old == Loaded(th)
         IN  /\ Changes(c) /\ Stores(c) /\ UNCHANGED pauses
             /\ call[c] = NoRun(c) /\ Free(th)
             /\ call'[c].pc = "prepare" /\ call'[c].kind = "turn"
             /\ call'[c].turn = c /\ call'[c].thread = th /\ call'[c].at = 1
             /\ st \in Bag /\ SameHitl(st, old)
             /\ st.messages = old.messages /\ st.initialized = old.initialized
             /\ st.thread \in {old.thread, th}
             /\ key # "none" => ExtractMessage(st) # Unset
<1> DEFINE old == Loaded(th)
           user == IF key = "user_message" THEN c ELSE old.user
           message == IF key = "message" THEN c ELSE old.message
           thread == IF b THEN th ELSE old.thread
           st == [old EXCEPT !.user = user, !.message = message, !.thread = thread]
           r == [call[c] EXCEPT !.pc = "prepare", !.thread = th, !.st = st]
<1>1. old \in Bag /\ call[c] = NoRun(c) /\ call[c] \in Run
  BY LoadedIsBag, RunIsTyped DEF Shape, Begin
<1>2. user \in Turns \cup {Unset} /\ message \in Turns \cup {Unset} /\ thread \in Threads \cup {Unset}
  BY <1>1 DEF Bag
<1>3. /\ call' = [call EXCEPT ![c] = r] /\ ckpt' = [ckpt EXCEPT ![th] = st]
      /\ pauses' = pauses /\ Free(th)
  BY <1>1 DEF Begin, Save, Bag, Shape, TypeOK
<1>4. /\ st \in Bag /\ SameHitl(st, old) /\ st.thread = thread /\ st.user = user
      /\ st.message = message /\ st.messages = old.messages /\ st.initialized = old.initialized
  <2> HIDE DEF old, user, message, thread
  <2> QED BY <1>1, <1>2 DEF Bag, SameHitl
<1> HIDE DEF st, old, user, message, thread
<1>5. /\ r \in Run /\ r.pc = "prepare" /\ r.kind = "turn" /\ r.turn = c /\ r.thread = th
      /\ r.st = st /\ r.at = 1
  <2>1. call[c].kind = "turn" /\ call[c].turn = c /\ call[c].at = 1
    BY <1>1 DEF NoRun
  <2> QED BY <1>1, <1>4, <2>1 DEF Run, PCs, Running
<1>7. st.thread \in {old.thread, th} /\ (key # "none" => ExtractMessage(st) # Unset)
  BY <1>4, SessionAssumption DEF thread, user, message, ExtractMessage
<1> HIDE DEF r
<1>6. call'[c] = r /\ Changes(c) /\ Stores(c)
  BY <1>3, <1>5 DEF Changes, Stores, Shape, TypeOK
<1> QED BY <1>1, <1>3, <1>4, <1>5, <1>6, <1>7 DEF old

LEMMA ResumeDoes ==
  ASSUME Shape, NEW c \in Turns, NEW t \in Turns, NEW th \in Threads, Resume(c, t, th)
  PROVE  LET st == call'[c].st
         IN  /\ Changes(c) /\ Stores(c) /\ UNCHANGED pauses
             /\ call[c] = NoRun(c) /\ Free(th)
             /\ pauses[t] # Unset /\ pauses[t] \in Bag
             /\ pauses[t].thread = th \/ (pauses[t].thread = Unset /\ ckpt[th] = Unset)
             /\ call'[c].pc = "prepare" /\ call'[c].kind = "resume"
             /\ call'[c].turn = t /\ call'[c].thread = th /\ call'[c].at = 1
             /\ st \in Bag
             /\ st.decided = pauses[t].decided \cup {pauses[t].resume_at}
             /\ st.resume_at = pauses[t].resume_at
             /\ st.messages = pauses[t].messages
             /\ st.initialized = (pauses[t].initialized \/ Loaded(th).initialized)
             /\ st.user = Or(pauses[t].user, Loaded(th).user)
             /\ st.thread = Or(pauses[t].thread, Loaded(th).thread)
<1> DEFINE old == Loaded(th)
           snapshot == [pauses[t] EXCEPT !.decided = @ \cup {pauses[t].resume_at}]
           st == MergeBag(old, snapshot)
           r == [call[c] EXCEPT !.pc = "prepare", !.kind = "resume", !.turn = t,
                                !.thread = th, !.st = st]
<1>1. /\ old \in Bag /\ call[c] = NoRun(c) /\ call[c] \in Run
      /\ pauses[t] # Unset /\ pauses[t] \in Bag /\ pauses[t].resume_at \in Gates
  BY LoadedIsBag, RunIsTyped DEF Shape, TypeOK, Resume
<1>2. pauses[t].thread = th \/ (pauses[t].thread = Unset /\ ckpt[th] = Unset)
  BY DEF Resume
<1>3. /\ snapshot \in Bag /\ snapshot.messages = pauses[t].messages
      /\ snapshot.decided = pauses[t].decided \cup {pauses[t].resume_at}
      /\ snapshot.resume_at = pauses[t].resume_at
      /\ snapshot.initialized = pauses[t].initialized
      /\ snapshot.user = pauses[t].user /\ snapshot.thread = pauses[t].thread
  BY <1>1 DEF Bag
<1>4. /\ st \in Bag /\ st.messages = snapshot.messages /\ SameHitl(st, snapshot)
      /\ st.user = Or(snapshot.user, old.user)
      /\ st.initialized = (snapshot.initialized \/ old.initialized)
      /\ st.thread = Or(snapshot.thread, old.thread)
  <2> HIDE DEF old, snapshot
  <2> QED BY <1>1, <1>3, MergedBag
<1>5. /\ call' = [call EXCEPT ![c] = r] /\ ckpt' = [ckpt EXCEPT ![th] = st]
      /\ pauses' = pauses /\ Free(th)
  BY <1>1 DEF Resume, Save, Shape, TypeOK
<1> HIDE DEF st, snapshot
<1>6. /\ r \in Run /\ r.pc = "prepare" /\ r.kind = "resume" /\ r.turn = t
      /\ r.thread = th /\ r.st = st /\ r.at = 1
  <2>1. call[c].at = 1
    BY <1>1 DEF NoRun
  <2> QED BY <1>1, <1>4, <2>1 DEF Run, PCs, Running
<1> HIDE DEF r
<1>7. call'[c] = r /\ Changes(c) /\ Stores(c)
  BY <1>5, <1>6 DEF Changes, Stores, Shape, TypeOK
<1> QED BY <1>1, <1>2, <1>3, <1>4, <1>5, <1>6, <1>7 DEF SameHitl

\* A step of a run that goes on as r.
LEMMA GoOn ==
  ASSUME Shape, NEW c \in Turns, call[c].pc # "idle", NEW r \in Run, r.pc # "idle",
         r.kind = call[c].kind, r.turn = call[c].turn, r.thread = call[c].thread,
         call' = [call EXCEPT ![c] = r]
  PROVE  /\ Continues(c) /\ call'[c] = r
         /\ ckpt' = [ckpt EXCEPT ![call[c].thread] = r.st] => Stores(c)
<1>1. call'[c] = r /\ call' \in [Turns -> Run] /\ \A e \in Turns \ {c} : call'[e] = call[e]
  BY DEF Shape, TypeOK
<1> QED BY <1>1 DEF Continues, Changes, Stores

LEMMA PrepareDoes ==
  ASSUME Shape, NEW c \in Turns, Prepare(c)
  PROVE  /\ Continues(c) /\ Stores(c) /\ UNCHANGED pauses
         /\ call[c].pc = "prepare" /\ call'[c].pc \in {"run", "record"}
         /\ call'[c].st = Prepared(call[c].st, call[c].turn)
         /\ call'[c].at = call[c].at
         /\ call'[c].pc = "run" <=> Path[call'[c].st.mode] # <<>>
<1> DEFINE st == Prepared(call[c].st, call[c].turn)
           pc == IF Path[st.mode] = <<>> THEN "record" ELSE "run"
           r == [call[c] EXCEPT !.pc = pc, !.st = st]
<1>1. /\ call[c] \in Run /\ call[c].st \in Bag /\ call[c].turn \in Turns
      /\ call[c].pc = "prepare"
  BY RunIsTyped DEF Prepare, Shape
<1>2. st \in Bag
  BY <1>1, PreparedBag
<1>3. pc \in PCs \ {"idle"} /\ pc \in {"run", "record"} /\ ((pc = "run") <=> (Path[st.mode] # <<>>))
  BY DEF PCs, Running
<1>4. /\ call' = [call EXCEPT ![c] = r] /\ ckpt' = [ckpt EXCEPT ![call[c].thread] = st]
      /\ pauses' = pauses
  BY DEF Prepare, Save, Shape, TypeOK
<1> HIDE DEF st, pc
<1>5. /\ r \in Run /\ r.pc = pc /\ r.st = st /\ r.at = call[c].at
      /\ r.kind = call[c].kind /\ r.turn = call[c].turn /\ r.thread = call[c].thread
  BY <1>1, <1>2, <1>3 DEF Run
<1> HIDE DEF r
<1>6. Continues(c) /\ Stores(c) /\ call'[c] = r
  BY <1>1, <1>3, <1>4, <1>5, GoOn
<1> QED BY <1>1, <1>3, <1>4, <1>5, <1>6 DEF st

\* A node of the path that returns, and the place after it.
LEMMA LeaveDoes ==
  ASSUME Shape, NEW c \in Turns, call[c].pc = "run", NEW st \in Bag, NEW ran \in SUBSET Nodes,
         st.mode = call[c].st.mode, Leave(c, st, ran)
  PROVE  /\ Continues(c) /\ Stores(c) /\ UNCHANGED pauses
         /\ call'[c].pc \in {"run", "record"} /\ call'[c].st = st
         /\ OnPath(c)'
<1> DEFINE pc == IF call[c].at = Len(Path[st.mode]) THEN "record" ELSE "run"
           at == call[c].at + 1
           done == call[c].ran \cup ran
           r == [call[c] EXCEPT !.st = st, !.at = at, !.ran = done, !.pc = pc]
<1>1. /\ call[c] \in Run /\ call[c].at \in 1..Len(Path[st.mode]) /\ st.mode \in Modes
      /\ call[c].ran \in SUBSET Nodes
  BY RunIsTyped DEF Shape, OnPath, Run
<1>2. Len(Path[st.mode]) \in Nat
  BY <1>1, SessionAssumption
<1>3. /\ pc \in PCs \ {"idle"} /\ pc \in {"run", "record"}
      /\ pc = "run" => at \in 1..Len(Path[st.mode])
      /\ pc = "record" => at > Len(Path[st.mode])
      /\ at \in Nat /\ done \in SUBSET Nodes
  BY <1>1, <1>2 DEF PCs, Running
<1>4. /\ call' = [call EXCEPT ![c] = r] /\ ckpt' = [ckpt EXCEPT ![call[c].thread] = st]
      /\ pauses' = pauses
  BY DEF Leave, Save, Shape, TypeOK
<1> HIDE DEF pc, at, done
<1>5. /\ r \in Run /\ r.pc = pc /\ r.st = st /\ r.at = at
      /\ r.kind = call[c].kind /\ r.turn = call[c].turn /\ r.thread = call[c].thread
  BY <1>1, <1>3 DEF Run
<1> HIDE DEF r
<1>6. Continues(c) /\ Stores(c) /\ call'[c] = r
  BY <1>1, <1>3, <1>4, <1>5, GoOn
<1> QED BY <1>1, <1>3, <1>4, <1>5, <1>6 DEF OnPath

LEMMA NodeDoes ==
  ASSUME Shape, NEW c \in Turns, SkipNode(c) \/ WorkNode(c) \/ GateResume(c)
  PROVE  /\ Continues(c) /\ Stores(c) /\ UNCHANGED pauses
         /\ call[c].pc = "run" /\ call'[c].pc \in {"run", "record"}
         /\ OnPath(c)'
         /\ call'[c].st \in Bag /\ SameRest(call'[c].st, call[c].st)
         /\ call'[c].st.decided = call[c].st.decided
         /\ call'[c].st.resume_at \in {call[c].st.resume_at, Unset}
<1> DEFINE old == call[c].st
           node == Path[old.mode][call[c].at]
<1>1. /\ call[c].pc = "run" /\ old \in Bag /\ call[c].turn \in Turns
      /\ node \in Nodes /\ node = NodeAt(c)
  <2>1. call[c].pc = "run"
    BY DEF SkipNode, WorkNode, GateResume
  <2>2. old.mode \in Modes /\ call[c].at \in 1..Len(Path[old.mode])
    BY <2>1 DEF Shape, OnPath
  <2> QED BY <2>1, <2>2, SessionAssumption, RunIsTyped DEF Shape, NodeAt
<1>2. \E st \in Bag : \E ran \in SUBSET Nodes :
        /\ Leave(c, st, ran) /\ SameRest(st, old) /\ st.decided = old.decided
        /\ st.resume_at \in {old.resume_at, Unset}
  <2>1. CASE SkipNode(c)
    <3>1. Leave(c, old, {}) /\ {} \in SUBSET Nodes
      BY <2>1 DEF SkipNode
    <3> QED BY <1>1, <3>1 DEF SameRest
  <2>2. CASE WorkNode(c)
    <3> DEFINE k == Writes[node]
               new == [old EXCEPT !.out[k] = call[c].turn]
    <3>1. Leave(c, IF k = Unset THEN old ELSE new, {node}) /\ {node} \in SUBSET Nodes
      BY <1>1, <2>2, Zenon DEF WorkNode
    <3>2. k \in Outputs \cup {Unset}
      BY <1>1, SessionAssumption
    <3> HIDE DEF k, node
    <3>3. CASE k = Unset
      BY <1>1, <3>1, <3>3 DEF SameRest
    <3>4. CASE k # Unset
      <4>1. new \in Bag /\ SameRest(new, old) /\ new.decided = old.decided
            /\ new.resume_at = old.resume_at
        <5>1. [old.out EXCEPT ![k] = call[c].turn] \in [Outputs -> Turns \cup {Unset}]
          BY <1>1, <3>2, <3>4 DEF Bag
        <5> DEFINE out == [old.out EXCEPT ![k] = call[c].turn]
        <5>2. new = [old EXCEPT !.out = out]
          BY <1>1 DEF Bag
        <5> HIDE DEF out, old
        <5>3. out \in [Outputs -> Turns \cup {Unset}]
          BY <5>1 DEF out, old
        <5> QED BY <1>1, <5>2, <5>3 DEF Bag, SameRest
      <4> HIDE DEF new
      <4> QED BY <3>1, <3>4, <4>1
    <3> QED BY <3>3, <3>4
  <2>3. CASE GateResume(c)
    <3> DEFINE new == [old EXCEPT !.resume_at = Unset]
    <3>1. Leave(c, new, {node}) /\ {node} \in SUBSET Nodes
      BY <1>1, <2>3 DEF GateResume
    <3>2. new \in Bag /\ SameRest(new, old) /\ new.decided = old.decided
          /\ new.resume_at = Unset
      <4> HIDE DEF old
      <4> QED BY <1>1 DEF Bag, SameRest
    <3> HIDE DEF new
    <3> QED BY <3>1, <3>2
  <2> QED BY <2>1, <2>2, <2>3
<1>3. PICK st \in Bag : \E ran \in SUBSET Nodes :
        /\ Leave(c, st, ran) /\ SameRest(st, old) /\ st.decided = old.decided
        /\ st.resume_at \in {old.resume_at, Unset}
  BY <1>2
<1>4. st.mode = old.mode
  BY <1>3 DEF SameRest
<1> QED BY <1>1, <1>3, <1>4, LeaveDoes

\* The snapshot a gate stores is what the run has in hand, marked with the gate.
LEMMA GatePauseDoes ==
  ASSUME Shape, NEW c \in Turns, GatePause(c)
  PROVE  /\ Continues(c) /\ UNCHANGED ckpt
         /\ call[c].pc = "run" /\ call'[c].pc = "done" /\ call'[c].st = call[c].st
         /\ call'[c].at = call[c].at
         /\ \E b \in Bag :
              /\ pauses' = [pauses EXCEPT ![call[c].turn] = b]
              /\ SameRest(b, call[c].st) /\ b.decided = call[c].st.decided
              /\ b.resume_at \in Gates
<1> DEFINE r == [call[c] EXCEPT !.pc = "done"]
           old == call[c].st
           b == [old EXCEPT !.resume_at = NodeAt(c)]
<1>1. call[c] \in Run /\ call[c].pc = "run" /\ old \in Bag /\ NodeAt(c) \in Gates
  BY RunIsTyped DEF GatePause, Shape
<1>2. /\ call' = [call EXCEPT ![c] = r] /\ ckpt' = ckpt
      /\ pauses' = [pauses EXCEPT ![call[c].turn] = b]
  BY DEF GatePause, Shape, TypeOK
<1>3. /\ r \in Run /\ r.pc = "done" /\ r.st = old /\ r.kind = call[c].kind
      /\ r.turn = call[c].turn /\ r.thread = call[c].thread /\ r.at = call[c].at
  BY <1>1 DEF Run, PCs, Running
<1> HIDE DEF r
<1>4. Continues(c) /\ call'[c] = r
  BY <1>1, <1>2, <1>3, GoOn
<1>5. b \in Bag /\ SameRest(b, old) /\ b.decided = old.decided /\ b.resume_at \in Gates
  <2> HIDE DEF old
  <2> QED BY <1>1 DEF Bag, SameRest
<1> HIDE DEF b
<1> QED BY <1>1, <1>2, <1>3, <1>4, <1>5

LEMMA RecordDoes ==
  ASSUME Shape, NEW c \in Turns, RecordAssistantTurn(c)
  PROVE  LET th == call[c].thread
             st == call[c].st
             text == AssistantText(st)
         IN  /\ Continues(c) /\ UNCHANGED pauses
             /\ call[c].pc = "record" /\ call'[c].pc \in {"close", "done"}
             /\ call'[c].st = call[c].st /\ call'[c].at = call[c].at
             /\ \/ UNCHANGED ckpt
                \/ \E u \in Bag :
                     /\ text \in Turns /\ ckpt' = [ckpt EXCEPT ![th] = u]
                     /\ u.messages = AppendMessage(st.messages, "assistant", text, call[c].turn)
                     /\ u.initialized = (ckpt[th].initialized \/ st.mode = "initialize")
                     /\ u.thread = ckpt[th].thread /\ SameHitl(u, ckpt[th])
<1> DEFINE pc == IF call[c].kind = "resume" THEN "close" ELSE "done"
           r == [call[c] EXCEPT !.pc = pc]
           st == call[c].st
           text == AssistantText(st)
           th == call[c].thread
           u == Updated(ckpt[th], st, text, call[c].turn)
<1>1. /\ call[c] \in Run /\ call[c].pc = "record" /\ call[c].st \in Bag
      /\ call[c].turn \in Turns
  BY RunIsTyped DEF RecordAssistantTurn, Shape
<1>2. text \in Turns \cup {Unset} /\ th \in Threads /\ ckpt[th] \in Bag
  BY <1>1, AssistantTextType DEF Shape, Placed, TypeOK
<1>3. call' = [call EXCEPT ![c] = r] /\ pauses' = pauses
  BY DEF RecordAssistantTurn, Shape, TypeOK
<1>4. \/ ckpt' = ckpt
      \/ /\ text # Unset
         /\ ckpt' = [ckpt EXCEPT ![th] = u]
  BY DEF RecordAssistantTurn, Save
<1>5. pc \in {"close", "done"} /\ pc \in PCs
  BY DEF PCs, Running
<1> HIDE DEF pc
<1>6. /\ r \in Run /\ r.pc = pc /\ r.st = call[c].st /\ r.kind = call[c].kind
      /\ r.turn = call[c].turn /\ r.thread = call[c].thread /\ r.at = call[c].at
  BY <1>1, <1>5 DEF Run
<1> HIDE DEF r
<1>7. Continues(c) /\ call'[c] = r
  BY <1>1, <1>3, <1>5, <1>6, GoOn
<1>8. text # Unset =>
        /\ u \in Bag
        /\ u.messages = AppendMessage(st.messages, "assistant", text, call[c].turn)
        /\ u.initialized = (ckpt[th].initialized \/ st.mode = "initialize")
        /\ u.thread = ckpt[th].thread /\ SameHitl(u, ckpt[th])
  <2> HIDE DEF st, text, th
  <2> QED BY <1>1, <1>2, UpdatedBag DEF st
<1> HIDE DEF u
<1> QED BY <1>1, <1>2, <1>3, <1>4, <1>5, <1>6, <1>7, <1>8

LEMMA EndDoes ==
  ASSUME Shape, NEW c \in Turns, Close(c) \/ Fail(c)
  PROVE  /\ Continues(c) /\ UNCHANGED ckpt
         /\ InFlight(c) /\ call'[c].pc \in {"done", "failed"} /\ call'[c].st = call[c].st
         /\ call'[c].at = call[c].at
         /\ \/ UNCHANGED pauses
            \/ call[c].pc = "close" /\ pauses' = [pauses EXCEPT ![call[c].turn] = Unset]
<1>1. PICK pc \in {"done", "failed"} : call' = [call EXCEPT ![c].pc = pc]
  BY DEF Close, Fail
<1> DEFINE r == [call[c] EXCEPT !.pc = pc]
<1>2. call[c] \in Run /\ InFlight(c) /\ call[c].pc # "idle"
  BY RunIsTyped DEF Close, Fail, Shape, InFlight, Running
<1>3. call' = [call EXCEPT ![c] = r]
  BY <1>1 DEF Shape, TypeOK
<1>4. /\ ckpt' = ckpt
      /\ \/ pauses' = pauses
         \/ call[c].pc = "close" /\ pauses' = [pauses EXCEPT ![call[c].turn] = Unset]
  BY DEF Close, Fail
<1>5. /\ r \in Run /\ r.pc = pc /\ r.st = call[c].st /\ r.kind = call[c].kind
      /\ r.turn = call[c].turn /\ r.thread = call[c].thread /\ r.at = call[c].at
  BY <1>2 DEF Run, PCs, Running
<1> HIDE DEF r
<1>6. Continues(c) /\ call'[c] = r
  BY <1>2, <1>3, <1>5, GoOn
<1> QED BY <1>2, <1>4, <1>5, <1>6
-----------------------------------------------------------------------------
(* Runs, pauses and checkpoints stay well formed. *)

LEMMA ShapeInit == Init => Shape
<1> SUFFICES ASSUME Init PROVE Shape
  OBVIOUS
<1>1. \A c \in Turns : NoRun(c) \in Run
  <2>1. {} \in SUBSET Nodes /\ 1 \in Nat
    OBVIOUS
  <2> QED BY EmptyIsBag, <2>1 DEF NoRun, Run, PCs, Running
<1>2. call = [c \in Turns |-> NoRun(c)] /\ \A c \in Turns : call[c] = NoRun(c)
  BY DEF Init
<1>3. TypeOK
  BY <1>1, <1>2 DEF Init, TypeOK
<1>4. \A c \in Turns : call[c].pc = "idle" /\ call[c].kind = "turn" /\ call[c].turn = c
  BY <1>2 DEF NoRun
<1> QED BY <1>2, <1>3, <1>4 DEF Init, Shape, Placed, OnPath, WorksOn

LEMMA ShapeStep == Shape /\ [Next]_vars => Shape'
<1> SUFFICES ASSUME Shape, [Next]_vars PROVE Shape'
  OBVIOUS
<1>1. ASSUME NEW c \in Turns, NEW th \in Threads, NEW key \in Keys, NEW b \in InState,
             Begin(c, th, key, b)
      PROVE  Shape'
  <2>1. Loaded(th).thread \in {Unset, th}
    BY LoadedIsBag DEF Shape, Loaded, EmptyBag
  <2>2. call'[c].st.thread \in {Unset, th}
    BY <1>1, <2>1, BeginDoes
  <2>3. OnPath(c)'
    BY <1>1, BeginDoes DEF OnPath
  <2> QED BY <1>1, <2>2, <2>3, BeginDoes, ChangeKeepsShape
<1>2. ASSUME NEW c \in Turns, NEW t \in Turns, NEW th \in Threads, Resume(c, t, th)
      PROVE  Shape'
  <2>1. Loaded(th).thread \in {Unset, th}
    BY LoadedIsBag DEF Shape, Loaded, EmptyBag
  <2>2. call'[c].st.thread \in {Unset, th} /\ call[t].pc # "idle"
    BY <1>2, <2>1, ResumeDoes DEF Or, Shape
  <2>3. OnPath(c)'
    BY <1>2, ResumeDoes DEF OnPath
  <2> QED BY <1>2, <2>2, <2>3, ResumeDoes, ChangeKeepsShape
<1>3. ASSUME NEW c \in Turns, call[c].pc # "idle"
      PROVE  /\ call[c].thread \in Threads /\ ckpt[call[c].thread] # Unset
             /\ call[c].st.thread \in {Unset, call[c].thread}
             /\ call[c].kind = "turn" => call[c].turn = c
             /\ call[call[c].turn].pc # "idle"
             /\ call[c].turn \in Turns /\ call[c].st \in Bag
  BY <1>3, RunIsTyped DEF Shape, Placed, WorksOn
<1>4. ASSUME NEW c \in Turns, Prepare(c) PROVE Shape'
  <2>1. call[c].pc # "idle" /\ call'[c].st.thread = call[c].st.thread /\ call'[c].st.mode \in Modes
    BY <1>4, PrepareDoes, PreparedBag, RunIsTyped DEF Shape
  <2>2. IF call'[c].pc = "run" THEN 1 \in 1..Len(Path[call'[c].st.mode])
                              ELSE 1 > Len(Path[call'[c].st.mode])
    <3>1. Path[call'[c].st.mode] \in Seq(Nodes)
      BY <2>1, SessionAssumption
    <3>2. (call'[c].pc = "run") <=> (Path[call'[c].st.mode] # <<>>)
      BY <1>4, PrepareDoes
    <3> QED BY <3>1, <3>2
  <2>3. OnPath(c)'
    BY <1>4, <2>1, <2>2, PrepareDoes DEF OnPath, Shape
  <2> QED BY <1>3, <1>4, <2>1, <2>3, PrepareDoes, ChangeKeepsShape DEF Continues
<1>5. ASSUME NEW c \in Turns, SkipNode(c) \/ WorkNode(c) \/ GateResume(c) PROVE Shape'
  <2>1. call[c].pc # "idle" /\ call'[c].st.thread = call[c].st.thread
    BY <1>5, NodeDoes DEF SameRest
  <2> QED BY <1>3, <1>5, <2>1, NodeDoes, ChangeKeepsShape DEF Continues
<1>6. ASSUME NEW c \in Turns, GatePause(c) PROVE Shape'
  <2>1. call[c].pc # "idle" /\ OnPath(c)'
    BY <1>6, GatePauseDoes DEF OnPath
  <2>2. \E b \in Bag \cup {Unset} :
          /\ pauses' = [pauses EXCEPT ![call[c].turn] = b]
          /\ b # Unset => b.resume_at \in Gates /\ call[call[c].turn].pc # "idle"
    BY <1>3, <1>6, <2>1, GatePauseDoes
  <2> QED BY ZenonT(40), <1>3, <1>6, <2>1, <2>2, GatePauseDoes, ChangeKeepsShape DEF Continues
<1>7. ASSUME NEW c \in Turns, RecordAssistantTurn(c) PROVE Shape'
  <2>1. call[c].pc # "idle" /\ OnPath(c)'
    BY <1>7, RecordDoes DEF OnPath
  <2>2. \/ UNCHANGED ckpt
        \/ \E b \in Bag : /\ ckpt' = [ckpt EXCEPT ![call[c].thread] = b]
                          /\ b.thread \in {Unset, call[c].thread}
    <3>1. ckpt[call[c].thread] \in Bag /\ ckpt[call[c].thread].thread \in {Unset, call[c].thread}
      BY <1>3, <2>1 DEF Shape, TypeOK
    <3> QED BY <1>7, <3>1, RecordDoes
  <2> QED BY <1>3, <1>7, <2>1, <2>2, RecordDoes, ChangeKeepsShape DEF Continues
<1>8. ASSUME NEW c \in Turns, Close(c) \/ Fail(c) PROVE Shape'
  <2>1. call[c].pc # "idle" /\ OnPath(c)'
    BY <1>8, EndDoes DEF OnPath, InFlight, Running
  <2>2. \/ UNCHANGED pauses
        \/ \E b \in Bag \cup {Unset} :
              /\ pauses' = [pauses EXCEPT ![call[c].turn] = b] /\ b = Unset
    BY <1>8, EndDoes
  <2> QED BY ZenonT(40), <1>3, <1>8, <2>1, <2>2, EndDoes, ChangeKeepsShape DEF Continues
<1>9. CASE UNCHANGED vars
  BY <1>9 DEF vars, Shape, TypeOK, Placed, OnPath, WorksOn, NoRun, EmptyBag
<1> QED BY <1>1, <1>2, <1>4, <1>5, <1>6, <1>7, <1>8, <1>9 DEF Next, Step, AllReturned

LEMMA ShapeAlways == Spec => []Shape
BY ShapeInit, ShapeStep, PTL DEF Spec

\* Whatever the paths, gates and failures, the checkpoints, runs and pauses keep their
\* shape: a run works with the mode it was routed to and inside its path.
THEOREM TypeCorrect == Spec => []TypeOK
<1>1. Shape => TypeOK
  BY DEF Shape
<1> QED BY <1>1, ShapeAlways, PTL
-----------------------------------------------------------------------------
(* hitl_resume_at and hitl_decisions come from resumes. *)

Covered(g, th) ==
  \E c \in Turns : call[c].kind = "resume" /\ call[c].thread = th /\ g \in call[c].st.decided
KeysCovered(b, th) == \A g \in b.decided \cup ({b.resume_at} \ {Unset}) : Covered(g, th)

HitlInv ==
  /\ \A th \in Threads : ckpt[th] # Unset => KeysCovered(ckpt[th], th)
  /\ \A c \in Turns : call[c].pc # "idle" => KeysCovered(call[c].st, call[c].thread)

\* A run that starts, or goes on without losing a decision, uncovers no gate.
LEMMA CoveredStays ==
  ASSUME Shape, NEW c \in Turns, Changes(c),
         \/ call[c] = NoRun(c)
         \/ Continues(c) /\ call'[c].st.decided = call[c].st.decided,
         NEW g, NEW th, Covered(g, th)
  PROVE  Covered(g, th)'
<1>1. PICK d \in Turns : /\ call[d].kind = "resume" /\ call[d].thread = th
                         /\ g \in call[d].st.decided
  BY DEF Covered
<1>2. NoRun(c).kind = "turn"
  BY DEF NoRun
<1>3. /\ call'[d].kind = "resume" /\ call'[d].thread = th /\ g \in call'[d].st.decided
  BY <1>1, <1>2 DEF Changes, Continues
<1> QED BY <1>3 DEF Covered

LEMMA HitlInvKept ==
  ASSUME Shape, HitlInv, NEW c \in Turns, Changes(c),
         \/ call[c] = NoRun(c)
         \/ Continues(c) /\ call'[c].st.decided = call[c].st.decided,
         KeysCovered(call[c].st, call[c].thread)' ,
         \/ Stores(c) \/ UNCHANGED ckpt
         \/ \E u \in Bag : /\ ckpt' = [ckpt EXCEPT ![call'[c].thread] = u]
                           /\ SameHitl(u, ckpt[call'[c].thread]) /\ ckpt[call'[c].thread] # Unset
  PROVE  HitlInv'
<1>1. \A g, th : Covered(g, th) => Covered(g, th)'
  BY CoveredStays
<1>2. ASSUME NEW e \in Turns, call'[e].pc # "idle"
      PROVE  KeysCovered(call[e].st, call[e].thread)'
  <2>1. CASE e = c
    BY <2>1
  <2>2. CASE e # c
    <3>1. call'[e] = call[e]
      BY <2>2 DEF Changes
    <3>2. KeysCovered(call[e].st, call[e].thread)
      BY <1>2, <3>1 DEF HitlInv
    <3> QED BY <1>1, <3>1, <3>2 DEF KeysCovered
  <2> QED BY <2>1, <2>2
<1>3. ASSUME NEW th \in Threads, ckpt'[th] # Unset
      PROVE  KeysCovered(ckpt[th], th)'
  <2>1. CASE ckpt'[th] = ckpt[th]
    <3>1. KeysCovered(ckpt[th], th)
      BY <1>3, <2>1 DEF HitlInv
    <3> QED BY <1>1, <2>1, <3>1 DEF KeysCovered
  <2>2. CASE Stores(c) /\ ckpt'[th] # ckpt[th]
    <3>1. ckpt'[th] = call'[c].st /\ th = call'[c].thread
      BY <2>2 DEF Stores, Shape, TypeOK
    <3> QED BY <3>1 DEF KeysCovered
  <2>3. CASE /\ ckpt'[th] # ckpt[th]
             /\ \E u \in Bag : /\ ckpt' = [ckpt EXCEPT ![call'[c].thread] = u]
                               /\ SameHitl(u, ckpt[call'[c].thread])
                               /\ ckpt[call'[c].thread] # Unset
    <3>1. SameHitl(ckpt'[th], ckpt[th]) /\ ckpt[th] # Unset
      BY <2>3 DEF Shape, TypeOK
    <3>2. KeysCovered(ckpt[th], th)
      BY <3>1 DEF HitlInv
    <3> QED BY <1>1, <3>1, <3>2 DEF KeysCovered, SameHitl
  <2> QED BY <2>1, <2>2, <2>3
<1> QED BY <1>2, <1>3 DEF HitlInv

LEMMA HitlInvStep == Shape /\ HitlInv /\ [Next]_vars => HitlInv'
<1> SUFFICES ASSUME Shape, HitlInv, [Next]_vars PROVE HitlInv'
  OBVIOUS
<1>1. ASSUME NEW c \in Turns, NEW th \in Threads, NEW key \in Keys, NEW b \in InState,
             Begin(c, th, key, b)
      PROVE  HitlInv'
  <2>1. /\ Changes(c) /\ Stores(c) /\ call[c] = NoRun(c) /\ call'[c].thread = th
        /\ SameHitl(call'[c].st, Loaded(th))
    BY <1>1, BeginDoes
  <2>2. KeysCovered(Loaded(th), th)
    BY DEF HitlInv, Loaded, KeysCovered, EmptyBag
  <2>3. \A g : Covered(g, th) => Covered(g, th)'
    BY <2>1, CoveredStays
  <2>4. KeysCovered(call[c].st, call[c].thread)'
    BY <2>1, <2>2, <2>3 DEF KeysCovered, SameHitl
  <2> QED BY <2>1, <2>4, HitlInvKept
<1>2. ASSUME NEW c \in Turns, NEW t \in Turns, NEW th \in Threads, Resume(c, t, th)
      PROVE  HitlInv'
  <2>1. /\ Changes(c) /\ Stores(c) /\ call[c] = NoRun(c) /\ call'[c].thread = th
        /\ call'[c].kind = "resume" /\ call'[c].st.resume_at \in call'[c].st.decided
    BY <1>2, ResumeDoes
  <2>2. KeysCovered(call[c].st, call[c].thread)'
    BY <2>1 DEF KeysCovered, Covered
  <2> QED BY <2>1, <2>2, HitlInvKept
<1>3. ASSUME NEW c \in Turns, Continues(c), call'[c].st.decided = call[c].st.decided,
             call'[c].st.resume_at \in {call[c].st.resume_at, Unset}
      PROVE  KeysCovered(call[c].st, call[c].thread)'
  <2>1. KeysCovered(call[c].st, call[c].thread)
    BY <1>3 DEF HitlInv, Continues
  <2>2. \A g, th : Covered(g, th) => Covered(g, th)'
    BY <1>3, CoveredStays DEF Continues
  <2> QED BY <1>3, <2>1, <2>2 DEF KeysCovered, Continues
<1>4. ASSUME NEW c \in Turns, Prepare(c) PROVE HitlInv'
  <2>1. SameHitl(call'[c].st, call[c].st)
    BY <1>4, PrepareDoes, PreparedBag, RunIsTyped DEF Shape
  <2> QED BY <1>3, <1>4, <2>1, PrepareDoes, HitlInvKept DEF Continues, SameHitl
<1>5. ASSUME NEW c \in Turns, SkipNode(c) \/ WorkNode(c) \/ GateResume(c) PROVE HitlInv'
  BY <1>3, <1>5, NodeDoes, HitlInvKept DEF Continues
<1>6. ASSUME NEW c \in Turns, GatePause(c) PROVE HitlInv'
  BY <1>3, <1>6, GatePauseDoes, HitlInvKept DEF Continues
<1>7. ASSUME NEW c \in Turns, RecordAssistantTurn(c) PROVE HitlInv'
  <2>1. /\ Continues(c) /\ call'[c].st = call[c].st /\ call'[c].thread = call[c].thread
        /\ ckpt[call[c].thread] # Unset
    BY <1>7, RecordDoes DEF Continues, Shape, Placed
  <2>2. \/ UNCHANGED ckpt
        \/ \E u \in Bag : /\ ckpt' = [ckpt EXCEPT ![call[c].thread] = u]
                          /\ SameHitl(u, ckpt[call[c].thread])
    BY <1>7, RecordDoes
  <2> QED BY <1>3, <2>1, <2>2, HitlInvKept DEF Continues
<1>8. ASSUME NEW c \in Turns, Close(c) \/ Fail(c) PROVE HitlInv'
  BY <1>3, <1>8, EndDoes, HitlInvKept DEF Continues
<1>9. CASE UNCHANGED vars
  BY <1>9 DEF vars, HitlInv, KeysCovered, Covered
<1> QED BY <1>1, <1>2, <1>4, <1>5, <1>6, <1>7, <1>8, <1>9 DEF Next, Step, AllReturned

\* A conversation holds hitl_resume_at or a decision only when a run of it was resumed for
\* that gate, whatever runs beside it.
THEOREM HitlKeysOfResumesCorrect == Spec => []HitlKeysOfResumes
<1>1. Init => HitlInv
  BY DEF Init, NoRun, HitlInv
<1>2. Shape /\ HitlInv => HitlKeysOfResumes
  BY DEF HitlInv, KeysCovered, Covered, Loaded, EmptyBag, HitlKeysOfResumes
<1> QED BY <1>1, <1>2, ShapeAlways, HitlInvStep, PTL DEF Spec
-----------------------------------------------------------------------------
(* session_initialized comes from an initializing turn. *)

Origins ==
  {th \in Threads : \E c \in Turns : Initialized(c) /\ (call[c].thread = th \/ Moved(th))}

InitInv ==
  /\ \A th \in Threads : ckpt[th] # Unset /\ ckpt[th].initialized => th \in Origins
  /\ \A c \in Turns : call[c].pc # "idle" /\ call[c].st.initialized => call[c].thread \in Origins
  /\ \A t \in Turns : pauses[t] # Unset /\ pauses[t].initialized =>
       /\ \E c \in Turns : Initialized(c)
       /\ pauses[t].thread # Unset => pauses[t].thread \in Origins

\* A run that starts, and one that goes on before its end or keeps its bag, takes nothing
\* back.
KeepsOrigins(c) ==
  /\ Changes(c)
  /\ \/ call[c] = NoRun(c)
     \/ Continues(c) /\ call[c].pc \in {"prepare", "run"}
     \/ /\ Continues(c) /\ call'[c].st = call[c].st /\ call'[c].at = call[c].at
        /\ call'[c].pc \in {"close", "done", "failed"}

LEMMA OriginStays ==
  ASSUME Shape, NEW c \in Turns, KeepsOrigins(c)
  PROVE  /\ (\E d \in Turns : Initialized(d)) => \E d \in Turns : Initialized(d)'
         /\ Origins \subseteq Origins'
<1>1. ASSUME NEW d \in Turns, Initialized(d) PROVE Initialized(d)' /\ call'[d].thread = call[d].thread
  <2>1. CASE d # c
    <3>1. call'[d] = call[d]
      BY <2>1 DEF KeepsOrigins, Changes
    <3> QED BY <1>1, <3>1 DEF Initialized, AssistantText
  <2>2. CASE d = c
    <3>1. call[c].pc \in {"close", "done", "failed"} /\ NoRun(c).pc = "idle"
      BY <1>1, <2>2 DEF Initialized, NoRun
    <3>2. /\ Continues(c) /\ call'[c].st = call[c].st /\ call'[c].at = call[c].at
          /\ call'[c].pc \in {"close", "done", "failed"}
      BY <3>1 DEF KeepsOrigins
    <3> QED BY <1>1, <2>2, <3>2 DEF Initialized, AssistantText, Continues
  <2> QED BY <2>1, <2>2
<1>2. ASSUME NEW th, Moved(th) PROVE Moved(th)'
  <2>1. PICK d \in Turns : /\ call[d].kind = "resume" /\ call[d].thread = th
                           /\ call[call[d].turn].thread # th
    BY <1>2 DEF Moved
  <2>2. call[d].turn \in Turns /\ call[call[d].turn].pc # "idle"
    BY <2>1, RunIsTyped DEF Shape, WorksOn
  <2>3. NoRun(c).kind = "turn" /\ NoRun(c).pc = "idle"
    BY DEF NoRun
  <2>4. /\ call'[d].kind = "resume" /\ call'[d].thread = th /\ call'[d].turn = call[d].turn
    BY <2>1, <2>3 DEF KeepsOrigins, Changes, Continues
  <2>5. call'[call[d].turn].thread = call[call[d].turn].thread
    BY <2>2, <2>3 DEF KeepsOrigins, Changes, Continues
  <2> QED BY <2>1, <2>4, <2>5 DEF Moved
<1>3. (\E d \in Turns : Initialized(d)) => \E d \in Turns : Initialized(d)'
  BY <1>1
<1>4. ASSUME NEW th \in Origins PROVE th \in Origins'
  <2>1. PICK d \in Turns : Initialized(d) /\ (call[d].thread = th \/ Moved(th))
    BY <1>4 DEF Origins
  <2>2. Initialized(d)' /\ (call'[d].thread = th \/ Moved(th)')
    BY <1>1, <1>2, <2>1
  <2> QED BY <2>2 DEF Origins
<1> QED BY <1>3, <1>4

LEMMA InitInvKept ==
  ASSUME Shape, InitInv, NEW c \in Turns, KeepsOrigins(c),
         call'[c].st.initialized => call'[c].thread \in Origins' ,
         \/ Stores(c) \/ UNCHANGED ckpt
         \/ \E u \in Bag : /\ ckpt' = [ckpt EXCEPT ![call'[c].thread] = u]
                           /\ u.initialized => call'[c].thread \in Origins' ,
         \/ UNCHANGED pauses
         \/ \E t \in Turns : pauses' = [pauses EXCEPT ![t] = Unset]
         \/ \E t \in Turns : \E b \in Bag :
              /\ pauses' = [pauses EXCEPT ![t] = b]
              /\ b.initialized = call'[c].st.initialized
              /\ b.thread \in {Unset, call'[c].thread}
  PROVE  InitInv'
<1>1. /\ (\E d \in Turns : Initialized(d)) => \E d \in Turns : Initialized(d)'
      /\ Origins \subseteq Origins'
  BY OriginStays
<1>2. ASSUME NEW e \in Turns, call'[e].pc # "idle", call'[e].st.initialized
      PROVE  call'[e].thread \in Origins'
  <2>1. CASE e = c
    BY <1>2, <2>1
  <2>2. CASE e # c
    <3>1. call'[e] = call[e]
      BY <2>2 DEF KeepsOrigins, Changes
    <3> QED BY <1>1, <1>2, <3>1 DEF InitInv
  <2> QED BY <2>1, <2>2
<1>3. ASSUME NEW th \in Threads, ckpt'[th] # Unset, ckpt'[th].initialized
      PROVE  th \in Origins'
  <2>1. CASE ckpt'[th] = ckpt[th]
    BY <1>1, <1>3, <2>1 DEF InitInv
  <2>2. CASE Stores(c) /\ ckpt'[th] # ckpt[th]
    <3>1. ckpt'[th] = call'[c].st /\ th = call'[c].thread
      BY <2>2 DEF Stores, Shape, TypeOK
    <3> QED BY <1>3, <3>1
  <2>3. CASE /\ ckpt'[th] # ckpt[th]
             /\ \E u \in Bag : /\ ckpt' = [ckpt EXCEPT ![call'[c].thread] = u]
                               /\ u.initialized => call'[c].thread \in Origins'
    <3>1. th = call'[c].thread /\ (ckpt'[th].initialized => th \in Origins')
      BY <2>3 DEF Shape, TypeOK
    <3> QED BY <1>3, <3>1
  <2> QED BY <2>1, <2>2, <2>3
<1>4. ASSUME NEW t \in Turns, pauses'[t] # Unset, pauses'[t].initialized
      PROVE  /\ \E d \in Turns : Initialized(d)'
             /\ pauses'[t].thread # Unset => pauses'[t].thread \in Origins'
  <2>1. CASE pauses'[t] = pauses[t]
    BY <1>1, <1>4, <2>1 DEF InitInv
  <2>2. CASE pauses'[t] # pauses[t]
    <3>1. /\ pauses'[t].initialized = call'[c].st.initialized
          /\ pauses'[t].thread \in {Unset, call'[c].thread}
      BY <1>4, <2>2 DEF Shape, TypeOK
    <3>2. call'[c].thread \in Origins'
      BY <1>4, <3>1
    <3>3. \E d \in Turns : Initialized(d)'
      BY <3>2 DEF Origins
    <3> QED BY <3>1, <3>2, <3>3
  <2> QED BY <2>1, <2>2
<1> QED BY <1>2, <1>3, <1>4 DEF InitInv

LEMMA InitInvStep == Shape /\ InitInv /\ [Next]_vars => InitInv'
<1> SUFFICES ASSUME Shape, InitInv, [Next]_vars PROVE InitInv'
  OBVIOUS
<1>1. ASSUME NEW c \in Turns, NEW th \in Threads, NEW key \in Keys, NEW b \in InState,
             Begin(c, th, key, b)
      PROVE  InitInv'
  <2>1. /\ KeepsOrigins(c) /\ Stores(c) /\ UNCHANGED pauses /\ call'[c].thread = th
        /\ call'[c].st.initialized = Loaded(th).initialized
    BY <1>1, BeginDoes DEF KeepsOrigins
  <2>2. Loaded(th).initialized => th \in Origins
    BY DEF InitInv, Loaded, EmptyBag
  <2>3. call'[c].st.initialized => call'[c].thread \in Origins'
    BY <2>1, <2>2, OriginStays
  <2> QED BY <2>1, <2>3, InitInvKept
<1>2. ASSUME NEW c \in Turns, NEW t \in Turns, NEW th \in Threads, Resume(c, t, th)
      PROVE  InitInv'
  <2>1. /\ KeepsOrigins(c) /\ Changes(c) /\ Stores(c) /\ UNCHANGED pauses
        /\ call'[c].thread = th /\ call'[c].kind = "resume" /\ call'[c].turn = t
        /\ call[c] = NoRun(c) /\ pauses[t] # Unset
        /\ pauses[t].thread = th \/ (pauses[t].thread = Unset /\ ckpt[th] = Unset)
        /\ call'[c].st.initialized = (pauses[t].initialized \/ Loaded(th).initialized)
    BY <1>2, ResumeDoes DEF KeepsOrigins
  <2>2. Loaded(th).initialized => th \in Origins
    BY DEF InitInv, Loaded, EmptyBag
  <2>3. CASE ~pauses[t].initialized
    BY <2>1, <2>2, <2>3, OriginStays, InitInvKept
  <2>4. CASE pauses[t].initialized /\ pauses[t].thread = th
    <3>1. th \in Origins
      BY <2>1, <2>4, SessionAssumption DEF InitInv
    <3> QED BY <2>1, <3>1, OriginStays, InitInvKept
  <2>5. CASE pauses[t].initialized /\ ckpt[th] = Unset
    <3>1. call[t].pc # "idle" /\ call[t].thread # th /\ t # c
      BY <2>1, <2>5 DEF Shape, Placed, NoRun
    <3>2. call'[t].thread # th
      BY <2>1, <3>1 DEF Changes
    <3>3. Moved(th)'
      BY <2>1, <3>2 DEF Moved
    <3>4. \E d \in Turns : Initialized(d)'
      BY <2>1, <2>5, OriginStays DEF InitInv
    <3>5. th \in Origins'
      BY <3>3, <3>4 DEF Origins
    <3> QED BY <2>1, <3>5, InitInvKept
  <2> QED BY <2>1, <2>3, <2>4, <2>5
<1>3. ASSUME NEW c \in Turns, KeepsOrigins(c), Continues(c),
             call'[c].st.initialized = call[c].st.initialized
      PROVE  call'[c].st.initialized => call'[c].thread \in Origins'
  BY <1>3, OriginStays DEF InitInv, Continues
<1>4. ASSUME NEW c \in Turns, Prepare(c) PROVE InitInv'
  <2>1. call'[c].st.initialized = call[c].st.initialized
    BY <1>4, PrepareDoes, PreparedBag, RunIsTyped DEF Shape
  <2>2. KeepsOrigins(c) /\ Continues(c) /\ Stores(c) /\ UNCHANGED pauses
    BY <1>4, PrepareDoes DEF KeepsOrigins, Continues
  <2> QED BY <1>3, <2>1, <2>2, InitInvKept
<1>5. ASSUME NEW c \in Turns, SkipNode(c) \/ WorkNode(c) \/ GateResume(c) PROVE InitInv'
  <2>1. /\ KeepsOrigins(c) /\ Continues(c) /\ Stores(c) /\ UNCHANGED pauses
        /\ call'[c].st.initialized = call[c].st.initialized
    BY <1>5, NodeDoes DEF KeepsOrigins, Continues, SameRest
  <2> QED BY <1>3, <2>1, InitInvKept
<1>6. ASSUME NEW c \in Turns, GatePause(c) PROVE InitInv'
  <2>1. /\ KeepsOrigins(c) /\ Continues(c) /\ UNCHANGED ckpt
        /\ call[c].pc = "run" /\ call'[c].st = call[c].st
    BY <1>6, GatePauseDoes DEF KeepsOrigins, Continues
  <2>2. PICK b \in Bag : /\ pauses' = [pauses EXCEPT ![call[c].turn] = b]
                         /\ SameRest(b, call[c].st)
    BY <1>6, GatePauseDoes
  <2>3. /\ call[c].turn \in Turns /\ b.initialized = call'[c].st.initialized
        /\ b.thread \in {Unset, call'[c].thread}
    BY <2>1, <2>2, RunIsTyped DEF Shape, Placed, SameRest, Continues
  <2> QED BY <1>3, <2>1, <2>2, <2>3, InitInvKept
<1>7. ASSUME NEW c \in Turns, RecordAssistantTurn(c) PROVE InitInv'
  <2>1. /\ KeepsOrigins(c) /\ Continues(c) /\ UNCHANGED pauses
        /\ call[c].pc = "record" /\ call'[c].st = call[c].st /\ call'[c].at = call[c].at
        /\ call'[c].pc \in {"close", "done"} /\ call'[c].thread = call[c].thread
    BY <1>7, RecordDoes DEF KeepsOrigins, Continues
  <2>2. \/ UNCHANGED ckpt
        \/ \E u \in Bag :
             /\ AssistantText(call[c].st) \in Turns
             /\ ckpt' = [ckpt EXCEPT ![call[c].thread] = u]
             /\ u.initialized = (ckpt[call[c].thread].initialized
                                  \/ call[c].st.mode = "initialize")
    BY <1>7, RecordDoes
  <2>3. CASE UNCHANGED ckpt
    BY <1>3, <2>1, <2>3, InitInvKept
  <2>4. CASE AssistantText(call[c].st) \in Turns
    <3>1. ckpt[call[c].thread].initialized => call[c].thread \in Origins'
      BY <2>1, OriginStays DEF InitInv, Shape, Placed
    <3>2. ASSUME call[c].st.mode = "initialize" PROVE call[c].thread \in Origins'
      <4>1. AssistantText(call[c].st)' # Unset
        <5>1. AssistantText(call[c].st) # Unset
          BY ONLY <2>4, SessionAssumption
        <5>2. call'[c].st = call[c].st
          BY <2>1
        <5> QED BY ONLY <5>1, <5>2 DEF AssistantText
      <4>2. call[c].at > Len(Path["initialize"])
        BY <2>1, <3>2 DEF Shape, OnPath
      <4>3. Initialized(c)'
        BY <2>1, <3>2, <4>1, <4>2 DEF Initialized, AssistantText
      <4>4. call[c].thread \in Threads
        BY <2>1 DEF Shape, Placed
      <4> QED BY <2>1, <4>3, <4>4 DEF Origins
    <3> QED BY <1>3, <2>1, <2>2, <3>1, <3>2, InitInvKept
  <2> QED BY <2>2, <2>3, <2>4
<1>8. ASSUME NEW c \in Turns, Close(c) \/ Fail(c) PROVE InitInv'
  <2>1. /\ KeepsOrigins(c) /\ Continues(c) /\ UNCHANGED ckpt
        /\ call'[c].st.initialized = call[c].st.initialized
    BY <1>8, EndDoes DEF KeepsOrigins, Continues
  <2>2. UNCHANGED pauses \/ \E t \in Turns : pauses' = [pauses EXCEPT ![t] = Unset]
    BY <1>8, EndDoes, RunIsTyped DEF Shape
  <2> QED BY <1>3, <2>1, <2>2, InitInvKept
<1>9. CASE UNCHANGED vars
  <2>1. ckpt' = ckpt /\ call' = call /\ pauses' = pauses
    BY <1>9 DEF vars
  <2>2. ASSUME NEW c \in Turns PROVE Initialized(c)' <=> Initialized(c)
    BY <2>1 DEF Initialized, AssistantText
  <2>3. ASSUME NEW th \in Threads PROVE Moved(th)' <=> Moved(th)
    BY <2>1 DEF Moved
  <2>4. Origins' = Origins
    BY <2>1, <2>2, <2>3 DEF Origins
  <2> QED BY <2>1, <2>2, <2>4 DEF InitInv
<1> QED BY <1>1, <1>2, <1>4, <1>5, <1>6, <1>7, <1>8, <1>9 DEF Next, Step, AllReturned

\* A thread counts as initialized only after a run that took the initialize path to its
\* end and answered, there or where its conversation came from.
THEOREM InitializedByAnswerCorrect == Spec => []InitializedByAnswer
<1>1. Init => InitInv
  BY DEF Init, NoRun, InitInv
<1>2. Shape /\ InitInv => InitializedByAnswer
  BY DEF InitInv, Origins, Loaded, EmptyBag, InitializedByAnswer
<1> QED BY <1>1, <1>2, ShapeAlways, InitInvStep, PTL DEF Spec
=============================================================================
