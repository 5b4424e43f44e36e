------------------------ MODULE AssistantChat_proofs ------------------------
(***************************************************************************)
(* Theorems about AssistantChat: for any number of prompts, resumptions    *)
(* and conversations, the server keeps one run per conversation, stores an *)
(* answer before it announces it, ends no response without an outcome and  *)
(* loses no wake-up; and the widget is sending exactly while it has an     *)
(* owner.                                                                  *)
(***************************************************************************)
EXTENDS AssistantChat, TLAPS

(* What a run can have told: a stage, a delta, then its outcome.            *)
History(h) ==
    /\ h \in Seq(Events) /\ Len(h) \in 0..3
    /\ Len(h) \in 1..3 => h[1] = "stage"
    /\ Len(h) \in 2..3 => h[2] \in {"delta", "error"}
    /\ Len(h) = 3 => h[2] = "delta" /\ h[3] \in {"final", "error"}

(* A post has a run once it is started; from when it is stored it has its   *)
(* conversation.                                                            *)
PostInv == \A p \in Posts :
    /\ run[p].st # "none" <=> post[p].pc = "started"
    /\ post[p].pc \in {"stored", "started"} => post[p].conv \in Convs

RunInv == \A p \in Posts :
    /\ History(run[p].events)
    /\ run[p].st = "none" => run[p].events = <<>> /\ ~run[p].saved
    /\ Working(p) => hub[post[p].conv] = p
    /\ run[p].st = "done" => Ended(p)
    /\ LastEvent(p) = "final" => run[p].saved

(* What the hub knows, it knows of runs of this process.                    *)
HubRuns == \A c \in Convs : hub[c] # None => run[hub[c]].st \in {"working", "done"}

ReaderInv == \A o \in Exchanges :
    /\ reader[o].st \in {"open", "ended"} => reader[o].run \in Posts
    /\ reader[o].st = "open" => run[reader[o].run].st \in {"working", "done"}
    /\ reader[o].st = "ended" => /\ run[reader[o].run].st = "done"
                                 /\ reader[o].cursor = Len(run[reader[o].run].events)
    /\ reader[o].waiting => /\ reader[o].st = "open"
                            /\ Working(reader[o].run)
                            /\ reader[o].cursor = Len(run[reader[o].run].events)

HubInv == HubTypeOK /\ PostInv /\ RunInv /\ HubRuns /\ ReaderInv

SavedInv == \A p \in Posts : run[p].saved => p \in answers \/ Emptied(post[p].conv)

(* An exchange posts to the streaming endpoint first, and to the classic one*)
(* at most once.                                                            *)
OpInv == \A o \in Exchanges :
    /\ op[o].pc = "unused" /\ o \in Prompts => /\ post[Streamed(o)].pc = "none"
                                               /\ post[Classic(o)].pc = "none"
    /\ op[o].pc = "stream" => o \in Prompts /\ post[Classic(o)].pc = "none"
    /\ op[o].pc = "chat" => o \in Prompts
    /\ op[o].pc = "resume" => o \in Resumptions /\ op[o].conv \in Convs

ClientTypeOK == widget \in Widget /\ op \in [Exchanges -> Op] /\ loads \subseteq Load

ChatInv == HubInv /\ ClientTypeOK /\ OpInv /\ SendingHasOwner

-----------------------------------------------------------------------------
(* Histories are short sequences of events, and what is appended to one is  *)
(* determined by its last event.                                            *)
LEMMA NextHistory ==
    ASSUME NEW p \in Posts, History(run[p].events)
    PROVE  /\ LastEvent(p) = "none" => History(Append(run[p].events, "stage"))
           /\ LastEvent(p) = "stage" => History(Append(run[p].events, "delta"))
           /\ LastEvent(p) \in {"stage", "delta"} => History(Append(run[p].events, "error"))
           /\ LastEvent(p) = "delta" => History(Append(run[p].events, "final"))
<1> DEFINE h == run[p].events
<1>1. History(h) /\ h \in Seq(Events) /\ Len(h) \in 0..3
  BY DEF History
<1>2. h = <<>> <=> Len(h) = 0
  BY <1>1
<1>3. \A i \in 1..Len(h) : h[i] \in Events
  BY <1>1
<1>4. /\ LastEvent(p) = "none" => Len(h) = 0
      /\ LastEvent(p) = "stage" => Len(h) = 1 /\ h[1] = "stage"
      /\ LastEvent(p) = "delta" => Len(h) = 2 /\ h[1] = "stage" /\ h[2] = "delta"
  BY <1>1, <1>2, <1>3 DEF History, LastEvent, Events
<1>5. ASSUME NEW e \in Events
      PROVE  /\ Append(h, e) \in Seq(Events) /\ Len(Append(h, e)) = Len(h) + 1
             /\ Append(h, e)[Len(h) + 1] = e
             /\ \A i \in 1..Len(h) : Append(h, e)[i] = h[i]
  BY <1>1
<1> HIDE DEF h
<1>6. LastEvent(p) = "none" => History(Append(h, "stage"))
  BY <1>4, <1>5 DEF History, Events
<1>7. ASSUME LastEvent(p) = "stage", NEW e \in {"delta", "error"} PROVE History(Append(h, e))
  <2>1. Len(h) = 1 /\ h[1] = "stage" /\ e \in Events
    BY <1>4, <1>7 DEF Events
  <2>2. /\ Append(h, e) \in Seq(Events) /\ Len(Append(h, e)) = 2
        /\ Append(h, e)[2] = e /\ Append(h, e)[1] = "stage"
    BY <1>5, <2>1
  <2> QED BY <2>2 DEF History
<1>8. ASSUME LastEvent(p) = "delta", NEW e \in {"final", "error"} PROVE History(Append(h, e))
  <2>1. Len(h) = 2 /\ h[1] = "stage" /\ h[2] = "delta" /\ e \in Events
    BY <1>4, <1>8 DEF Events
  <2>2. /\ Append(h, e) \in Seq(Events) /\ Len(Append(h, e)) = 3
        /\ Append(h, e)[3] = e /\ Append(h, e)[1] = "stage" /\ Append(h, e)[2] = "delta"
    BY <1>5, <2>1
  <2> QED BY <2>2 DEF History
<1> QED BY <1>6, <1>7, <1>8 DEF h

(* Appending to a history makes what is appended its last event.            *)
LEMMA AppendLast ==
    ASSUME NEW h \in Seq(Events), NEW e
    PROVE  /\ Len(Append(h, e)) = Len(h) + 1
           /\ Append(h, e) # <<>>
           /\ Append(h, e)[Len(Append(h, e))] = e
OBVIOUS

-----------------------------------------------------------------------------
(* What waking the readers of a run does to them.                           *)
LEMMA WokenFacts ==
    ASSUME NEW p \in Posts, HubTypeOK, reader' = Woken(p)
    PROVE  /\ reader' \in [Exchanges -> Reader]
           /\ \A o \in Exchanges : /\ reader'[o].st = reader[o].st
                                   /\ reader'[o].run = reader[o].run
                                   /\ reader'[o].cursor = reader[o].cursor
                                   /\ reader'[o].waiting => reader[o].waiting /\ reader[o].run # p
<1>1. ASSUME NEW o \in Exchanges
      PROVE  /\ reader'[o] \in Reader
             /\ reader'[o].st = reader[o].st
             /\ reader'[o].run = reader[o].run
             /\ reader'[o].cursor = reader[o].cursor
             /\ reader'[o].waiting => reader[o].waiting /\ reader[o].run # p
  <2>1. reader[o] \in Reader
    BY DEF HubTypeOK
  <2>2. reader'[o] = IF reader[o].run = p THEN [reader[o] EXCEPT !.waiting = FALSE] ELSE reader[o]
    BY DEF Woken
  <2> QED BY <2>1, <2>2 DEF Reader
<1>2. reader' = [o \in Exchanges |-> reader'[o]]
  BY DEF Woken
<1> QED BY <1>1, <1>2

(* Telling keeps the server's invariant, if what is told may follow.        *)
LEMMA TellKeeps ==
    ASSUME NEW p \in Posts, NEW e \in Events, HubInv, Tell(p, e),
           History(Append(run[p].events, e)), e = "final" => run[p].saved
    PROVE  HubInv'
<1> DEFINE h == Append(run[p].events, e)
<1>1. /\ HubTypeOK /\ PostInv /\ RunInv /\ HubRuns /\ ReaderInv
      /\ run \in [Posts -> Run] /\ run[p] \in Run /\ run[p].events \in Seq(Events)
  BY DEF HubInv, HubTypeOK, Run
<1>2. /\ run' = [run EXCEPT ![p] = [run[p] EXCEPT !.events = h]]
      /\ reader' = Woken(p) /\ Working(p)
      /\ UNCHANGED <<post, rows, answers, hub, deletes>>
  BY DEF Tell
<1>3. h \in Seq(Events) /\ Len(h) \in 0..3 /\ h # <<>> /\ h[Len(h)] = e /\ History(h)
  BY <1>1, AppendLast DEF History
<1> HIDE DEF h
<1>4. /\ run' \in [Posts -> Run]
      /\ \A q \in Posts : /\ run'[q].st = run[q].st
                          /\ run'[q].saved = run[q].saved
                          /\ run'[q].events = IF q = p THEN h ELSE run[q].events
  <2>1. [run[p] EXCEPT !.events = h] \in Run
    BY <1>1, <1>3 DEF Run
  <2>2. run'[p].st = run[p].st /\ run'[p].saved = run[p].saved /\ run'[p].events = h
    BY <1>1, <1>2 DEF Run
  <2> QED BY <1>1, <1>2, <2>1, <2>2
<1>5. /\ reader' \in [Exchanges -> Reader]
      /\ \A o \in Exchanges : /\ reader'[o].st = reader[o].st
                              /\ reader'[o].run = reader[o].run
                              /\ reader'[o].cursor = reader[o].cursor
                              /\ reader'[o].waiting => reader[o].waiting /\ reader[o].run # p
  BY <1>1, <1>2, WokenFacts
<1>6. HubTypeOK'
  BY <1>1, <1>2, <1>3, <1>4, <1>5 DEF HubTypeOK
<1>7. PostInv'
  BY <1>1, <1>2, <1>4 DEF PostInv
<1>8. RunInv'
  <2> SUFFICES ASSUME NEW q \in Posts
               PROVE /\ History(run'[q].events)
                     /\ run'[q].st = "none" => run'[q].events = <<>> /\ ~run'[q].saved
                     /\ run'[q].st = "working" => hub[post[q].conv] = q
                     /\ run'[q].st = "done" => Ended(q)'
                     /\ LastEvent(q)' = "final" => run'[q].saved
    BY <1>2 DEF RunInv, Working
  <2>1. CASE q = p
    <3>1. LastEvent(p)' = e
      BY <1>3, <1>4 DEF LastEvent
    <3> QED BY <1>1, <1>2, <1>3, <1>4, <2>1, <3>1 DEF RunInv, Working
  <2>2. CASE q # p
    <3>1. LastEvent(q)' = LastEvent(q)
      BY <1>4, <2>2 DEF LastEvent
    <3> QED BY <1>1, <1>4, <2>2, <3>1 DEF RunInv, Working, Ended
  <2> QED BY <2>1, <2>2
<1>9. HubRuns'
  BY <1>1, <1>2, <1>4 DEF HubRuns, HubTypeOK
<1>10. ReaderInv'
  <2> SUFFICES ASSUME NEW o \in Exchanges
               PROVE /\ reader'[o].st \in {"open", "ended"} => reader'[o].run \in Posts
                     /\ reader'[o].st = "open" => run'[reader'[o].run].st \in {"working", "done"}
                     /\ reader'[o].st = "ended" =>
                           /\ run'[reader'[o].run].st = "done"
                           /\ reader'[o].cursor = Len(run'[reader'[o].run].events)
                     /\ reader'[o].waiting =>
                           /\ reader'[o].st = "open" /\ run'[reader'[o].run].st = "working"
                           /\ reader'[o].cursor = Len(run'[reader'[o].run].events)
    BY DEF ReaderInv, Working
  <2>1. reader[o].st \in {"open", "ended"} => reader[o].run \in Posts
    BY <1>1 DEF ReaderInv
  <2>2. reader[o].st = "ended" => reader[o].run # p
    BY <1>1, <1>2 DEF ReaderInv, Working
  <2> QED BY <1>1, <1>4, <1>5, <2>1, <2>2 DEF ReaderInv, Working
<1> QED BY <1>6, <1>7, <1>8, <1>9, <1>10 DEF HubInv

(* Saving the answer touches nothing else of the server's invariant.        *)
LEMMA StoreKeeps ==
    ASSUME NEW p \in Posts, HubInv, StoreAnswer(p)
    PROVE  HubInv'
<1>1. /\ HubTypeOK /\ PostInv /\ RunInv /\ HubRuns /\ ReaderInv
      /\ run \in [Posts -> Run] /\ run[p] \in Run
  BY DEF HubInv, HubTypeOK
<1>2. /\ run' = [run EXCEPT ![p] = [run[p] EXCEPT !.saved = TRUE]]
      /\ Working(p) /\ answers' \subseteq answers \cup {p}
      /\ UNCHANGED <<post, rows, hub, reader, deletes>>
  BY DEF StoreAnswer
<1>3. /\ run' \in [Posts -> Run]
      /\ \A q \in Posts : /\ run'[q].st = run[q].st
                          /\ run'[q].events = run[q].events
                          /\ run'[q].saved = (run[q].saved \/ q = p)
  <2>1. [run[p] EXCEPT !.saved = TRUE] \in Run
    BY <1>1 DEF Run
  <2>2. run'[p] = [run[p] EXCEPT !.saved = TRUE] /\ run[p].saved \in BOOLEAN
    BY <1>1, <1>2 DEF Run
  <2>3. run'[p].st = run[p].st /\ run'[p].saved = TRUE /\ run'[p].events = run[p].events
    BY <1>1, <2>2 DEF Run
  <2>4. \A q \in Posts : q # p => run'[q] = run[q] /\ run[q].saved \in BOOLEAN
    BY <1>1, <1>2 DEF Run
  <2> QED BY <1>1, <1>2, <2>1, <2>2, <2>3, <2>4
<1>4. HubTypeOK'
  BY <1>1, <1>2, <1>3 DEF HubTypeOK
<1>5. PostInv' /\ HubRuns'
  BY <1>1, <1>2, <1>3 DEF PostInv, HubRuns, HubTypeOK
<1>6. RunInv'
  BY <1>1, <1>2, <1>3 DEF RunInv, Working, Ended, LastEvent
<1>7. ReaderInv'
  BY <1>1, <1>2, <1>3 DEF ReaderInv, Working
<1> QED BY <1>4, <1>5, <1>6, <1>7 DEF HubInv

(* A run that finishes has told its outcome, and its readers are awake.     *)
LEMMA FinishKeeps ==
    ASSUME NEW p \in Posts, HubInv, Finish(p)
    PROVE  HubInv'
<1>1. /\ HubTypeOK /\ PostInv /\ RunInv /\ HubRuns /\ ReaderInv
      /\ run \in [Posts -> Run] /\ run[p] \in Run
  BY DEF HubInv, HubTypeOK
<1>2. /\ run' = [run EXCEPT ![p] = [run[p] EXCEPT !.st = "done"]]
      /\ reader' = Woken(p) /\ Working(p) /\ Ended(p)
      /\ UNCHANGED <<post, rows, answers, hub, deletes>>
  BY DEF Finish
<1>3. /\ run' \in [Posts -> Run]
      /\ \A q \in Posts : /\ run'[q].st = IF q = p THEN "done" ELSE run[q].st
                          /\ run'[q].events = run[q].events
                          /\ run'[q].saved = run[q].saved
  <2>1. [run[p] EXCEPT !.st = "done"] \in Run
    BY <1>1 DEF Run
  <2>2. run'[p].st = "done" /\ run'[p].saved = run[p].saved /\ run'[p].events = run[p].events
    BY <1>1, <1>2 DEF Run
  <2> QED BY <1>1, <1>2, <2>1, <2>2
<1>4. /\ reader' \in [Exchanges -> Reader]
      /\ \A o \in Exchanges : /\ reader'[o].st = reader[o].st
                              /\ reader'[o].run = reader[o].run
                              /\ reader'[o].cursor = reader[o].cursor
                              /\ reader'[o].waiting => reader[o].waiting /\ reader[o].run # p
  BY <1>1, <1>2, WokenFacts
<1>5. HubTypeOK'
  BY <1>1, <1>2, <1>3, <1>4 DEF HubTypeOK
<1>6. PostInv' /\ HubRuns'
  BY <1>1, <1>2, <1>3 DEF PostInv, HubRuns, HubTypeOK, Working
<1>7. RunInv'
  <2>1. \A q \in Posts : LastEvent(q)' = LastEvent(q)
    BY <1>3 DEF LastEvent
  <2> QED BY <1>1, <1>2, <1>3, <2>1 DEF RunInv, Working, Ended
<1>8. ReaderInv'
  <2> SUFFICES ASSUME NEW o \in Exchanges
               PROVE /\ reader'[o].st \in {"open", "ended"} => reader'[o].run \in Posts
                     /\ reader'[o].st = "open" => run'[reader'[o].run].st \in {"working", "done"}
                     /\ reader'[o].st = "ended" =>
                           /\ run'[reader'[o].run].st = "done"
                           /\ reader'[o].cursor = Len(run'[reader'[o].run].events)
                     /\ reader'[o].waiting =>
                           /\ reader'[o].st = "open" /\ run'[reader'[o].run].st = "working"
                           /\ reader'[o].cursor = Len(run'[reader'[o].run].events)
    BY DEF ReaderInv, Working
  <2>1. reader[o].st \in {"open", "ended"} => reader[o].run \in Posts
    BY <1>1 DEF ReaderInv
  <2> QED BY <1>1, <1>3, <1>4, <2>1 DEF ReaderInv, Working
<1> QED BY <1>5, <1>6, <1>7, <1>8 DEF HubInv

(* Registering a run that no other run stands in the way of                 *)
LEMMA StartKeeps ==
    ASSUME NEW p \in Posts, NEW kept \in BOOLEAN, HubInv, Start(p, kept)
    PROVE  HubInv'
<1>1. /\ HubTypeOK /\ PostInv /\ RunInv /\ HubRuns /\ ReaderInv
      /\ run \in [Posts -> Run] /\ run[p] \in Run
      /\ post[p].pc = "stored" /\ ~Busy(post[p].conv)
  BY DEF HubInv, HubTypeOK, Start
<1>2. PICK expired \in SUBSET Finished : Register(p, expired, kept)
  BY DEF Start
<1>3. /\ post' = [post EXCEPT ![p] = [post[p] EXCEPT !.pc = "started"]]
      /\ run' = [run EXCEPT ![p] = [run[p] EXCEPT !.st = "working"]]
      /\ hub' = [c \in Convs |-> IF c = post[p].conv THEN p
                                 ELSE IF c \in expired THEN None ELSE hub[c]]
      /\ reader' = IF kept THEN [reader EXCEPT ![p[1]] = Following(p)] ELSE reader
      /\ UNCHANGED <<rows, answers, deletes>>
  BY <1>2 DEF Register
<1>4. /\ run' \in [Posts -> Run]
      /\ \A q \in Posts : /\ run'[q].st = IF q = p THEN "working" ELSE run[q].st
                          /\ run'[q].events = run[q].events
                          /\ run'[q].saved = run[q].saved
  <2>1. [run[p] EXCEPT !.st = "working"] \in Run
    BY <1>1 DEF Run
  <2>2. run'[p].st = "working" /\ run'[p].saved = run[p].saved /\ run'[p].events = run[p].events
    BY <1>1, <1>3 DEF Run
  <2> QED BY <1>1, <1>3, <2>1, <2>2
<1>5. /\ post' \in [Posts -> [pc : {"none", "sent", "stored", "started", "refused"},
                             conv : Convs \cup {None}]]
      /\ \A q \in Posts : /\ post'[q].conv = post[q].conv
                          /\ post'[q].pc = IF q = p THEN "started" ELSE post[q].pc
  BY <1>1, <1>3 DEF HubTypeOK
<1>6. post[p].conv \in Convs /\ run[p].st = "none" /\ run[p].events = <<>> /\ ~run[p].saved
  BY <1>1 DEF PostInv, RunInv
<1>7. p[1] \in Exchanges /\ Following(p) \in Reader
  BY DEF Posts, Exchanges, Following, NoReader, Reader
<1>8. /\ reader' \in [Exchanges -> Reader]
      /\ \A o \in Exchanges : reader'[o] = reader[o] \/ reader'[o] = Following(p)
  BY <1>1, <1>3, <1>7 DEF HubTypeOK
<1>9. hub' \in [Convs -> Posts \cup {None}]
  BY <1>1, <1>3 DEF HubTypeOK
<1>10. HubTypeOK'
  BY <1>1, <1>3, <1>4, <1>5, <1>8, <1>9 DEF HubTypeOK
<1>11. PostInv'
  BY <1>1, <1>4, <1>5, <1>6 DEF PostInv
<1>12. RunInv'
  <2> SUFFICES ASSUME NEW q \in Posts
               PROVE /\ History(run'[q].events)
                     /\ run'[q].st = "none" => run'[q].events = <<>> /\ ~run'[q].saved
                     /\ run'[q].st = "working" => hub'[post'[q].conv] = q
                     /\ run'[q].st = "done" => Ended(q)'
                     /\ LastEvent(q)' = "final" => run'[q].saved
    BY DEF RunInv, Working
  <2>1. LastEvent(q)' = LastEvent(q)
    BY <1>4 DEF LastEvent
  <2>2. ASSUME run'[q].st = "working" PROVE hub'[post'[q].conv] = q
    <3>1. CASE q = p
      BY <1>3, <1>5, <1>6, <3>1
    <3>2. CASE q # p
      <4>1. Working(q) /\ hub[post[q].conv] = q /\ post[q].pc = "started"
        BY <1>1, <1>4, <2>2, <3>2 DEF RunInv, PostInv, Working
      <4>2. post[q].conv \in Convs
        BY <1>1, <4>1 DEF PostInv
      <4>3. q # None
        BY NoneAssumption DEF Convs
      <4>4. post[q].conv # post[p].conv
        BY <1>1, <4>1, <4>3 DEF Busy, Working
      <4>5. post[q].conv \notin expired
        BY <4>1 DEF Finished, Working
      <4> QED BY <1>3, <1>5, <4>1, <4>2, <4>4, <4>5
    <3> QED BY <3>1, <3>2
  <2> QED BY <1>1, <1>4, <2>1, <2>2 DEF RunInv, Ended
<1>13. HubRuns'
  BY <1>1, <1>3, <1>4 DEF HubRuns, HubTypeOK
<1>14. ReaderInv'
  <2> SUFFICES ASSUME NEW o \in Exchanges
               PROVE /\ reader'[o].st \in {"open", "ended"} => reader'[o].run \in Posts
                     /\ reader'[o].st = "open" => run'[reader'[o].run].st \in {"working", "done"}
                     /\ reader'[o].st = "ended" =>
                           /\ run'[reader'[o].run].st = "done"
                           /\ reader'[o].cursor = Len(run'[reader'[o].run].events)
                     /\ reader'[o].waiting =>
                           /\ reader'[o].st = "open" /\ run'[reader'[o].run].st = "working"
                           /\ reader'[o].cursor = Len(run'[reader'[o].run].events)
    BY DEF ReaderInv, Working
  <2>1. CASE reader'[o] = reader[o]
    BY <1>1, <1>4, <1>6, <2>1 DEF ReaderInv, Working
  <2>2. CASE reader'[o] = Following(p)
    <3>1. reader'[o].st = "open" /\ reader'[o].run = p /\ ~reader'[o].waiting
      BY <2>2 DEF Following, NoReader
    <3> QED BY <1>4, <3>1
  <2> QED BY <1>8, <2>1, <2>2
<1> QED BY <1>10, <1>11, <1>12, <1>13, <1>14 DEF HubInv

-----------------------------------------------------------------------------
(* Steps that leave runs and hub alone: a post that is started stays so, and*)
(* readers are untouched or gone.                                           *)
LEMMA RunsKept ==
    ASSUME HubInv, HubTypeOK', UNCHANGED <<hub, run>>,
           \A p \in Posts : /\ post'[p].pc = "started" <=> post[p].pc = "started"
                            /\ post[p].pc = "started" => post'[p].conv = post[p].conv
                            /\ post'[p].pc \in {"stored", "started"} => post'[p].conv \in Convs,
           ReaderInv'
    PROVE  HubInv'
<1>1. /\ HubTypeOK /\ PostInv /\ RunInv /\ HubRuns /\ ReaderInv
  BY DEF HubInv
<1>2. PostInv' /\ HubRuns'
  BY <1>1 DEF PostInv, HubRuns
<1>3. RunInv'
  <2> SUFFICES ASSUME NEW p \in Posts
               PROVE /\ History(run[p].events)
                     /\ run[p].st = "none" => run[p].events = <<>> /\ ~run[p].saved
                     /\ run[p].st = "working" => hub[post'[p].conv] = p
                     /\ run[p].st = "done" => Ended(p)
                     /\ LastEvent(p) = "final" => run[p].saved
    BY DEF RunInv, Working, Ended, LastEvent
  <2>1. run[p].st = "working" => post'[p].conv = post[p].conv
    BY <1>1 DEF PostInv
  <2> QED BY <1>1, <2>1 DEF RunInv, Working
<1> QED BY <1>1, <1>2, <1>3 DEF HubInv

LEMMA ReadersKept ==
    ASSUME ReaderInv, UNCHANGED run,
           \A o \in Exchanges : reader'[o] = reader[o] \/ reader'[o] = NoReader
    PROVE  ReaderInv'
<1> SUFFICES ASSUME NEW o \in Exchanges
             PROVE /\ reader'[o].st \in {"open", "ended"} => reader'[o].run \in Posts
                   /\ reader'[o].st = "open" => run'[reader'[o].run].st \in {"working", "done"}
                   /\ reader'[o].st = "ended" =>
                         /\ run'[reader'[o].run].st = "done"
                         /\ reader'[o].cursor = Len(run'[reader'[o].run].events)
                   /\ reader'[o].waiting =>
                         /\ reader'[o].st = "open" /\ run'[reader'[o].run].st = "working"
                         /\ reader'[o].cursor = Len(run'[reader'[o].run].events)
  BY DEF ReaderInv, Working
<1>1. CASE reader'[o] = reader[o]
  BY <1>1 DEF ReaderInv, Working
<1>2. CASE reader'[o] = NoReader
  <2>1. reader'[o].st = "none" /\ ~reader'[o].waiting
    BY <1>2 DEF NoReader
  <2> QED BY <2>1
<1> QED BY <1>1, <1>2

LEMMA NoReaderType == NoReader \in Reader
BY DEF NoReader, Reader

(* What clients do to the server: they post, they stop reading, a delete    *)
(* moves on.                                                                *)
Quiet ==
    /\ UNCHANGED <<rows, answers, hub, run>>
    /\ post' \in [Posts -> [pc : {"none", "sent", "stored", "started", "refused"},
                            conv : Convs \cup {None}]]
    /\ \A p \in Posts : post'[p] = post[p] \/ (post[p].pc = "none" /\ post'[p].pc = "sent")
    /\ reader' \in [Exchanges -> Reader]
    /\ \A o \in Exchanges : reader'[o] = reader[o] \/ reader'[o] = NoReader
    /\ deletes' \subseteq Delete
    /\ \A c \in Convs : Emptied(c) => Emptied(c)'

LEMMA QuietKeeps ==
    ASSUME HubInv, Quiet
    PROVE  HubInv'
<1>1. HubTypeOK /\ PostInv /\ ReaderInv
  BY DEF HubInv
<1>2. HubTypeOK'
  BY <1>1 DEF HubTypeOK, Quiet
<1>3. ReaderInv'
  BY <1>1, ReadersKept DEF Quiet
<1>4. \A p \in Posts : /\ post'[p].pc = "started" <=> post[p].pc = "started"
                       /\ post[p].pc = "started" => post'[p].conv = post[p].conv
                       /\ post'[p].pc \in {"stored", "started"} => post'[p].conv \in Convs
  BY <1>1 DEF Quiet, PostInv
<1> QED BY <1>2, <1>3, <1>4, RunsKept DEF Quiet

LEMMA AcceptKeeps ==
    ASSUME NEW p \in Posts, HubInv, Accept(p)
    PROVE  HubInv'
<1>1. HubTypeOK /\ PostInv /\ ReaderInv
  BY DEF HubInv
<1> DEFINE c == IF post[p].conv = None THEN p ELSE post[p].conv
<1>2. /\ post' = [post EXCEPT ![p] = [pc |-> "stored", conv |-> c]]
      /\ rows' = rows \cup {c} /\ post[p].pc = "sent"
      /\ UNCHANGED <<answers, hub, run, reader, deletes>>
  BY DEF Accept
<1>3. c \in Convs
  BY <1>1 DEF HubTypeOK, Convs
<1> HIDE DEF c
<1>4. /\ post' \in [Posts -> [pc : {"none", "sent", "stored", "started", "refused"},
                             conv : Convs \cup {None}]]
      /\ \A q \in Posts : q # p => post'[q] = post[q]
      /\ post'[p].pc = "stored" /\ post'[p].conv = c
  BY <1>1, <1>2, <1>3 DEF HubTypeOK
<1>5. HubTypeOK'
  BY <1>1, <1>2, <1>3, <1>4 DEF HubTypeOK
<1>6. ReaderInv'
  BY <1>1, <1>2, ReadersKept
<1>7. \A q \in Posts : /\ post'[q].pc = "started" <=> post[q].pc = "started"
                       /\ post[q].pc = "started" => post'[q].conv = post[q].conv
                       /\ post'[q].pc \in {"stored", "started"} => post'[q].conv \in Convs
  BY <1>1, <1>2, <1>3, <1>4 DEF PostInv
<1> QED BY <1>2, <1>5, <1>6, <1>7, RunsKept

LEMMA RefuseKeeps ==
    ASSUME NEW p \in Posts, HubInv, Refuse(p)
    PROVE  HubInv'
<1>1. HubTypeOK /\ PostInv /\ ReaderInv
  BY DEF HubInv
<1>2. /\ post' = [post EXCEPT ![p] = Refused] /\ post[p].pc \in {"sent", "stored"}
      /\ UNCHANGED <<rows, answers, hub, run, reader, deletes>>
  BY DEF Refuse
<1>3. /\ post' \in [Posts -> [pc : {"none", "sent", "stored", "started", "refused"},
                             conv : Convs \cup {None}]]
      /\ \A q \in Posts : q # p => post'[q] = post[q]
      /\ post'[p].pc = "refused"
  BY <1>1, <1>2 DEF HubTypeOK, Refused
<1>4. HubTypeOK'
  BY <1>1, <1>2, <1>3 DEF HubTypeOK
<1>5. ReaderInv'
  BY <1>1, <1>2, ReadersKept
<1>6. \A q \in Posts : /\ post'[q].pc = "started" <=> post[q].pc = "started"
                       /\ post[q].pc = "started" => post'[q].conv = post[q].conv
                       /\ post'[q].pc \in {"stored", "started"} => post'[q].conv \in Convs
  BY <1>1, <1>2, <1>3 DEF PostInv
<1> QED BY <1>2, <1>4, <1>5, <1>6, RunsKept

(* Reading goes to the end of what there is, or waits with nothing to read. *)
LEMMA ReadKeeps ==
    ASSUME NEW o \in Exchanges, HubInv, Read(o)
    PROVE  HubInv'
<1>1. HubTypeOK /\ PostInv /\ RunInv /\ ReaderInv /\ reader[o] \in Reader
  BY DEF HubInv, HubTypeOK
<1> DEFINE r == run[reader[o].run]
           more == reader[o].cursor < Len(r.events) \/ r.st = "done"
           new == [reader[o] EXCEPT !.hello = TRUE, !.cursor = Len(r.events), !.waiting = ~more,
                                    !.st = IF r.st = "done" THEN "ended" ELSE "open"]
<1>2. /\ reader' = [reader EXCEPT ![o] = new]
      /\ reader[o].st = "open" /\ ~reader[o].waiting
      /\ UNCHANGED <<post, rows, answers, hub, run, deletes>>
  BY DEF Read
<1>3. /\ reader[o].run \in Posts /\ r.st \in {"working", "done"} /\ r \in Run
      /\ Len(r.events) \in Nat
  <2>1. reader[o].run \in Posts /\ r.st \in {"working", "done"}
    BY <1>1, <1>2 DEF ReaderInv
  <2>2. r \in Run /\ r.events \in Seq(Events)
    BY <1>1, <2>1 DEF HubTypeOK, Run
  <2> QED BY <2>1, <2>2
<1>4. /\ new \in Reader
      /\ new.run = reader[o].run /\ new.cursor = Len(r.events)
      /\ new.st = IF r.st = "done" THEN "ended" ELSE "open"
      /\ new.waiting => r.st # "done"
  <2>1. more \in BOOLEAN
    OBVIOUS
  <2> QED BY <1>1, <1>3, <2>1 DEF Reader
<1> HIDE DEF new, more
<1>5. HubTypeOK'
  BY <1>1, <1>2, <1>4 DEF HubTypeOK
<1>6. ReaderInv'
  <2> SUFFICES ASSUME NEW x \in Exchanges
               PROVE /\ reader'[x].st \in {"open", "ended"} => reader'[x].run \in Posts
                     /\ reader'[x].st = "open" => run[reader'[x].run].st \in {"working", "done"}
                     /\ reader'[x].st = "ended" =>
                           /\ run[reader'[x].run].st = "done"
                           /\ reader'[x].cursor = Len(run[reader'[x].run].events)
                     /\ reader'[x].waiting =>
                           /\ reader'[x].st = "open" /\ run[reader'[x].run].st = "working"
                           /\ reader'[x].cursor = Len(run[reader'[x].run].events)
    BY <1>2 DEF ReaderInv, Working
  <2>1. CASE x = o
    <3>1. reader'[x] = new
      BY <1>1, <1>2, <2>1 DEF HubTypeOK
    <3> QED BY <1>3, <1>4, <3>1
  <2>2. CASE x # o
    BY <1>1, <1>2, <2>2 DEF ReaderInv, Working, HubTypeOK
  <2> QED BY <2>1, <2>2
<1> QED BY <1>1, <1>2, <1>5, <1>6, RunsKept DEF PostInv

LEMMA LookupKeeps ==
    ASSUME NEW o \in Exchanges, NEW c \in Convs, HubInv, Lookup(o, c)
    PROVE  HubInv'
<1>1. HubTypeOK /\ PostInv /\ HubRuns /\ ReaderInv /\ hub[c] \in Posts \cup {None}
  BY DEF HubInv, HubTypeOK
<1> DEFINE new == IF hub[c] = None THEN [NoReader EXCEPT !.st = "idle"] ELSE Following(hub[c])
<1>2. /\ reader' = [reader EXCEPT ![o] = new]
      /\ UNCHANGED <<post, rows, answers, hub, run, deletes>>
  BY DEF Lookup
<1>3. /\ new \in Reader /\ ~new.waiting
      /\ new.st = "idle" \/ (new.st = "open" /\ new.run = hub[c] /\ hub[c] \in Posts)
  BY <1>1 DEF Following, NoReader, Reader
<1>4. hub[c] \in Posts => run[hub[c]].st \in {"working", "done"}
  BY <1>1, NoneAssumption DEF HubRuns, Convs
<1> HIDE DEF new
<1>5. HubTypeOK'
  BY <1>1, <1>2, <1>3 DEF HubTypeOK
<1>6. ReaderInv'
  <2> SUFFICES ASSUME NEW x \in Exchanges
               PROVE /\ reader'[x].st \in {"open", "ended"} => reader'[x].run \in Posts
                     /\ reader'[x].st = "open" => run[reader'[x].run].st \in {"working", "done"}
                     /\ reader'[x].st = "ended" =>
                           /\ run[reader'[x].run].st = "done"
                           /\ reader'[x].cursor = Len(run[reader'[x].run].events)
                     /\ reader'[x].waiting =>
                           /\ reader'[x].st = "open" /\ run[reader'[x].run].st = "working"
                           /\ reader'[x].cursor = Len(run[reader'[x].run].events)
    BY <1>2 DEF ReaderInv, Working
  <2>1. CASE x = o
    <3>1. reader'[x] = new
      BY <1>1, <1>2, <2>1 DEF HubTypeOK
    <3> QED BY <1>3, <1>4, <3>1
  <2>2. CASE x # o
    BY <1>1, <1>2, <2>2 DEF ReaderInv, Working, HubTypeOK
  <2> QED BY <2>1, <2>2
<1> QED BY <1>1, <1>2, <1>5, <1>6, RunsKept DEF PostInv

(* The statements of a delete, and its begin                                *)
LEMMA DeleteKeeps ==
    ASSUME HubInv, UNCHANGED <<post, hub, run, reader>>,
           rows' \subseteq rows, answers' \subseteq answers, deletes' \subseteq Delete
    PROVE  HubInv'
<1>1. HubTypeOK /\ PostInv /\ ReaderInv
  BY DEF HubInv
<1>2. HubTypeOK'
  BY <1>1 DEF HubTypeOK
<1>3. ReaderInv'
  BY <1>1, ReadersKept
<1> QED BY <1>1, <1>2, <1>3, RunsKept DEF PostInv

LEMMA DeleteStepFacts ==
    ASSUME HubInv, NEW d \in deletes, DeleteSteps(d)
    PROVE  /\ UNCHANGED <<post, hub, run, reader>>
           /\ rows' \subseteq rows /\ answers' \subseteq answers /\ deletes' \subseteq Delete
<1>1. deletes \subseteq Delete /\ d \in Delete
  BY DEF HubInv, HubTypeOK
<1>2. [d EXCEPT !.pc = "emptied"] \in Delete /\ [d EXCEPT !.pc = "deleted"] \in Delete
  BY <1>1 DEF Delete
<1> QED BY <1>1, <1>2 DEF DeleteSteps, EmptyConversation, DropConversation, Moves

(* A restart ends everything that lives in memory.                          *)
LEMMA RestartKeeps ==
    ASSUME HubInv, Restart
    PROVE  HubInv'
<1>1. HubTypeOK /\ PostInv /\ RunInv /\ HubRuns /\ ReaderInv
  BY DEF HubInv
<1>2. /\ hub' = [c \in Convs |-> None]
      /\ run' = [p \in Posts |-> IF Working(p) THEN Lost ELSE run[p]]
      /\ post' = [p \in Posts |-> IF post[p].pc \in {"sent", "stored"} THEN Refused ELSE post[p]]
      /\ reader' = [o \in Exchanges |->
             IF reader[o].st = "open"
             THEN [NoReader EXCEPT !.st = "broken", !.hello = reader[o].hello] ELSE reader[o]]
      /\ UNCHANGED <<rows, answers, deletes>>
  BY DEF Restart
<1>3. Lost \in Run /\ Lost.st = "lost" /\ Lost.events = <<>>
  <2>1. <<>> \in Seq(Events)
    OBVIOUS
  <2> QED BY <2>1 DEF Lost, Run
<1>4. \A p \in Posts : /\ run'[p] \in Run
                       /\ run'[p] = Lost \/ (run'[p] = run[p] /\ ~Working(p))
                       /\ run'[p].st # "working"
                       /\ run'[p] = Lost => run[p].st # "none"
  <2> SUFFICES ASSUME NEW p \in Posts
               PROVE /\ run'[p] \in Run
                     /\ run'[p] = Lost \/ (run'[p] = run[p] /\ ~Working(p))
                     /\ run'[p].st # "working"
                     /\ run'[p] = Lost => run[p].st # "none"
    OBVIOUS
  <2>1. run[p] \in Run
    BY <1>1 DEF HubTypeOK
  <2>2. CASE Working(p)
    <3>1. run'[p] = Lost
      BY <1>2, <2>2
    <3> QED BY <1>3, <2>2, <3>1 DEF Working
  <2>3. CASE ~Working(p)
    <3>1. run'[p] = run[p]
      BY <1>2, <2>3
    <3> QED BY <1>3, <2>1, <2>3, <3>1 DEF Working
  <2> QED BY <2>2, <2>3
<1>5. \A p \in Posts : /\ post'[p] \in [pc : {"none", "sent", "stored", "started", "refused"},
                                        conv : Convs \cup {None}]
                       /\ post'[p].pc \notin {"sent", "stored"}
                       /\ post'[p].pc = "started" <=> post[p].pc = "started"
                       /\ post'[p].pc = "started" => post'[p] = post[p]
  BY <1>1, <1>2 DEF HubTypeOK, Refused
<1>6. \A o \in Exchanges : /\ reader'[o] \in Reader
                           /\ reader'[o].st # "open" /\ ~reader'[o].waiting
                           /\ reader'[o].st = "ended" => reader'[o] = reader[o]
  <2> SUFFICES ASSUME NEW o \in Exchanges
               PROVE /\ reader'[o] \in Reader
                     /\ reader'[o].st # "open" /\ ~reader'[o].waiting
                     /\ reader'[o].st = "ended" => reader'[o] = reader[o]
    OBVIOUS
  <2>1. reader[o] \in Reader /\ (reader[o].waiting => reader[o].st = "open")
    BY <1>1 DEF HubTypeOK, ReaderInv
  <2>2. CASE reader[o].st = "open"
    <3>1. reader'[o] = [NoReader EXCEPT !.st = "broken", !.hello = reader[o].hello]
      BY <1>2, <2>2
    <3>2. reader'[o] = [st |-> "broken", run |-> None, cursor |-> 0, hello |-> reader[o].hello,
                       waiting |-> FALSE]
      BY <3>1 DEF NoReader
    <3>3. reader[o].hello \in BOOLEAN
      BY <2>1 DEF Reader
    <3> QED BY <3>2, <3>3 DEF Reader
  <2>3. CASE reader[o].st # "open"
    BY <1>2, <2>1, <2>3
  <2> QED BY <2>2, <2>3
<1>7. HubTypeOK'
  <2>1. run' \in [Posts -> Run] /\ post' \in [Posts -> [pc : {"none", "sent", "stored", "started", "refused"},
                                                        conv : Convs \cup {None}]]
    BY <1>2, <1>4, <1>5
  <2>2. reader' \in [Exchanges -> Reader] /\ hub' \in [Convs -> Posts \cup {None}]
    BY <1>2, <1>6
  <2>3. \A p \in Posts : Len(run'[p].events) <= 3
    <3>1. Len(<<>>) = 0
      OBVIOUS
    <3> QED BY <1>1, <1>3, <1>4, <3>1 DEF HubTypeOK
  <2> QED BY <1>1, <1>2, <2>1, <2>2, <2>3 DEF HubTypeOK
<1>8. PostInv'
  BY <1>1, <1>4, <1>5 DEF PostInv, Lost
<1>9. RunInv'
  <2> SUFFICES ASSUME NEW p \in Posts
               PROVE /\ History(run'[p].events)
                     /\ run'[p].st = "none" => run'[p].events = <<>> /\ ~run'[p].saved
                     /\ run'[p].st = "done" => Ended(p)'
                     /\ LastEvent(p)' = "final" => run'[p].saved
    BY <1>4 DEF RunInv, Working
  <2>1. CASE run'[p] = Lost
    <3>1. run'[p].st = "lost" /\ run'[p].events = <<>>
      BY <2>1 DEF Lost
    <3>2. LastEvent(p)' = "none" /\ History(<<>>)
      BY <3>1 DEF LastEvent, History
    <3> QED BY <3>1, <3>2
  <2>2. CASE run'[p] = run[p]
    <3>1. LastEvent(p)' = LastEvent(p)
      BY <2>2 DEF LastEvent
    <3> QED BY <1>1, <2>2, <3>1 DEF RunInv, Ended
  <2> QED BY <1>4, <2>1, <2>2
<1>10. HubRuns'
  BY <1>2 DEF HubRuns
<1>11. ReaderInv'
  <2> SUFFICES ASSUME NEW o \in Exchanges, reader'[o].st = "ended"
               PROVE /\ reader'[o].run \in Posts
                     /\ run'[reader'[o].run].st = "done"
                     /\ reader'[o].cursor = Len(run'[reader'[o].run].events)
    BY <1>6 DEF ReaderInv
  <2>1. /\ reader[o].run \in Posts /\ run[reader[o].run].st = "done"
        /\ reader[o].cursor = Len(run[reader[o].run].events) /\ reader'[o] = reader[o]
    BY <1>1, <1>6 DEF ReaderInv
  <2>2. run'[reader[o].run] = run[reader[o].run]
    BY <1>2, <2>1 DEF Working
  <2> QED BY <2>1, <2>2
<1> QED BY <1>7, <1>8, <1>9, <1>10, <1>11 DEF HubInv

-----------------------------------------------------------------------------
(* The widget                                                               *)

LEMMA SettleFacts ==
    ASSUME NEW w \in Widget, Settle(w), loads \subseteq Load
    PROVE  /\ widget' \in Widget /\ loads' \subseteq Load
           /\ widget'.owner = w.owner /\ widget'.sending = w.sending
<1> DEFINE load == w.conv \notin {None, widget.conv, w.last} /\ ~w.sending
           last == IF load \/ w.conv = None THEN w.conv ELSE w.last
<1>1. /\ widget' = [w EXCEPT !.last = last]
      /\ loads' = IF load THEN loads \cup {[conv |-> w.conv, generating |-> FALSE]} ELSE loads
  BY DEF Settle
<1>2. last \in Convs \cup {None} /\ w.conv \in Convs \cup {None}
  BY DEF Widget
<1>3. load => [conv |-> w.conv, generating |-> FALSE] \in Load
  BY <1>2 DEF Load
<1>4. loads' \subseteq Load
  BY <1>1, <1>3
<1> HIDE DEF last, load
<1> QED BY <1>1, <1>2, <1>4 DEF Widget

LEMMA FreeFacts ==
    ASSUME NEW w \in Widget, NEW o \in Exchanges
    PROVE  /\ Free(w, o) \in Widget
           /\ Free(w, o).owner = IF w.owner = o THEN None ELSE w.owner
           /\ Free(w, o).sending = IF w.owner = o THEN FALSE ELSE w.sending
           /\ Free(w, o).conv = w.conv
BY DEF Free, Widget

(* Everything about the widget but its owner may change while no exchange   *)
(* does.                                                                    *)
LEMMA WidgetChanges ==
    ASSUME ChatInv, HubInv', UNCHANGED <<op, post>>, widget' \in Widget, loads' \subseteq Load,
           widget'.owner = widget.owner, widget'.sending = widget.sending
    PROVE  ChatInv'
<1>1. ClientTypeOK /\ OpInv /\ SendingHasOwner
  BY DEF ChatInv
<1>2. ClientTypeOK' /\ OpInv'
  BY <1>1 DEF ClientTypeOK, OpInv
<1>3. SendingHasOwner'
  BY <1>1 DEF SendingHasOwner
<1> QED BY <1>2, <1>3 DEF ChatInv

(* An exchange that ends gives the widget free if it owns it.               *)
LEMMA EndKeeps ==
    ASSUME ChatInv, NEW o \in Exchanges, op[o].pc # "unused", Ends(o),
           UNCHANGED <<post, rows, answers, hub, run, deletes>>,
           widget' \in Widget, loads' \subseteq Load,
           widget'.owner = IF widget.owner = o THEN None ELSE widget.owner,
           widget'.sending = IF widget.owner = o THEN FALSE ELSE widget.sending
    PROVE  Quiet /\ ChatInv'
<1>1. HubInv /\ HubTypeOK /\ ClientTypeOK /\ OpInv /\ SendingHasOwner
  BY DEF ChatInv, HubInv
<1>2. op' = [op EXCEPT ![o] = Over] /\ reader' = [reader EXCEPT ![o] = NoReader]
  BY DEF Ends
<1>3. /\ Over \in Op /\ Over.pc = "done"
      /\ op' \in [Exchanges -> Op]
      /\ op'[o] = Over
      /\ \A x \in Exchanges : x # o => op'[x] = op[x]
  BY <1>1, <1>2 DEF ClientTypeOK, Over, Op
<1>4. Quiet
  BY <1>1, <1>2, NoReaderType DEF Quiet, HubTypeOK, Emptied
<1>5. HubInv'
  BY <1>1, <1>4, QuietKeeps
<1>6. ClientTypeOK' /\ OpInv'
  BY <1>1, <1>3 DEF ClientTypeOK, OpInv
<1>7. SendingHasOwner'
  <2>1. o # None
    BY NoneAssumption
  <2>2. widget'.sending <=> widget'.owner # None
    BY <1>1, <2>1 DEF SendingHasOwner
  <2>3. ASSUME NEW x \in Exchanges, op'[x].pc \in {"stream", "resume"}
        PROVE widget'.owner = x
    <3>1. x # o /\ op'[x] = op[x]
      BY <1>3, <2>3
    <3>2. widget.owner = x
      BY <1>1, <2>3, <3>1 DEF SendingHasOwner
    <3> QED BY <3>1, <3>2
  <2>4. ASSUME widget'.owner # None
        PROVE op'[widget'.owner].pc \notin {"unused", "done"}
    <3>1. widget.owner # o /\ widget'.owner = widget.owner /\ widget.owner \in Exchanges
      BY <1>1, <2>4 DEF ClientTypeOK, Widget
    <3> QED BY <1>1, <1>3, <2>4, <3>1 DEF SendingHasOwner
  <2> QED BY <2>2, <2>3, <2>4 DEF SendingHasOwner
<1> QED BY <1>4, <1>5, <1>6, <1>7 DEF ChatInv

(* A stream that falls back keeps the widget.                               *)
LEMMA FallBackKeeps ==
    ASSUME ChatInv, NEW o \in Exchanges, Streaming(o), FallBack(o),
           UNCHANGED <<rows, answers, hub, run, deletes>>,
           widget' \in Widget, loads' \subseteq Load,
           widget'.owner = widget.owner, widget'.sending = widget.sending
    PROVE  Quiet /\ ChatInv'
<1>1. HubInv /\ HubTypeOK /\ ClientTypeOK /\ OpInv /\ SendingHasOwner
  BY DEF ChatInv, HubInv
<1>2. /\ op' = [op EXCEPT ![o] = [op[o] EXCEPT !.pc = "chat"]]
      /\ post' = [post EXCEPT ![Classic(o)] = [pc |-> "sent", conv |-> op[o].conv]]
      /\ reader' = [reader EXCEPT ![o] = NoReader]
  BY DEF FallBack
<1>3. o \in Prompts /\ Classic(o) \in Posts /\ post[Classic(o)].pc = "none"
  BY <1>1 DEF OpInv, Streaming, Classic, Posts
<1>4. op[o] \in Op /\ op[o].conv \in Convs \cup {None}
  BY <1>1 DEF ClientTypeOK, Op
<1>5. /\ op' \in [Exchanges -> Op]
      /\ op'[o].pc = "chat"
      /\ \A x \in Exchanges : x # o => op'[x] = op[x]
  <2>1. [op[o] EXCEPT !.pc = "chat"] \in Op /\ [op[o] EXCEPT !.pc = "chat"].pc = "chat"
    BY <1>4 DEF Op
  <2> QED BY <1>1, <1>2, <2>1 DEF ClientTypeOK
<1>6. /\ post' \in [Posts -> [pc : {"none", "sent", "stored", "started", "refused"},
                             conv : Convs \cup {None}]]
      /\ post'[Classic(o)].pc = "sent"
      /\ \A p \in Posts : p # Classic(o) => post'[p] = post[p]
  BY <1>1, <1>2, <1>3, <1>4 DEF HubTypeOK
<1>7. Quiet
  BY <1>1, <1>2, <1>3, <1>6, NoReaderType DEF Quiet, HubTypeOK, Emptied
<1>8. HubInv'
  BY <1>1, <1>7, QuietKeeps
<1>9. ClientTypeOK'
  BY <1>5 DEF ClientTypeOK
<1>10. OpInv'
  <2> SUFFICES ASSUME NEW x \in Exchanges
               PROVE /\ op'[x].pc = "unused" /\ x \in Prompts => /\ post'[Streamed(x)].pc = "none"
                                                                 /\ post'[Classic(x)].pc = "none"
                     /\ op'[x].pc = "stream" => x \in Prompts /\ post'[Classic(x)].pc = "none"
                     /\ op'[x].pc = "chat" => x \in Prompts
                     /\ op'[x].pc = "resume" => x \in Resumptions /\ op'[x].conv \in Convs
    BY DEF OpInv, Streamed, Classic
  <2>1. CASE x = o
    BY <1>3, <1>5, <2>1
  <2>2. CASE x # o
    <3>1. Streamed(x) # Classic(o) /\ Classic(x) # Classic(o)
      BY <2>2 DEF Streamed, Classic
    <3>2. x \in Prompts => Streamed(x) \in Posts /\ Classic(x) \in Posts
      BY DEF Streamed, Classic, Posts
    <3> QED BY <1>1, <1>5, <1>6, <2>2, <3>1, <3>2 DEF OpInv
  <2> QED BY <2>1, <2>2
<1>11. SendingHasOwner'
  <2>1. ASSUME NEW x \in Exchanges, op'[x].pc \in {"stream", "resume"}
        PROVE widget'.owner = x
    BY <1>1, <1>5, <2>1 DEF SendingHasOwner
  <2>2. ASSUME widget'.owner # None
        PROVE op'[widget'.owner].pc \notin {"unused", "done"}
    <3>1. widget.owner \in Exchanges
      BY <1>1, <2>2 DEF ClientTypeOK, Widget
    <3> QED BY <1>1, <1>5, <2>2, <3>1 DEF SendingHasOwner
  <2> QED BY <1>1, <2>1, <2>2 DEF SendingHasOwner
<1> QED BY <1>7, <1>8, <1>9, <1>10, <1>11 DEF ChatInv

(* Nothing of the server changes.                                           *)
LEMMA StillQuiet ==
    ASSUME HubInv, UNCHANGED hubVars
    PROVE  Quiet
BY NoReaderType DEF Quiet, HubInv, HubTypeOK, hubVars, Emptied

LEMMA SendKeeps ==
    ASSUME ChatInv, NEW o \in Exchanges, Send(o)
    PROVE  Quiet /\ ChatInv'
<1>1. HubInv /\ HubTypeOK /\ ClientTypeOK /\ OpInv /\ SendingHasOwner
  BY DEF ChatInv, HubInv
<1>2. /\ o \in Prompts /\ op[o].pc = "unused" /\ ~widget.sending
      /\ op' = [op EXCEPT ![o].pc = "stream", ![o].conv = widget.conv]
      /\ post' = [post EXCEPT ![Streamed(o)] = [pc |-> "sent", conv |-> widget.conv]]
      /\ widget' = [widget EXCEPT !.sending = TRUE, !.owner = o, !.live = "empty"]
      /\ UNCHANGED <<rows, answers, hub, run, reader, deletes, loads>>
  BY DEF Send
<1>3. op[o] \in Op /\ widget \in Widget /\ widget.conv \in Convs \cup {None} /\ widget.owner = None
  BY <1>1, <1>2 DEF ClientTypeOK, Widget, SendingHasOwner
<1>4. /\ op' \in [Exchanges -> Op]
      /\ op'[o].pc = "stream"
      /\ \A x \in Exchanges : x # o => op'[x] = op[x]
  <2>1. op' = [op EXCEPT ![o] = [op[o] EXCEPT !.pc = "stream", !.conv = widget.conv]]
    BY <1>1, <1>2 DEF ClientTypeOK
  <2>2. /\ [op[o] EXCEPT !.pc = "stream", !.conv = widget.conv] \in Op
        /\ [op[o] EXCEPT !.pc = "stream", !.conv = widget.conv].pc = "stream"
    BY <1>3 DEF Op
  <2> QED BY <1>1, <2>1, <2>2 DEF ClientTypeOK
<1>5. /\ Streamed(o) \in Posts /\ Classic(o) \in Posts /\ Streamed(o) # Classic(o)
      /\ post[Streamed(o)].pc = "none" /\ post[Classic(o)].pc = "none"
  BY <1>1, <1>2 DEF OpInv, Streamed, Classic, Posts
<1>6. /\ post' \in [Posts -> [pc : {"none", "sent", "stored", "started", "refused"},
                             conv : Convs \cup {None}]]
      /\ post'[Streamed(o)].pc = "sent"
      /\ \A p \in Posts : p # Streamed(o) => post'[p] = post[p]
  BY <1>1, <1>2, <1>3, <1>5 DEF HubTypeOK
<1>7. Quiet
  BY <1>1, <1>2, <1>5, <1>6 DEF Quiet, HubTypeOK, Emptied
<1>8. HubInv'
  BY <1>1, <1>7, QuietKeeps
<1>9. widget' \in Widget /\ widget'.owner = o /\ widget'.sending = TRUE
  BY <1>2, <1>3 DEF Widget
<1>10. ClientTypeOK'
  BY <1>1, <1>2, <1>4, <1>9 DEF ClientTypeOK
<1>11. OpInv'
  <2> SUFFICES ASSUME NEW x \in Exchanges
               PROVE /\ op'[x].pc = "unused" /\ x \in Prompts => /\ post'[Streamed(x)].pc = "none"
                                                                 /\ post'[Classic(x)].pc = "none"
                     /\ op'[x].pc = "stream" => x \in Prompts /\ post'[Classic(x)].pc = "none"
                     /\ op'[x].pc = "chat" => x \in Prompts
                     /\ op'[x].pc = "resume" => x \in Resumptions /\ op'[x].conv \in Convs
    BY DEF OpInv, Streamed, Classic
  <2>1. CASE x = o
    BY <1>2, <1>4, <1>5, <1>6, <2>1
  <2>2. CASE x # o
    <3>1. Streamed(x) # Streamed(o) /\ Classic(x) # Streamed(o)
      BY <2>2 DEF Streamed, Classic
    <3>2. x \in Prompts => Streamed(x) \in Posts /\ Classic(x) \in Posts
      BY DEF Streamed, Classic, Posts
    <3> QED BY <1>1, <1>4, <1>6, <2>2, <3>1, <3>2 DEF OpInv
  <2> QED BY <2>1, <2>2
<1>12. SendingHasOwner'
  <2>1. o # None
    BY NoneAssumption
  <2>2. ASSUME NEW x \in Exchanges, op'[x].pc \in {"stream", "resume"}
        PROVE x = o
    <3>1. x # o => widget.owner = x
      BY <1>1, <1>4, <2>2 DEF SendingHasOwner
    <3>2. x # None
      BY NoneAssumption
    <3> QED BY <1>3, <3>1, <3>2
  <2> QED BY <1>4, <1>9, <2>1, <2>2 DEF SendingHasOwner
<1> QED BY <1>7, <1>8, <1>10, <1>11, <1>12 DEF ChatInv

(* The exchange that is aborted by a resumption falls back or ends, and the *)
(* resumption owns the widget.                                              *)
LEMMA TakeOverKeeps ==
    ASSUME ChatInv, NEW l \in loads, NEW o \in Exchanges, TakeOver(l, o)
    PROVE  Quiet /\ ChatInv'
<1>1. HubInv /\ HubTypeOK /\ ClientTypeOK /\ OpInv /\ SendingHasOwner
  BY DEF ChatInv, HubInv
<1> DEFINE resuming == [pc |-> "resume", conv |-> l.conv]
           old == widget.owner
           taken == OwnerIs({"stream", "resume"})
           next == IF Streaming(old) THEN [op[old] EXCEPT !.pc = "chat"] ELSE Over
<1>2. /\ o \in Resumptions /\ op[o].pc = "unused"
      /\ loads' = loads \ {l}
      /\ widget' = [widget EXCEPT !.sending = TRUE, !.owner = o, !.live = "empty"]
      /\ UNCHANGED <<rows, answers, hub, run, deletes>>
  BY DEF TakeOver
<1>3. resuming \in Op /\ resuming.pc = "resume" /\ Over \in Op /\ Over.pc = "done"
  BY <1>1 DEF ClientTypeOK, Load, Op, Over
<1>4. widget' \in Widget /\ widget'.owner = o /\ widget'.sending = TRUE
  BY <1>1, <1>2 DEF ClientTypeOK, Widget
<1>5. o # None /\ o \notin Prompts
  BY <1>2, NoneAssumption, ExchangesAssumption
<1>6. ASSUME op' \in [Exchanges -> Op], op'[o] = resuming,
             \A x \in Exchanges : x # o => op'[x] = op[x] \/ op'[x].pc \in {"chat", "done"},
             \A x \in Exchanges : x # o => op'[x].pc \notin {"stream", "resume"},
             \A x \in Exchanges : x # o /\ op'[x].pc = "chat" => x \in Prompts,
             \A x \in Exchanges, p \in Posts : op[x].pc = "unused" => (p[1] = x => post'[p] = post[p]),
             Quiet
      PROVE  ChatInv'
  <2>1. HubInv'
    BY <1>1, <1>6, QuietKeeps
  <2>2. ClientTypeOK'
    BY <1>1, <1>2, <1>4, <1>6 DEF ClientTypeOK
  <2>3. OpInv'
    <3> SUFFICES ASSUME NEW x \in Exchanges
                 PROVE /\ op'[x].pc = "unused" /\ x \in Prompts => /\ post'[Streamed(x)].pc = "none"
                                                                   /\ post'[Classic(x)].pc = "none"
                       /\ op'[x].pc = "stream" => x \in Prompts /\ post'[Classic(x)].pc = "none"
                       /\ op'[x].pc = "chat" => x \in Prompts
                       /\ op'[x].pc = "resume" => x \in Resumptions /\ op'[x].conv \in Convs
      BY DEF OpInv, Streamed, Classic
    <3>1. CASE x = o
      <4>1. resuming.conv \in Convs
        BY <1>1 DEF ClientTypeOK, Load
      <4> HIDE DEF resuming
      <4> QED BY <1>2, <1>3, <1>6, <3>1, <4>1
    <3>2. CASE x # o
      <4>1. op'[x].pc = "unused" => op[x].pc = "unused"
        BY <1>6, <3>2
      <4>2. x \in Prompts => /\ Streamed(x) \in Posts /\ Streamed(x)[1] = x
                             /\ Classic(x) \in Posts /\ Classic(x)[1] = x
        BY DEF Streamed, Classic, Posts
      <4> QED BY <1>1, <1>6, <3>2, <4>1, <4>2 DEF OpInv
    <3> QED BY <3>1, <3>2
  <2>4. SendingHasOwner'
    BY <1>3, <1>4, <1>5, <1>6 DEF SendingHasOwner
  <2> QED BY <2>1, <2>2, <2>3, <2>4 DEF ChatInv
<1>7. CASE ~taken
  <2>1. op' = [op EXCEPT ![o] = resuming] /\ UNCHANGED <<post, reader>>
    BY <1>7 DEF TakeOver
  <2>2. Quiet
    BY <1>1, <1>2, <2>1 DEF Quiet, HubTypeOK, Emptied
  <2>3. \A x \in Exchanges : op[x].pc \notin {"stream", "resume"}
    <3> SUFFICES ASSUME NEW x \in Exchanges, op[x].pc \in {"stream", "resume"} PROVE FALSE
      OBVIOUS
    <3>1. widget.owner = x
      BY <1>1 DEF SendingHasOwner
    <3> QED BY <1>7, <3>1 DEF OwnerIs
  <2>4. op' \in [Exchanges -> Op] /\ op'[o] = resuming /\ \A x \in Exchanges : x # o => op'[x] = op[x]
    BY <1>1, <1>3, <2>1 DEF ClientTypeOK
  <2>5. \A x \in Exchanges : x # o /\ op'[x].pc = "chat" => x \in Prompts
    BY <1>1, <2>4 DEF OpInv
  <2> QED BY <1>6, <2>1, <2>2, <2>3, <2>4, <2>5
<1>8. CASE taken
  <2>1. old \in Exchanges /\ op[old].pc \in {"stream", "resume"} /\ old # o
    BY <1>2, <1>8 DEF OwnerIs
  <2>2. /\ op' = [op EXCEPT ![o] = resuming, ![old] = next]
        /\ post' = IF Streaming(old)
                   THEN [post EXCEPT ![Classic(old)] = [pc |-> "sent", conv |-> op[old].conv]]
                   ELSE post
        /\ reader' = [reader EXCEPT ![old] = NoReader]
    BY <1>1, <1>8, <2>1 DEF TakeOver, ClientTypeOK
  <2>3. op[old] \in Op /\ op[old].conv \in Convs \cup {None}
    BY <1>1, <2>1 DEF ClientTypeOK, Op
  <2>4. next \in Op /\ next.pc \in {"chat", "done"}
    BY <1>3, <2>3 DEF Op
  <2>5. Streaming(old) => old \in Prompts /\ Classic(old) \in Posts /\ post[Classic(old)].pc = "none"
    BY <1>1, <2>1 DEF OpInv, Streaming, Classic, Posts
  <2>6. /\ post' \in [Posts -> [pc : {"none", "sent", "stored", "started", "refused"},
                               conv : Convs \cup {None}]]
        /\ \A p \in Posts : p # Classic(old) => post'[p] = post[p]
        /\ \A p \in Posts : post'[p] = post[p] \/ (post[p].pc = "none" /\ post'[p].pc = "sent")
    BY <1>1, <2>2, <2>3, <2>5 DEF HubTypeOK
  <2>7. Quiet
    BY <1>1, <1>2, <2>2, <2>6, NoReaderType DEF Quiet, HubTypeOK, Emptied
  <2> HIDE DEF next, resuming
  <2>8. /\ op' \in [Exchanges -> Op] /\ op'[o] = resuming /\ op'[old] = next
        /\ \A x \in Exchanges : x \notin {o, old} => op'[x] = op[x]
    BY <1>1, <1>3, <2>1, <2>2, <2>4 DEF ClientTypeOK
  <2>9. \A x \in Exchanges : x # o => op'[x].pc \notin {"stream", "resume"}
    <3> SUFFICES ASSUME NEW x \in Exchanges, x # o, op'[x].pc \in {"stream", "resume"} PROVE FALSE
      OBVIOUS
    <3>1. x # old /\ op'[x] = op[x]
      BY <2>4, <2>8
    <3>2. widget.owner = x
      BY <1>1, <3>1 DEF SendingHasOwner
    <3> QED BY <3>1, <3>2
  <2>10. \A x \in Exchanges, p \in Posts : op[x].pc = "unused" => (p[1] = x => post'[p] = post[p])
    <3>1. Classic(old)[1] = old
      BY DEF Classic
    <3> QED BY <2>1, <2>6, <3>1
  <2>11. \A x \in Exchanges : x # o => op'[x] = op[x] \/ op'[x].pc \in {"chat", "done"}
    BY <2>4, <2>8
  <2>12. \A x \in Exchanges : x # o /\ op'[x].pc = "chat" => x \in Prompts
    <3>1. next.pc = "chat" => old \in Prompts
      BY <2>5 DEF next, Over
    <3> QED BY <1>1, <2>8, <3>1 DEF OpInv
  <2> QED BY <1>6, <2>7, <2>8, <2>9, <2>10, <2>11, <2>12
<1> QED BY <1>7, <1>8
(* An exchange ends, and the widget settles.                                *)
LEMMA SettledEndKeeps ==
    ASSUME ChatInv, NEW o \in Exchanges, op[o].pc # "unused", Ends(o),
           UNCHANGED <<post, rows, answers, hub, run, deletes>>,
           NEW w \in Widget, Settle(w),
           w.owner = IF widget.owner = o THEN None ELSE widget.owner,
           w.sending = IF widget.owner = o THEN FALSE ELSE widget.sending
    PROVE  Quiet /\ ChatInv'
<1>1. loads \subseteq Load
  BY DEF ChatInv, ClientTypeOK
<1>2. /\ widget' \in Widget /\ loads' \subseteq Load
      /\ widget'.owner = w.owner /\ widget'.sending = w.sending
  BY <1>1, SettleFacts
<1> QED BY <1>2, EndKeeps

(* The same with nothing else about the widget changed                      *)
LEMMA FreedEndKeeps ==
    ASSUME ChatInv, NEW o \in Exchanges, op[o].pc # "unused", Ends(o),
           UNCHANGED <<post, rows, answers, hub, run, deletes>>, Settle(Free(widget, o))
    PROVE  Quiet /\ ChatInv'
<1>1. widget \in Widget
  BY DEF ChatInv, ClientTypeOK
<1> DEFINE w == Free(widget, o)
<1>2. /\ w \in Widget
      /\ w.owner = IF widget.owner = o THEN None ELSE widget.owner
      /\ w.sending = IF widget.owner = o THEN FALSE ELSE widget.sending
      /\ Settle(w)
  BY <1>1, FreeFacts
<1> HIDE DEF w
<1> QED BY <1>2, SettledEndKeeps

(* The widget settles, and no exchange changes.                             *)
LEMMA SettledKeeps ==
    ASSUME ChatInv, HubInv', UNCHANGED <<op, post>>, NEW w \in Widget, Settle(w),
           w.owner = widget.owner, w.sending = widget.sending
    PROVE  ChatInv'
<1>1. loads \subseteq Load
  BY DEF ChatInv, ClientTypeOK
<1>2. /\ widget' \in Widget /\ loads' \subseteq Load
      /\ widget'.owner = w.owner /\ widget'.sending = w.sending
  BY <1>1, SettleFacts
<1> QED BY <1>2, WidgetChanges

LEMMA StreamFailsKeeps ==
    ASSUME ChatInv, NEW o \in Exchanges, Streaming(o), StreamFails(o)
    PROVE  Quiet /\ ChatInv'
<1>1. op[o].pc = "stream" /\ widget \in Widget /\ loads \subseteq Load
  BY DEF Streaming, ChatInv, ClientTypeOK
<1>2. CASE HadOutput
  BY <1>1, <1>2, FreedEndKeeps DEF StreamFails
<1>3. CASE ~HadOutput
  BY <1>1, <1>3, FallBackKeeps DEF StreamFails
<1> QED BY <1>2, <1>3

LEMMA StreamSucceedsKeeps ==
    ASSUME ChatInv, NEW o \in Exchanges, StreamSucceeds(o)
    PROVE  Quiet /\ ChatInv'
<1>1. /\ op[o].pc = "stream" /\ widget \in Widget /\ Ends(o)
      /\ UNCHANGED <<post, rows, answers, hub, run, deletes>>
  BY DEF StreamSucceeds, Streaming, ChatInv, ClientTypeOK
<1> DEFINE f == Free(widget, o)
           c == post[reader[o].run].conv
           w == [f EXCEPT !.conv = c]
<1>2. reader[o].st = "ended" /\ Settle(w)
  BY DEF StreamSucceeds, Whole
<1>3. c \in Convs \cup {None}
  BY <1>2 DEF ChatInv, HubInv, HubTypeOK, ReaderInv
<1>4. /\ f \in Widget
      /\ f.owner = IF widget.owner = o THEN None ELSE widget.owner
      /\ f.sending = IF widget.owner = o THEN FALSE ELSE widget.sending
  BY <1>1, FreeFacts
<1> HIDE DEF f, c
<1>5. w \in Widget /\ w.owner = f.owner /\ w.sending = f.sending
  BY <1>3, <1>4 DEF Widget
<1> HIDE DEF w
<1> QED BY <1>1, <1>2, <1>4, <1>5, SettledEndKeeps

LEMMA ChatAnswersKeeps ==
    ASSUME ChatInv, NEW o \in Exchanges, ChatAnswers(o)
    PROVE  Quiet /\ ChatInv'
<1> DEFINE f == Free(widget, o)
           c == post[Classic(o)].conv
           w == IF LastEvent(Classic(o)) = "final" THEN [f EXCEPT !.conv = c] ELSE f
<1>1. /\ op[o].pc = "chat" /\ widget \in Widget /\ Ends(o) /\ Settle(w)
      /\ UNCHANGED <<post, rows, answers, hub, run, deletes>>
  BY DEF ChatAnswers, ChatInv, ClientTypeOK
<1>2. c \in Convs \cup {None}
  <2>1. Classic(o) \in Posts
    BY <1>1 DEF ChatInv, OpInv, Classic, Posts
  <2> QED BY <2>1 DEF ChatInv, HubInv, HubTypeOK
<1>3. /\ f \in Widget
      /\ f.owner = IF widget.owner = o THEN None ELSE widget.owner
      /\ f.sending = IF widget.owner = o THEN FALSE ELSE widget.sending
  BY <1>1, FreeFacts
<1> HIDE DEF f, c
<1>4. w \in Widget /\ w.owner = f.owner /\ w.sending = f.sending
  <2>1. /\ [f EXCEPT !.conv = c] \in Widget
        /\ [f EXCEPT !.conv = c].owner = f.owner
        /\ [f EXCEPT !.conv = c].sending = f.sending
    BY <1>2, <1>3 DEF Widget
  <2> QED BY <1>3, <2>1
<1> HIDE DEF w
<1> QED BY <1>1, <1>3, <1>4, SettledEndKeeps

(* Receiving reads the run and touches the screen only.                     *)
LEMMA ReceiveKeeps ==
    ASSUME ChatInv, NEW o \in Exchanges, Receive(o)
    PROVE  UNCHANGED <<post, answers, run, deletes>> /\ ChatInv'
<1> DEFINE named == Streaming(o) /\ ~reader[o].hello
           output == widget.live = "empty" /\ "delta" \in Heard(o)'
           c == IF named THEN post[reader[o].run].conv ELSE widget.conv
           live == IF output THEN "output" ELSE widget.live
           w == [widget EXCEPT !.conv = c, !.live = live]
<1>1. Read(o) /\ UNCHANGED op /\ Settle(w)
  BY DEF Receive
<1>2. UNCHANGED <<post, answers, run, deletes>> /\ reader[o].st = "open"
  BY <1>1 DEF Read
<1>3. HubInv'
  BY <1>1, ReadKeeps DEF ChatInv
<1>4. widget \in Widget
  BY DEF ChatInv, ClientTypeOK
<1>5. c \in Convs \cup {None}
  <2>1. reader[o].run \in Posts
    BY <1>2 DEF ChatInv, HubInv, ReaderInv
  <2> QED BY <1>4, <2>1 DEF ChatInv, HubInv, HubTypeOK, Widget
<1>6. live \in {"none", "empty", "output"}
  BY <1>4 DEF Widget
<1> HIDE DEF c, live
<1>7. w \in Widget /\ w.owner = widget.owner /\ w.sending = widget.sending
  BY <1>4, <1>5, <1>6 DEF Widget
<1> HIDE DEF w
<1> QED BY <1>1, <1>2, <1>3, <1>7, SettledKeeps

LEMMA ReloadKeeps ==
    ASSUME ChatInv, NEW o \in Exchanges, Reload(o)
    PROVE  Quiet /\ ChatInv'
<1>1. HubInv /\ HubTypeOK /\ ClientTypeOK /\ OpInv /\ SendingHasOwner
  BY DEF ChatInv, HubInv
<1>2. /\ op[o].pc = "resume"
      /\ op' = [op EXCEPT ![o] = [op[o] EXCEPT !.pc = "reload"]]
      /\ reader' = [reader EXCEPT ![o] = NoReader]
      /\ UNCHANGED <<post, rows, answers, hub, run, deletes, widget, loads>>
  BY DEF Reload
<1>3. /\ op' \in [Exchanges -> Op]
      /\ op'[o].pc = "reload"
      /\ \A x \in Exchanges : x # o => op'[x] = op[x]
  <2>1. op[o] \in Op
    BY <1>1 DEF ClientTypeOK
  <2>2. [op[o] EXCEPT !.pc = "reload"] \in Op /\ [op[o] EXCEPT !.pc = "reload"].pc = "reload"
    BY <2>1 DEF Op
  <2> QED BY <1>1, <1>2, <2>2 DEF ClientTypeOK
<1>4. Quiet
  BY <1>1, <1>2, NoReaderType DEF Quiet, HubTypeOK, Emptied
<1>5. HubInv'
  BY <1>1, <1>4, QuietKeeps
<1>6. ClientTypeOK' /\ OpInv'
  BY <1>1, <1>2, <1>3 DEF ClientTypeOK, OpInv
<1>7. SendingHasOwner'
  <2>1. ASSUME NEW x \in Exchanges, op'[x].pc \in {"stream", "resume"} PROVE widget.owner = x
    BY <1>1, <1>3, <2>1 DEF SendingHasOwner
  <2>2. ASSUME widget.owner # None PROVE op'[widget.owner].pc \notin {"unused", "done"}
    <3>1. widget.owner \in Exchanges
      BY <1>1, <2>2 DEF ClientTypeOK, Widget
    <3> QED BY <1>1, <1>3, <2>2, <3>1 DEF SendingHasOwner
  <2> QED BY <1>1, <1>2, <2>1, <2>2 DEF SendingHasOwner
<1> QED BY <1>4, <1>5, <1>6, <1>7 DEF ChatInv

(* Taking up an answer: the server looks the run up, the widget waits.      *)
LEMMA AttachKeeps ==
    ASSUME ChatInv, NEW o \in Exchanges, Attach(o)
    PROVE  UNCHANGED <<post, answers, run, deletes>> /\ ChatInv'
<1>1. /\ op[o].pc = "resume" /\ Lookup(o, op[o].conv) /\ UNCHANGED <<widget, op, loads>>
  BY DEF Attach, clientVars
<1>2. op[o].conv \in Convs
  BY <1>1 DEF ChatInv, OpInv
<1>3. HubInv'
  BY <1>1, <1>2, LookupKeeps DEF ChatInv
<1>4. UNCHANGED <<post, answers, run, deletes>>
  BY <1>1 DEF Lookup
<1>5. widget' \in Widget /\ loads' \subseteq Load /\ UNCHANGED <<op, post, widget>>
  BY <1>1, <1>4 DEF ChatInv, ClientTypeOK
<1> QED BY <1>3, <1>4, <1>5, WidgetChanges

(* What happens to the requests that read a conversation                    *)
LEMMA LoadKeeps ==
    ASSUME ChatInv, NEW l \in loads, AnswerLoad(l) \/ LoadFails(l)
    PROVE  Quiet /\ ChatInv'
<1>1. HubInv /\ widget \in Widget /\ loads \subseteq Load /\ l \in Load
  BY DEF ChatInv, ClientTypeOK
<1>2. Quiet /\ UNCHANGED <<op, post>>
  BY <1>1, StillQuiet DEF AnswerLoad, LoadFails, hubVars
<1>3. HubInv'
  BY <1>1, <1>2, QuietKeeps
<1>4. CASE AnswerLoad(l)
  <2>1. [l EXCEPT !.generating = TRUE] \in Load
    BY <1>1 DEF Load
  <2>2. loads' \subseteq Load /\ UNCHANGED widget
    BY <1>1, <1>4, <2>1 DEF AnswerLoad
  <2> QED BY <1>1, <1>2, <1>3, <2>2, WidgetChanges
<1>5. CASE LoadFails(l)
  <2>1. /\ widget' = [widget EXCEPT !.conv = None, !.last = None]
        /\ loads' \subseteq Load
    BY <1>1, <1>5 DEF LoadFails
  <2>2. widget' \in Widget /\ widget'.owner = widget.owner /\ widget'.sending = widget.sending
    BY <1>1, <2>1 DEF Widget
  <2> QED BY <1>2, <1>3, <2>1, <2>2, WidgetChanges
<1> QED BY <1>4, <1>5

(* "New conversation": whatever the owner was doing, the widget is blank.   *)
LEMMA ResetKeeps ==
    ASSUME ChatInv, Reset
    PROVE  Quiet /\ ChatInv'
<1> DEFINE o == widget.owner
           blank == [Blank EXCEPT !.sending = widget.sending, !.owner = o]
<1>1. HubInv /\ widget \in Widget /\ loads \subseteq Load
  BY DEF ChatInv, ClientTypeOK
<1>2. blank \in Widget /\ blank.owner = widget.owner /\ blank.sending = widget.sending
  BY <1>1 DEF Widget, Blank
<1> HIDE DEF blank
<1>3. CASE Settle(blank) /\ UNCHANGED <<hubVars, op>>
  <2>1. Quiet /\ UNCHANGED <<op, post>>
    BY <1>1, <1>3, StillQuiet DEF hubVars
  <2>2. HubInv'
    BY <1>1, <2>1, QuietKeeps
  <2> QED BY <1>2, <1>3, <2>1, <2>2, SettledKeeps
<1>4. CASE /\ OwnerIs({"stream"}) /\ Settle(blank) /\ FallBack(o)
           /\ UNCHANGED <<rows, answers, hub, run, deletes>>
  <2>1. o \in Exchanges /\ Streaming(o)
    BY <1>4 DEF OwnerIs, Streaming
  <2>2. /\ widget' \in Widget /\ loads' \subseteq Load
        /\ widget'.owner = widget.owner /\ widget'.sending = widget.sending
    BY <1>1, <1>2, <1>4, SettleFacts
  <2> QED BY <1>4, <2>1, <2>2, FallBackKeeps
<1>5. CASE /\ OwnerIs({"resume"}) /\ Settle(Free(blank, o)) /\ Ends(o) /\ UNCHANGED post
           /\ UNCHANGED <<rows, answers, hub, run, deletes>>
  <2>1. o \in Exchanges /\ op[o].pc # "unused"
    BY <1>5 DEF OwnerIs
  <2> DEFINE w == Free(blank, o)
  <2>2. w \in Widget /\ w.owner = None /\ w.sending = FALSE /\ Settle(w)
    BY <1>2, <1>5, <2>1, FreeFacts
  <2> HIDE DEF w
  <2> QED BY <1>5, <2>1, <2>2, SettledEndKeeps
<1> QED BY <1>3, <1>4, <1>5 DEF Reset, blank

LEMMA SelectKeeps ==
    ASSUME ChatInv, NEW c \in rows, SelectConversation(c)
    PROVE  Quiet /\ ChatInv'
<1> DEFINE w == [widget EXCEPT !.conv = c]
<1>1. HubInv /\ widget \in Widget /\ c \in Convs
  BY DEF ChatInv, ClientTypeOK, HubInv, HubTypeOK
<1>2. Settle(w) /\ UNCHANGED <<hubVars, op>>
  BY DEF SelectConversation
<1>3. Quiet /\ UNCHANGED <<op, post>>
  BY <1>1, <1>2, StillQuiet DEF hubVars
<1>4. HubInv'
  BY <1>1, <1>3, QuietKeeps
<1>5. w \in Widget /\ w.owner = widget.owner /\ w.sending = widget.sending
  BY <1>1 DEF Widget
<1> HIDE DEF w
<1> QED BY <1>2, <1>3, <1>4, <1>5, SettledKeeps

(* Another page: every exchange of the old widget is over.                  *)
LEMMA NavigateKeeps ==
    ASSUME ChatInv, Navigate
    PROVE  Quiet /\ ChatInv'
<1>1. HubInv /\ HubTypeOK /\ ClientTypeOK /\ OpInv /\ SendingHasOwner
  BY DEF ChatInv, HubInv
<1> DEFINE o == widget.owner
           conv == widget.conv
           again == OwnerIs({"stream"}) /\ ~HadOutput
<1>2. /\ widget' = [Blank EXCEPT !.conv = conv, !.last = conv]
      /\ loads' = IF conv = None THEN {} ELSE {[conv |-> conv, generating |-> FALSE]}
      /\ op' = [x \in Exchanges |-> IF op[x].pc = "unused" THEN op[x] ELSE Over]
      /\ reader' = [x \in Exchanges |-> NoReader]
      /\ post' = IF again THEN [post EXCEPT ![Classic(o)] = [pc |-> "sent", conv |-> op[o].conv]]
                 ELSE post
      /\ deletes' = {[d EXCEPT !.here = FALSE] : d \in deletes}
      /\ UNCHANGED <<rows, answers, hub, run>>
  BY DEF Navigate
<1>3. conv \in Convs \cup {None}
  BY <1>1 DEF ClientTypeOK, Widget
<1>4. again => /\ o \in Prompts /\ op[o].pc = "stream" /\ Classic(o) \in Posts
               /\ post[Classic(o)].pc = "none" /\ op[o].conv \in Convs \cup {None}
  <2> SUFFICES ASSUME again
               PROVE  /\ o \in Prompts /\ op[o].pc = "stream" /\ Classic(o) \in Posts
                      /\ post[Classic(o)].pc = "none" /\ op[o].conv \in Convs \cup {None}
    OBVIOUS
  <2>1. o \in Exchanges /\ op[o].pc = "stream"
    BY DEF OwnerIs
  <2>2. op[o] \in Op
    BY <1>1, <2>1 DEF ClientTypeOK
  <2> QED BY <1>1, <2>1, <2>2 DEF OpInv, Op, Classic, Posts
<1> HIDE DEF again
<1>5. /\ post' \in [Posts -> [pc : {"none", "sent", "stored", "started", "refused"},
                             conv : Convs \cup {None}]]
      /\ \A p \in Posts : post'[p] = post[p] \/ (post[p].pc = "none" /\ post'[p].pc = "sent")
      /\ \A p \in Posts : post'[p] # post[p] => again /\ p = Classic(o)
  BY <1>1, <1>2, <1>4 DEF HubTypeOK
<1>6. deletes' \subseteq Delete /\ \A c \in Convs : Emptied(c) => Emptied(c)'
  <2>1. \A d \in deletes : /\ [d EXCEPT !.here = FALSE] \in Delete
                           /\ [d EXCEPT !.here = FALSE].conv = d.conv
                           /\ [d EXCEPT !.here = FALSE].pc = d.pc
    BY <1>1 DEF HubTypeOK, Delete
  <2>2. deletes' \subseteq Delete
    BY <1>2, <2>1
  <2>3. ASSUME NEW c \in Convs, Emptied(c) PROVE Emptied(c)'
    <3>1. PICK d \in deletes : d.conv = c /\ d.pc # "checked"
      BY <2>3 DEF Emptied
    <3>2. [d EXCEPT !.here = FALSE] \in deletes'
      BY <1>2
    <3> QED BY <2>1, <3>1, <3>2 DEF Emptied
  <2> QED BY <2>2, <2>3
<1>7. reader' \in [Exchanges -> Reader] /\ \A x \in Exchanges : reader'[x] = NoReader
  BY <1>2, NoReaderType
<1>8. Quiet
  BY <1>2, <1>5, <1>6, <1>7 DEF Quiet
<1>9. HubInv'
  BY <1>1, <1>8, QuietKeeps
<1>10. /\ widget' \in Widget /\ widget'.owner = None /\ widget'.sending = FALSE
  BY <1>2, <1>3 DEF Blank, Widget
<1>11. loads' \subseteq Load
  <2>1. conv # None => [conv |-> conv, generating |-> FALSE] \in Load
    BY <1>3 DEF Load
  <2> QED BY <1>2, <2>1
<1>12. /\ op' \in [Exchanges -> Op]
       /\ \A x \in Exchanges : op'[x].pc \in {"unused", "done"}
       /\ \A x \in Exchanges : op'[x].pc = "unused" => op[x].pc = "unused"
  <2>1. Over \in Op /\ Over.pc = "done"
    BY DEF Over, Op
  <2> QED BY <1>1, <1>2, <2>1 DEF ClientTypeOK
<1>13. ClientTypeOK'
  BY <1>10, <1>11, <1>12 DEF ClientTypeOK
<1>14. OpInv'
  <2> SUFFICES ASSUME NEW x \in Exchanges, op'[x].pc = "unused", x \in Prompts
               PROVE post'[Streamed(x)].pc = "none" /\ post'[Classic(x)].pc = "none"
    BY <1>12 DEF OpInv, Streamed, Classic
  <2>1. op[x].pc = "unused" /\ Streamed(x) \in Posts /\ Classic(x) \in Posts
    BY <1>12 DEF Streamed, Classic, Posts
  <2>2. again => x # o
    BY <1>4, <2>1
  <2>3. again => Streamed(x) # Classic(o) /\ Classic(x) # Classic(o)
    BY <2>2 DEF Streamed, Classic
  <2> QED BY <1>1, <1>5, <2>1, <2>3 DEF OpInv
<1>15. SendingHasOwner'
  BY <1>10, <1>12 DEF SendingHasOwner
<1> QED BY <1>8, <1>9, <1>13, <1>14, <1>15 DEF ChatInv

(* Deletes begin, and their answers arrive, with the exchanges untouched.   *)
LEMMA AskDeleteKeeps ==
    ASSUME ChatInv, NEW c \in rows, NEW elsewhere \in BOOLEAN, AskDelete(c, elsewhere)
    PROVE  Quiet /\ ChatInv'
<1> DEFINE here == ~elsewhere /\ c = widget.conv
           d == [conv |-> c, here |-> here, pc |-> "checked"]
<1>1. HubInv /\ HubTypeOK /\ widget \in Widget /\ loads \subseteq Load /\ c \in Convs
  BY DEF ChatInv, ClientTypeOK, HubInv, HubTypeOK
<1>2. /\ deletes' = deletes \cup {d}
      /\ UNCHANGED <<post, rows, answers, hub, run, reader, widget, op, loads>>
  BY DEF AskDelete, CheckDelete, clientVars
<1>3. here \in BOOLEAN
  OBVIOUS
<1>4. d \in Delete
  BY <1>1, <1>3 DEF Delete
<1> HIDE DEF d
<1>5. Quiet
  BY <1>1, <1>2, <1>4 DEF Quiet, HubTypeOK, Emptied
<1>6. HubInv'
  BY <1>1, <1>5, QuietKeeps
<1> QED BY <1>1, <1>2, <1>5, <1>6, WidgetChanges

LEMMA DeleteToldKeeps ==
    ASSUME ChatInv, NEW d \in deletes, DeleteTold(d)
    PROVE  Quiet /\ ChatInv'
<1> DEFINE e == [d EXCEPT !.pc = "told", !.here = FALSE]
<1>1. HubInv /\ HubTypeOK /\ widget \in Widget /\ loads \subseteq Load /\ d \in Delete
  BY DEF ChatInv, ClientTypeOK, HubInv, HubTypeOK
<1>2. /\ deletes' = (deletes \ {d}) \cup {e}
      /\ widget' = IF d.here THEN [widget EXCEPT !.conv = None, !.last = None] ELSE widget
      /\ UNCHANGED <<post, rows, answers, hub, run, reader, op, loads>>
  BY DEF DeleteTold
<1>3. e \in Delete /\ e.conv = d.conv /\ e.pc = "told"
  BY <1>1 DEF Delete
<1> HIDE DEF e
<1>4. \A x \in Convs : Emptied(x) => Emptied(x)'
  BY <1>2, <1>3 DEF Emptied
<1>5. Quiet
  BY <1>1, <1>2, <1>3, <1>4 DEF Quiet, HubTypeOK
<1>6. HubInv'
  BY <1>1, <1>5, QuietKeeps
<1>7. widget' \in Widget /\ widget'.owner = widget.owner /\ widget'.sending = widget.sending
  BY <1>1, <1>2 DEF Widget
<1> QED BY <1>1, <1>2, <1>5, <1>6, <1>7, WidgetChanges

-----------------------------------------------------------------------------
(* The server                                                               *)

LEMMA RunStepsKeep ==
    ASSUME NEW p \in Posts, HubInv, RunSteps(p)
    PROVE  HubInv'
<1>1. /\ History(run[p].events)
      /\ "stage" \in Events /\ "delta" \in Events /\ "error" \in Events /\ "final" \in Events
  BY DEF HubInv, RunInv, Events
<1>2. CASE LastEvent(p) = "none" /\ Tell(p, "stage")
  BY <1>1, <1>2, NextHistory, TellKeeps
<1>3. CASE LastEvent(p) = "stage" /\ Tell(p, "delta")
  BY <1>1, <1>3, NextHistory, TellKeeps
<1>4. CASE LastEvent(p) \in {"stage", "delta"} /\ Tell(p, "error")
  BY <1>1, <1>4, NextHistory, TellKeeps
<1>5. CASE LastEvent(p) = "delta" /\ run[p].saved /\ Tell(p, "final")
  BY <1>1, <1>5, NextHistory, TellKeeps
<1> QED BY <1>2, <1>3, <1>4, <1>5, StoreKeeps, FinishKeeps
        DEF RunSteps, Progress, Fail, TellFinal

LEMMA ServerKeepsHub ==
    ASSUME HubInv, Server
    PROVE  HubInv'
<1>1. ASSUME NEW p \in Posts,
             Accept(p) \/ Refuse(p) \/ Start(p, Streamed(p[1]) = p /\ Streaming(p[1])) \/ RunSteps(p)
      PROVE HubInv'
  <2>1. (Streamed(p[1]) = p /\ Streaming(p[1])) \in BOOLEAN
    BY DEF Streaming
  <2> QED BY <1>1, <2>1, AcceptKeeps, RefuseKeeps, StartKeeps, RunStepsKeep
<1>2. ASSUME NEW d \in deletes, DeleteSteps(d) PROVE HubInv'
  BY <1>2, DeleteStepFacts, DeleteKeeps
<1> QED BY <1>1, <1>2, RestartKeeps DEF Server

(* The server handles what was posted, and nothing else.                    *)
LEMMA ServerPosts ==
    ASSUME HubInv, Server
    PROVE  \A p \in Posts : post[p].pc = "none" => post'[p] = post[p]
<1>1. HubTypeOK
  BY DEF HubInv
<1>2. ASSUME NEW p \in Posts,
             Accept(p) \/ Refuse(p) \/ Start(p, Streamed(p[1]) = p /\ Streaming(p[1])) \/ RunSteps(p)
      PROVE \A q \in Posts : post[q].pc = "none" => post'[q] = post[q]
  <2>1. CASE Accept(p) \/ Refuse(p)
    BY <1>1, <2>1 DEF Accept, Refuse, HubTypeOK
  <2>2. CASE Start(p, Streamed(p[1]) = p /\ Streaming(p[1]))
    BY <1>1, <2>2 DEF Start, Register, HubTypeOK
  <2>3. CASE RunSteps(p)
    BY <2>3 DEF RunSteps, Progress, Fail, StoreAnswer, TellFinal, Finish, Tell
  <2> QED BY <1>2, <2>1, <2>2, <2>3
<1>3. ASSUME NEW d \in deletes, DeleteSteps(d) PROVE UNCHANGED post
  BY <1>3, DeleteStepFacts
<1>4. Restart => \A q \in Posts : post[q].pc = "none" => post'[q] = post[q]
  BY DEF Restart
<1> QED BY <1>2, <1>3, <1>4 DEF Server

LEMMA ServerKeeps ==
    ASSUME ChatInv, Server, UNCHANGED clientVars
    PROVE  ChatInv'
<1>1. HubInv /\ ClientTypeOK /\ OpInv /\ SendingHasOwner
  BY DEF ChatInv
<1>2. HubInv'
  BY <1>1, ServerKeepsHub
<1>3. UNCHANGED <<widget, op, loads>>
  BY DEF clientVars
<1>4. ClientTypeOK' /\ SendingHasOwner'
  BY <1>1, <1>3 DEF ClientTypeOK, SendingHasOwner
<1>5. OpInv'
  <2>1. \A p \in Posts : post[p].pc = "none" => post'[p] = post[p]
    BY <1>1, ServerPosts
  <2>2. \A x \in Prompts : Streamed(x) \in Posts /\ Classic(x) \in Posts
    BY DEF Streamed, Classic, Posts
  <2>3. \A x \in Exchanges : Streamed(x)' = Streamed(x) /\ Classic(x)' = Classic(x)
    BY DEF Streamed, Classic
  <2> QED BY <1>1, <1>3, <2>1, <2>2, <2>3 DEF OpInv
<1> QED BY <1>2, <1>4, <1>5 DEF ChatInv

(* Every step of the client is quiet towards the server or only reads.      *)
LEMMA ClientKeeps ==
    ASSUME ChatInv, Client \/ \E o \in Exchanges : Attach(o)
    PROVE  (Quiet \/ UNCHANGED <<post, answers, run, deletes>>) /\ ChatInv'
<1> DEFINE Goal == (Quiet \/ UNCHANGED <<post, answers, run, deletes>>) /\ ChatInv'
<1>1. ASSUME NEW o \in Exchanges, Send(o) \/ Receive(o) \/ Reload(o) \/ StreamSucceeds(o) \/ ChatAnswers(o)
      PROVE Goal
  BY <1>1, SendKeeps, ReceiveKeeps, ReloadKeeps, StreamSucceedsKeeps, ChatAnswersKeeps
<1>2. ASSUME NEW o \in Exchanges, StreamRefused(o) \/ StreamBreaks(o) PROVE Goal
  BY <1>2, StreamFailsKeeps DEF StreamRefused, StreamBreaks
<1>3. ASSUME NEW o \in Exchanges, ChatFails(o) \/ ResumeEnds(o) \/ Reloaded(o) PROVE Goal
  BY <1>3, FreedEndKeeps DEF ChatFails, ResumeEnds, Reloaded
<1>4. ASSUME NEW l \in loads, AnswerLoad(l) \/ LoadFails(l) \/ \E o \in Exchanges : TakeOver(l, o)
      PROVE Goal
  BY <1>4, LoadKeeps, TakeOverKeeps
<1>5. ASSUME Reset \/ Navigate PROVE Goal
  BY <1>5, ResetKeeps, NavigateKeeps
<1>6. ASSUME NEW c \in rows, SelectConversation(c) \/ \E e \in BOOLEAN : AskDelete(c, e) PROVE Goal
  BY <1>6, SelectKeeps, AskDeleteKeeps
<1>7. ASSUME NEW d \in deletes, DeleteTold(d) PROVE Goal
  BY <1>7, DeleteToldKeeps
<1>8. ASSUME NEW o \in Exchanges, Attach(o) PROVE Goal
  BY <1>8, AttachKeeps
<1> HIDE DEF Goal
<1>9. Goal
  BY <1>1, <1>2, <1>3, <1>4, <1>5, <1>6, <1>7, <1>8 DEF Client
<1> QED BY <1>9 DEF Goal

-----------------------------------------------------------------------------
(* The invariant of the whole, and what it says.                            *)

LEMMA InitChat == Init => ChatInv
<1> SUFFICES ASSUME Init PROVE ChatInv
  OBVIOUS
<1> DEFINE fresh == [st |-> "none", events |-> <<>>, saved |-> FALSE]
           unposted == [pc |-> "none", conv |-> None]
           unused == [pc |-> "unused", conv |-> None]
<1>1. /\ post = [p \in Posts |-> unposted] /\ rows = Stored /\ answers = {}
      /\ hub = [c \in Convs |-> None]
      /\ run = [p \in Posts |-> fresh]
      /\ reader = [o \in Exchanges |-> NoReader] /\ deletes = {}
      /\ widget = Blank /\ op = [o \in Exchanges |-> unused] /\ loads = {}
  BY DEF Init, HubInit
<1>2. /\ fresh \in Run /\ fresh.st = "none" /\ fresh.events = <<>> /\ ~fresh.saved
      /\ Len(fresh.events) = 0 /\ <<>> \in Seq(Events)
  <2>1. <<>> \in Seq(Events) /\ Len(<<>>) = 0
    OBVIOUS
  <2> QED BY <2>1 DEF Run
<1>3. /\ unposted \in [pc : {"none", "sent", "stored", "started", "refused"}, conv : Convs \cup {None}]
      /\ unposted.pc = "none"
      /\ unused \in Op /\ unused.pc = "unused"
  BY DEF Op
<1>4. NoReader \in Reader /\ NoReader.st = "none" /\ ~NoReader.waiting
  BY NoReaderType DEF NoReader
<1>5. Blank \in Widget /\ Blank.owner = None /\ ~Blank.sending
  BY DEF Blank, Widget
<1> HIDE DEF fresh, unposted, unused
<1>6. HubTypeOK
  BY <1>1, <1>2, <1>3, <1>4 DEF HubTypeOK, Convs
<1>7. PostInv /\ HubRuns
  BY <1>1, <1>2, <1>3 DEF PostInv, HubRuns
<1>8. RunInv
  <2>1. History(<<>>)
    BY <1>2 DEF History
  <2>2. \A p \in Posts : LastEvent(p) = "none"
    BY <1>1, <1>2 DEF LastEvent
  <2> QED BY <1>1, <1>2, <2>1, <2>2 DEF RunInv, Working
<1>9. ReaderInv
  BY <1>1, <1>4 DEF ReaderInv
<1>10. ClientTypeOK /\ SendingHasOwner
  BY <1>1, <1>3, <1>5 DEF ClientTypeOK, SendingHasOwner
<1>11. OpInv
  <2>1. \A o \in Prompts : Streamed(o) \in Posts /\ Classic(o) \in Posts
    BY DEF Streamed, Classic, Posts
  <2> QED BY <1>1, <1>3, <2>1 DEF OpInv
<1> QED BY <1>6, <1>7, <1>8, <1>9, <1>10, <1>11 DEF ChatInv, HubInv

LEMMA StutterKeeps ==
    ASSUME ChatInv, UNCHANGED chatVars
    PROVE  Quiet /\ ChatInv'
<1>1. UNCHANGED hubVars /\ UNCHANGED <<widget, op, loads>>
  BY DEF chatVars
<1>2. HubInv /\ ClientTypeOK
  BY DEF ChatInv
<1>3. Quiet
  BY <1>1, <1>2, StillQuiet
<1>4. HubInv' /\ widget' \in Widget /\ loads' \subseteq Load
  BY <1>1, <1>2, <1>3, QuietKeeps DEF ClientTypeOK
<1>5. UNCHANGED <<op, post>> /\ widget'.owner = widget.owner /\ widget'.sending = widget.sending
  BY <1>1 DEF hubVars
<1> QED BY <1>3, <1>4, <1>5, WidgetChanges

(* The invariant of server and widget holds in every state.                 *)
THEOREM ChatInvariant == Spec => []ChatInv
<1>1. Init => ChatInv
  BY InitChat
<1>2. ChatInv /\ [Next]_chatVars => ChatInv'
  BY ServerKeeps, ClientKeeps, StutterKeeps DEF Next
<1> QED BY <1>1, <1>2, PTL DEF Spec

(* Types.                                                                   *)
THEOREM AssistantTyping == Spec => []AssistantTypeOK
<1>1. ChatInv => AssistantTypeOK
  BY DEF ChatInv, HubInv, ClientTypeOK, AssistantTypeOK
<1> QED BY <1>1, ChatInvariant, PTL

(* Two requests that both found their conversation idle do not both get a   *)
(* run.                                                                     *)
THEOREM OneRun == Spec => []OneRunPerConversation
<1>1. ChatInv => OneRunPerConversation
  BY DEF ChatInv, HubInv, RunInv, OneRunPerConversation
<1> QED BY <1>1, ChatInvariant, PTL

(* A response that the server ends has carried the outcome.                 *)
THEOREM OutcomeIsDelivered == Spec => []StreamsAreWhole
<1>1. ChatInv => StreamsAreWhole
  BY DEF ChatInv, HubInv, RunInv, ReaderInv, StreamsAreWhole
<1> QED BY <1>1, ChatInvariant, PTL

(* No response waits for a run that has news for it or is over.             *)
THEOREM WakeupsArrive == Spec => []NoLostWakeup
<1>1. ChatInv => NoLostWakeup
  BY DEF ChatInv, HubInv, ReaderInv, NoLostWakeup
<1> QED BY <1>1, ChatInvariant, PTL

(* The widget is sending exactly while an exchange under way owns it.       *)
THEOREM OwnerFreesWidget == Spec => []SendingHasOwner
<1>1. ChatInv => SendingHasOwner
  BY DEF ChatInv
<1> QED BY <1>1, ChatInvariant, PTL

-----------------------------------------------------------------------------
(* What is saved stays in the database until somebody deletes it.           *)
LEMMA SavedKept ==
    ASSUME HubInv, SavedInv,
           \A p \in Posts : /\ run'[p].saved => run[p].saved
                            /\ run[p].saved => post'[p].conv = post[p].conv,
           answers \subseteq answers',
           \A c \in Convs : Emptied(c) => Emptied(c)'
    PROVE  SavedInv'
<1> SUFFICES ASSUME NEW p \in Posts, run'[p].saved
             PROVE p \in answers' \/ \E d \in deletes' : d.conv = post'[p].conv /\ d.pc # "checked"
  BY DEF SavedInv, Emptied
<1>1. /\ run[p].saved /\ post'[p].conv = post[p].conv
      /\ p \in answers \/ Emptied(post[p].conv)
  BY DEF SavedInv
<1>2. post[p].conv \in Convs
  BY <1>1 DEF HubInv, RunInv, PostInv
<1> QED BY <1>1, <1>2 DEF Emptied

(* A database that stores what it is given                                  *)
LEMMA StoredByRun ==
    ASSUME ~StoreFails, HubInv, SavedInv, NEW p \in Posts, StoreAnswer(p)
    PROVE  SavedInv'
<1>1. HubTypeOK /\ run[p] \in Run
  BY DEF HubInv, HubTypeOK
<1>2. /\ run' = [run EXCEPT ![p] = [run[p] EXCEPT !.saved = TRUE]]
      /\ answers' = answers \cup {p}
      /\ UNCHANGED <<post, deletes>>
  BY DEF StoreAnswer
<1>3. \A q \in Posts : q # p => run'[q] = run[q]
  BY <1>1, <1>2 DEF HubTypeOK
<1> QED BY <1>2, <1>3 DEF SavedInv, Emptied

LEMMA StartSaves ==
    ASSUME HubInv, SavedInv, NEW p \in Posts, NEW kept \in BOOLEAN, Start(p, kept)
    PROVE  SavedInv'
<1>1. HubTypeOK /\ run[p] \in Run
  BY DEF HubInv, HubTypeOK
<1>2. /\ post' = [post EXCEPT ![p] = [post[p] EXCEPT !.pc = "started"]]
      /\ run' = [run EXCEPT ![p] = [run[p] EXCEPT !.st = "working"]]
      /\ UNCHANGED <<answers, deletes>>
  BY DEF Start, Register
<1>3. \A q \in Posts : run'[q].saved = run[q].saved
  BY <1>1, <1>2 DEF HubTypeOK, Run
<1>4. \A q \in Posts : post'[q].conv = post[q].conv
  BY <1>1, <1>2 DEF HubTypeOK
<1> QED BY <1>2, <1>3, <1>4, SavedKept DEF Emptied

LEMMA RunStepSaves ==
    ASSUME ~StoreFails, HubInv, SavedInv, NEW p \in Posts, RunSteps(p)
    PROVE  SavedInv'
<1>1. HubTypeOK /\ run[p] \in Run
  BY DEF HubInv, HubTypeOK
<1>2. ASSUME NEW e, Tell(p, e) PROVE SavedInv'
  <2>1. /\ run' = [run EXCEPT ![p] = [run[p] EXCEPT !.events = Append(run[p].events, e)]]
        /\ UNCHANGED <<post, answers, deletes>>
    BY <1>2 DEF Tell
  <2>2. \A q \in Posts : run'[q].saved = run[q].saved
    BY <1>1, <2>1 DEF HubTypeOK, Run
  <2> QED BY <2>1, <2>2, SavedKept DEF Emptied
<1>3. CASE Finish(p)
  <2>1. /\ run' = [run EXCEPT ![p] = [run[p] EXCEPT !.st = "done"]]
        /\ UNCHANGED <<post, answers, deletes>>
    BY <1>3 DEF Finish
  <2>2. \A q \in Posts : run'[q].saved = run[q].saved
    BY <1>1, <2>1 DEF HubTypeOK, Run
  <2> QED BY <2>1, <2>2, SavedKept DEF Emptied
<1> QED BY <1>2, <1>3, StoredByRun DEF RunSteps, Progress, Fail, TellFinal

(* Emptying a conversation takes its answers away, and says so.             *)
LEMMA DeleteSaves ==
    ASSUME HubInv, SavedInv, NEW d \in deletes, DeleteSteps(d)
    PROVE  SavedInv'
<1>1. UNCHANGED <<post, run>>
  BY DeleteStepFacts
<1>2. d \in Delete
  BY DEF HubInv, HubTypeOK
<1>3. CASE EmptyConversation(d)
  <2>1. [d EXCEPT !.pc = "emptied"].conv = d.conv /\ [d EXCEPT !.pc = "emptied"].pc = "emptied"
    BY <1>2 DEF Delete
  <2>2. /\ d.pc = "checked"
        /\ deletes' = (deletes \ {d}) \cup {[d EXCEPT !.pc = "emptied"]}
        /\ answers' = {p \in answers : post[p].conv # d.conv}
    BY <1>3 DEF EmptyConversation, Moves
  <2>3. ASSUME NEW c, Emptied(c) \/ c = d.conv
        PROVE \E e \in deletes' : e.conv = c /\ e.pc # "checked"
    BY <2>1, <2>2, <2>3 DEF Emptied
  <2> SUFFICES ASSUME NEW p \in Posts, run[p].saved
               PROVE  p \in answers' \/ \E e \in deletes' : e.conv = post[p].conv /\ e.pc # "checked"
    BY <1>1 DEF SavedInv, Emptied
  <2>4. p \in answers \/ Emptied(post[p].conv)
    BY DEF SavedInv
  <2>5. CASE Emptied(post[p].conv) \/ post[p].conv = d.conv
    BY <2>3, <2>5
  <2>6. CASE p \in answers /\ post[p].conv # d.conv
    BY <2>2, <2>6
  <2> QED BY <2>4, <2>5, <2>6
<1>4. CASE DropConversation(d)
  <2>1. [d EXCEPT !.pc = "deleted"].conv = d.conv /\ [d EXCEPT !.pc = "deleted"].pc = "deleted"
    BY <1>2 DEF Delete
  <2>2. /\ deletes' = (deletes \ {d}) \cup {[d EXCEPT !.pc = "deleted"]}
        /\ UNCHANGED answers
    BY <1>4 DEF DropConversation, Moves
  <2>3. \A c \in Convs : Emptied(c) => Emptied(c)'
    BY <2>1, <2>2 DEF Emptied
  <2> QED BY <1>1, <2>2, <2>3, SavedKept
<1> QED BY <1>3, <1>4 DEF DeleteSteps

LEMMA ServerSaves ==
    ASSUME ~StoreFails, HubInv, SavedInv, Server
    PROVE  SavedInv'
<1>1. HubTypeOK /\ PostInv /\ RunInv
  BY DEF HubInv
<1>2. \A q \in Posts : run[q].saved => post[q].pc = "started"
  BY <1>1 DEF RunInv, PostInv
<1>3. ASSUME NEW p \in Posts, Accept(p) \/ Refuse(p) PROVE SavedInv'
  <2>1. /\ UNCHANGED <<run, answers, deletes>> /\ post[p].pc \in {"sent", "stored"}
        /\ \A q \in Posts : q # p => post'[q] = post[q]
    BY <1>1, <1>3 DEF Accept, Refuse, HubTypeOK
  <2> QED BY <1>2, <2>1, SavedKept DEF Emptied
<1>4. ASSUME NEW p \in Posts, Start(p, Streamed(p[1]) = p /\ Streaming(p[1])) PROVE SavedInv'
  <2>1. (Streamed(p[1]) = p /\ Streaming(p[1])) \in BOOLEAN
    BY DEF Streaming
  <2> QED BY <1>4, <2>1, StartSaves
<1>5. CASE Restart
  <2>1. /\ run' = [p \in Posts |-> IF Working(p) THEN Lost ELSE run[p]]
        /\ post' = [p \in Posts |-> IF post[p].pc \in {"sent", "stored"} THEN Refused ELSE post[p]]
        /\ UNCHANGED <<answers, deletes>>
    BY <1>5 DEF Restart
  <2>2. \A p \in Posts : run'[p].saved => run[p].saved
    BY <2>1 DEF Lost
  <2>3. \A p \in Posts : run[p].saved => post'[p] = post[p]
    BY <1>2, <2>1
  <2> QED BY <2>1, <2>2, <2>3, SavedKept DEF Emptied
<1> QED BY <1>3, <1>4, <1>5, RunStepSaves, DeleteSaves DEF Server

LEMMA QuietSaves ==
    ASSUME HubInv, SavedInv, Quiet \/ UNCHANGED <<post, answers, run, deletes>>
    PROVE  SavedInv'
<1>1. \A q \in Posts : run[q].saved => post[q].pc = "started"
  BY DEF HubInv, RunInv, PostInv
<1>2. CASE Quiet
  BY <1>1, <1>2, SavedKept DEF Quiet
<1>3. CASE UNCHANGED <<post, answers, run, deletes>>
  BY <1>3, SavedKept DEF Emptied
<1> QED BY <1>2, <1>3

(* Provided the database stores what it is given, who has seen the final    *)
(* event finds the answer, unless the conversation has been emptied.        *)
THEOREM FinalStored ==
    ASSUME ~StoreFails
    PROVE  Spec => []FinalIsStored
<1>1. Init => SavedInv
  BY DEF Init, HubInit, SavedInv
<1>2. ChatInv /\ SavedInv /\ [Next]_chatVars => SavedInv'
  <2> SUFFICES ASSUME ChatInv, SavedInv, [Next]_chatVars PROVE SavedInv'
    OBVIOUS
  <2>1. HubInv
    BY DEF ChatInv
  <2>2. CASE Server
    BY <2>1, <2>2, ServerSaves
  <2>3. CASE Client \/ \E o \in Exchanges : Attach(o)
    BY <2>1, <2>3, ClientKeeps, QuietSaves
  <2>4. CASE UNCHANGED chatVars
    BY <2>1, <2>4, StutterKeeps, QuietSaves
  <2> QED BY <2>2, <2>3, <2>4 DEF Next
<1>3. ChatInv /\ SavedInv => FinalIsStored
  BY DEF ChatInv, HubInv, RunInv, SavedInv, FinalIsStored
<1> QED BY <1>1, <1>2, <1>3, ChatInvariant, PTL DEF Spec
=============================================================================
