------------------------------- MODULE RunHub -------------------------------
(***************************************************************************)
(* The server side of the admin's AI assistant                             *)
(* (backend/controllers/ai_agent_session.go, ChatStream, Chat): a prompt   *)
(* becomes a run that outlives the request that posted it, and whoever     *)
(* reads the run follows its buffered events.  A post is named by the      *)
(* exchange it belongs to and the endpoint it went to; it names the run it *)
(* starts and the conversation it creates.  The column "status" of a       *)
(* conversation is left out: what clients are told comes from the hub.     *)
(***************************************************************************)
EXTENDS Integers, Sequences, FiniteSets

CONSTANTS
    Prompts,     \* exchanges that send a prompt
    Resumptions, \* exchanges that take up an answer again
    Stored,      \* conversations of earlier days
    MaxDeletes,  \* bound: requests to delete a conversation
    StoreFails,  \* the database may refuse to store an answer
    None

Exchanges == Prompts \cup Resumptions
Posts == Prompts \X {"stream", "chat"}
Convs == Posts \cup Stored

ASSUME NoneAssumption == None \notin Convs \cup Exchanges
ASSUME ExchangesAssumption == Prompts \cap Resumptions = {} /\ Posts \cap Stored = {}
ASSUME StoreFailsAssumption == StoreFails \in BOOLEAN

VARIABLES
    post,      \* handlers of ChatStream and Chat: progress, and the conversation
    rows,      \* conversations in the database
    answers,   \* runs whose answer is a message in the database
    hub,       \* the newest run of a conversation
    run,       \* a run's events, and whether it is under way or done
    reader,    \* per exchange: the run its response follows, and how far
    deletes    \* handlers of DeleteConversation

hubVars == <<post, rows, answers, hub, run, reader, deletes>>

Events == {"stage", "delta", "final", "error"}
Run == [st : {"none", "working", "done", "lost"}, events : Seq(Events), saved : BOOLEAN]
Reader == [st : {"none", "open", "idle", "ended", "broken"}, run : Posts \cup {None},
           cursor : Nat, hello : BOOLEAN, waiting : BOOLEAN]
Delete == [conv : Convs, here : BOOLEAN,
           pc : {"checked", "emptied", "deleted", "told"}]

HubTypeOK ==
    /\ post \in [Posts -> [pc : {"none", "sent", "stored", "started", "refused"},
                           conv : Convs \cup {None}]]
    /\ rows \subseteq Convs
    /\ answers \subseteq Posts
    /\ hub \in [Convs -> Posts \cup {None}]
    /\ run \in [Posts -> Run]
    /\ \A p \in Posts : Len(run[p].events) <= 3
    /\ reader \in [Exchanges -> Reader]
    /\ deletes \subseteq Delete

NoReader == [st |-> "none", run |-> None, cursor |-> 0, hello |-> FALSE, waiting |-> FALSE]
Following(p) == [NoReader EXCEPT !.st = "open", !.run = p]

HubInit ==
    /\ post = [p \in Posts |-> [pc |-> "none", conv |-> None]]
    /\ rows = Stored
    /\ answers = {}
    /\ hub = [c \in Convs |-> None]
    /\ run = [p \in Posts |-> [st |-> "none", events |-> <<>>, saved |-> FALSE]]
    /\ reader = [o \in Exchanges |-> NoReader]
    /\ deletes = {}

-----------------------------------------------------------------------------
(* A post: resolve the conversation, look whether it is busy, store the     *)
(* prompt; then build the request for the provider and start the run.       *)

(* aiAgentConversationBusy *)
Busy(c) == hub[c] # None /\ run[hub[c]].st # "done"

Accept(p) ==
    /\ post[p].pc = "sent"
    /\ LET c == IF post[p].conv = None THEN p ELSE post[p].conv
       IN  /\ post[p].conv # None => c \in rows /\ ~Busy(c)
           /\ post' = [post EXCEPT ![p] = [pc |-> "stored", conv |-> c]]
           /\ rows' = rows \cup {c}
    /\ UNCHANGED <<answers, hub, run, reader, deletes>>

Refused == [pc |-> "refused", conv |-> None]

(* The conversation is gone or busy, a statement fails, or the request never*)
(* arrives.  A prompt that was stored stays stored.                         *)
Refuse(p) ==
    /\ post[p].pc \in {"sent", "stored"}
    /\ post' = [post EXCEPT ![p] = Refused]
    /\ UNCHANGED <<rows, answers, hub, run, reader, deletes>>

(* What startAIAgentRun does once it has decided: it drops runs that were   *)
(* done long ago and registers the new one.  The response follows the run if*)
(* the client is still there.                                               *)
Register(p, expired, kept) ==
    /\ post' = [post EXCEPT ![p].pc = "started"]
    /\ hub' = [c \in Convs |-> IF c = post[p].conv THEN p
                               ELSE IF c \in expired THEN None ELSE hub[c]]
    /\ run' = [run EXCEPT ![p].st = "working"]
    /\ reader' = IF kept THEN [reader EXCEPT ![p[1]] = Following(p)] ELSE reader
    /\ UNCHANGED <<rows, answers, deletes>>

Finished == {c \in Convs : hub[c] # None /\ run[hub[c]].st = "done"}

StartUnchecked(p, kept) ==   \* mutant: the check under the mutex is missing
    /\ post[p].pc = "stored"
    /\ \E expired \in SUBSET Finished : Register(p, expired, kept)

Start(p, kept) ==
    /\ post[p].pc = "stored"
    /\ ~Busy(post[p].conv)
    /\ \E expired \in SUBSET Finished : Register(p, expired, kept)

-----------------------------------------------------------------------------
(* A run: runAIAgentConversationJob.  One stage and one delta stand for     *)
(* many; an answer that was not streamed is appended as one delta.          *)

Working(p) == run[p].st = "working"
LastEvent(p) == IF run[p].events = <<>> THEN "none" ELSE run[p].events[Len(run[p].events)]
Ended(p) == LastEvent(p) \in {"final", "error"}

(* Appending and finishing close the channel the readers wait on.           *)
Woken(p) == [o \in Exchanges |-> IF reader[o].run = p THEN [reader[o] EXCEPT !.waiting = FALSE]
                                 ELSE reader[o]]

Tell(p, e) ==
    /\ Working(p)
    /\ run' = [run EXCEPT ![p].events = Append(@, e)]
    /\ reader' = Woken(p)
    /\ UNCHANGED <<post, rows, answers, hub, deletes>>

Progress(p) ==
    \/ LastEvent(p) = "none" /\ Tell(p, "stage")
    \/ LastEvent(p) = "stage" /\ Tell(p, "delta")

Fail(p) == LastEvent(p) \in {"stage", "delta"} /\ ~run[p].saved /\ Tell(p, "error")

(* "Persist before the final event"; the error is not looked at.            *)
StoreAnswer(p) ==
    /\ Working(p) /\ LastEvent(p) = "delta" /\ ~run[p].saved
    /\ run' = [run EXCEPT ![p].saved = TRUE]
    /\ answers' \in {answers \cup {p}} \cup (IF StoreFails THEN {answers} ELSE {})
    /\ UNCHANGED <<post, rows, hub, reader, deletes>>

TellUnsaved(p) == LastEvent(p) = "delta" /\ Tell(p, "final")   \* mutant

TellFinal(p) == LastEvent(p) = "delta" /\ run[p].saved /\ Tell(p, "final")

FinishEarly(p) ==    \* mutant: done before the last event is out
    /\ Working(p) /\ run[p].saved
    /\ run' = [run EXCEPT ![p].st = "done"]
    /\ reader' = Woken(p)
    /\ UNCHANGED <<post, rows, answers, hub, deletes>>

FinishSilently(p) ==   \* mutant: the channel is not closed
    /\ Working(p) /\ Ended(p)
    /\ run' = [run EXCEPT ![p].st = "done"]
    /\ UNCHANGED <<post, rows, answers, hub, reader, deletes>>

Finish(p) ==
    /\ Working(p) /\ Ended(p)
    /\ run' = [run EXCEPT ![p].st = "done"]
    /\ reader' = Woken(p)
    /\ UNCHANGED <<post, rows, answers, hub, deletes>>

RunSteps(p) == Progress(p) \/ Fail(p) \/ StoreAnswer(p) \/ TellFinal(p) \/ Finish(p)

-----------------------------------------------------------------------------
(* A response that follows a run: streamAIAgentRunTo.  "hello" goes out     *)
(* first.  The events, done and the channel to wait on are looked at in one *)
(* hold of the run's mutex.  What is written counts as received: a client   *)
(* that is slow to receive is one whose response is slow to read.           *)

Read(o) ==
    LET r == run[reader[o].run]
        more == reader[o].cursor < Len(r.events) \/ r.st = "done"
    IN  /\ reader[o].st = "open" /\ ~reader[o].waiting
        /\ reader' = [reader EXCEPT ![o] =
               [@ EXCEPT !.hello = TRUE, !.cursor = Len(r.events), !.waiting = ~more,
                         !.st = IF r.st = "done" THEN "ended" ELSE "open"]]
        /\ UNCHANGED <<post, rows, answers, hub, run, deletes>>

(* ResumeConversationStream of conversation c, asked by exchange o          *)
Lookup(o, c) ==
    /\ reader[o].st = "none"
    /\ reader' = [reader EXCEPT ![o] = IF hub[c] = None THEN [NoReader EXCEPT !.st = "idle"]
                                       ELSE Following(hub[c])]
    /\ UNCHANGED <<post, rows, answers, hub, run, deletes>>

-----------------------------------------------------------------------------
(* DeleteConversation, statement by statement.  A handler whose statement   *)
(* fails, or whose backend stops, is one that takes no further step.        *)

Moves(d, pc) == deletes' = (deletes \ {d}) \cup {[d EXCEPT !.pc = pc]}

CheckDelete(c, here) ==
    /\ Cardinality(deletes) < MaxDeletes
    /\ ~Busy(c)
    /\ deletes' = deletes \cup {[conv |-> c, here |-> here, pc |-> "checked"]}
    /\ UNCHANGED <<post, rows, answers, hub, run, reader>>

EmptyConversation(d) ==
    /\ d.pc = "checked"
    /\ Moves(d, "emptied")
    /\ answers' = {p \in answers : post[p].conv # d.conv}
    /\ UNCHANGED <<post, rows, hub, run, reader>>

DropConversation(d) ==
    /\ d.pc = "emptied" /\ d.conv \in rows
    /\ Moves(d, "deleted")
    /\ rows' = rows \ {d.conv}
    /\ UNCHANGED <<post, answers, hub, run, reader>>

DeleteSteps(d) == EmptyConversation(d) \/ DropConversation(d)

-----------------------------------------------------------------------------
Lost == [st |-> "lost", events |-> <<>>, saved |-> FALSE]

(* The backend restarts: the hub lives in memory.  Responses break off.     *)
Restart ==
    /\ hub' = [c \in Convs |-> None]
    /\ run' = [p \in Posts |-> IF Working(p) THEN Lost ELSE run[p]]
    /\ post' = [p \in Posts |-> IF post[p].pc \in {"sent", "stored"}
                                THEN Refused ELSE post[p]]
    /\ reader' = [o \in Exchanges |-> IF reader[o].st = "open"
                                      THEN [NoReader EXCEPT !.st = "broken", !.hello = reader[o].hello]
                                      ELSE reader[o]]
    /\ UNCHANGED <<rows, answers, deletes>>

-----------------------------------------------------------------------------
(* A conversation never has two runs under way: startAIAgentRun looks again *)
(* under the hub's mutex, because the first check lies before the prompt is *)
(* stored.                                                                  *)
OneRunPerConversation ==
    \A p, q \in Posts : Working(p) /\ Working(q) /\ post[p].conv = post[q].conv => p = q

(* Who has seen the final event finds the answer in the conversation, unless*)
(* somebody has deleted it ("Persist before the final event").              *)
Emptied(c) == \E d \in deletes : d.conv = c /\ d.pc # "checked"
FinalIsStored ==
    \A p \in Posts : LastEvent(p) = "final" => p \in answers \/ Emptied(post[p].conv)

(* A response that the server ends by itself has carried the final event or *)
(* the error: the client of a whole stream is never left without an outcome.*)
StreamsAreWhole ==
    \A o \in Exchanges : reader[o].st = "ended" =>
        /\ Ended(reader[o].run)
        /\ reader[o].cursor = Len(run[reader[o].run].events)

(* A response waits only while its run has nothing new for it and goes on:  *)
(* no wake-up is lost between looking at the run and waiting for it.        *)
NoLostWakeup ==
    \A o \in Exchanges : reader[o].waiting =>
        /\ Working(reader[o].run)
        /\ reader[o].cursor = Len(run[reader[o].run].events)
=============================================================================
