--------------------------- MODULE AssistantChat ---------------------------
(***************************************************************************)
(* The admin's assistant in one browser tab                                *)
(* (frontend/src/components/admin/AIAgentAssistant.tsx and                 *)
(* services/ai-agent.service.ts) against RunHub: a prompt is streamed,     *)
(* falls back to the classic endpoint, and a conversation that is loaded   *)
(* while it is being answered is followed again.  Every admin page mounts  *)
(* a widget of its own; the tab's storage hands it the conversation.       *)
(* The texts, steps and proposals shown are left out.                      *)
(***************************************************************************)
EXTENDS RunHub

CONSTANT MaxLoads   \* bound: requests to read a conversation under way

VARIABLES
    widget,    \* the mounted widget: conversation, last one loaded, whether it is
               \* sending, the exchange that owns abortRef, what liveRef shows
    op,        \* per exchange: what the client does, and for which conversation
    loads      \* loadConversation: requests under way, and whether the
               \* answer says that the conversation is being answered

chatVars == <<hubVars, widget, op, loads>>
clientVars == <<widget, op, loads>>

Widget == [conv : Convs \cup {None}, last : Convs \cup {None}, sending : BOOLEAN,
           owner : Exchanges \cup {None}, live : {"none", "empty", "output"}]
Op == [pc : {"unused", "stream", "chat", "resume", "reload", "done"}, conv : Convs \cup {None}]
Load == [conv : Convs, generating : BOOLEAN]

AssistantTypeOK ==
    /\ HubTypeOK
    /\ widget \in Widget
    /\ op \in [Exchanges -> Op]
    /\ loads \subseteq Load

Blank == [conv |-> None, last |-> None, sending |-> FALSE, owner |-> None, live |-> "none"]

Init ==
    /\ HubInit
    /\ widget = Blank
    /\ op = [o \in Exchanges |-> [pc |-> "unused", conv |-> None]]
    /\ loads = {}

Streaming(o) == op[o].pc = "stream"
Classic(o) == <<o, "chat">>
Streamed(o) == <<o, "stream">>

(* abortRef.current and what its exchange is doing; only a fetch can be     *)
(* aborted, not a classic request nor a reload.                             *)
OwnerIs(pcs) == \E o \in Exchanges : widget.owner = o /\ op[o].pc \in pcs

(* The effect on conversationId: a conversation that has become the current *)
(* one is loaded, unless it was the last one loaded or an answer is awaited.*)
Settle(w) ==
    LET load == w.conv \notin {None, widget.conv, w.last} /\ ~w.sending
    IN  /\ widget' = [w EXCEPT !.last = IF load \/ w.conv = None THEN w.conv ELSE @]
        /\ loads' = IF load THEN loads \cup {[conv |-> w.conv, generating |-> FALSE]} ELSE loads

(* finally: only the owner of abortRef gives the widget free.               *)
FreeAll(w, o) == [w EXCEPT !.owner = None, !.live = "none", !.sending = FALSE]   \* mutant
Free(w, o) == IF w.owner = o THEN [w EXCEPT !.owner = None, !.live = "none", !.sending = FALSE]
              ELSE w

-----------------------------------------------------------------------------
(* send: the prompt goes to the streaming endpoint                          *)

Send(o) ==
    /\ o \in Prompts /\ op[o].pc = "unused" /\ ~widget.sending
    /\ op' = [op EXCEPT ![o].pc = "stream", ![o].conv = widget.conv]
    /\ post' = [post EXCEPT ![Streamed(o)] = [pc |-> "sent", conv |-> widget.conv]]
    /\ widget' = [widget EXCEPT !.sending = TRUE, !.owner = o, !.live = "empty"]
    /\ UNCHANGED <<rows, answers, hub, run, reader, deletes, loads>>

Heard(o) == {run[reader[o].run].events[i] : i \in 1..reader[o].cursor}

(* The exchange loses its stream and posts the prompt to the classic        *)
(* endpoint, for the conversation it was sent for.                          *)
FallBack(o) ==
    /\ op' = [op EXCEPT ![o].pc = "chat"]
    /\ post' = [post EXCEPT ![Classic(o)] = [pc |-> "sent", conv |-> op[o].conv]]
    /\ reader' = [reader EXCEPT ![o] = NoReader]

Over == [pc |-> "done", conv |-> None]
Ends(o) == op' = [op EXCEPT ![o] = Over] /\ reader' = [reader EXCEPT ![o] = NoReader]

HadOutput == widget.live = "output"

(* The stream of a prompt fails: what is on screen is kept, and the error   *)
(* shown; otherwise the classic endpoint gets the prompt.                   *)
StreamFails(o) ==
    /\ IF HadOutput THEN /\ Ends(o) /\ UNCHANGED post
                         /\ Settle(Free(widget, o))
                    ELSE FallBack(o) /\ UNCHANGED <<widget, loads>>
    /\ UNCHANGED <<rows, answers, hub, run, deletes>>

(* The browser gets what the response writes: hello names the conversation, *)
(* a delta is output.                                                       *)
Receive(o) ==
    /\ Read(o)
    /\ LET named == Streaming(o) /\ ~reader[o].hello
           output == widget.live = "empty" /\ "delta" \in Heard(o)'
       IN  Settle([widget EXCEPT !.conv = IF named THEN post[reader[o].run].conv ELSE @,
                                 !.live = IF output THEN "output" ELSE @])
    /\ UNCHANGED op

Whole(o) == reader[o].st = "ended"
Outcome(o) == LastEvent(reader[o].run)

(* The response says no, or the stream ends without a proposal.             *)
StreamRefused(o) ==
    /\ Streaming(o)
    /\ \/ post[Streamed(o)].pc = "refused"
       \/ Whole(o) /\ Outcome(o) # "final"
    /\ StreamFails(o)

(* The connection breaks, at any point                                      *)
StreamBreaks(o) == Streaming(o) /\ StreamFails(o)

StreamSucceeds(o) ==
    /\ Streaming(o) /\ Whole(o) /\ Outcome(o) = "final"
    /\ Settle([Free(widget, o) EXCEPT !.conv = post[reader[o].run].conv])
    /\ Ends(o)
    /\ UNCHANGED <<post, rows, answers, hub, run, deletes>>

(* chat: waitDone, then the reply; it carries the conversation.             *)
ChatAnswers(o) ==
    /\ op[o].pc = "chat" /\ post[Classic(o)].pc = "started" /\ run[Classic(o)].st = "done"
    /\ LET w == Free(widget, o)
       IN  Settle(IF LastEvent(Classic(o)) = "final"
                  THEN [w EXCEPT !.conv = post[Classic(o)].conv] ELSE w)
    /\ Ends(o)
    /\ UNCHANGED <<post, rows, answers, hub, run, deletes>>

(* It is refused, or a minute is over.  The run goes on.                    *)
ChatFails(o) ==
    /\ op[o].pc = "chat"
    /\ Settle(Free(widget, o))
    /\ Ends(o)
    /\ UNCHANGED <<post, rows, answers, hub, run, deletes>>

-----------------------------------------------------------------------------
(* loadConversation *)

(* GetConversation: the row, then what the hub says.  An idle conversation  *)
(* is shown, and that is all.                                               *)
AnswerLoad(l) ==
    /\ ~l.generating /\ l.conv \in rows
    /\ loads' = (loads \ {l}) \cup (IF Busy(l.conv) THEN {[l EXCEPT !.generating = TRUE]} ELSE {})
    /\ UNCHANGED <<hubVars, widget, op>>

(* The request fails, or the conversation is gone: the pointer is dropped.  *)
LoadFails(l) ==
    /\ widget' = [widget EXCEPT !.conv = None, !.last = None]
    /\ loads' = loads \ {l}
    /\ UNCHANGED <<hubVars, op>>

(* resumeConversation takes over: it aborts the exchange that owns abortRef,*)
(* whose catch then finds nothing on screen.                                *)
TakeOver(l, o) ==
    /\ l.generating /\ o \in Resumptions /\ op[o].pc = "unused"
    /\ loads' = loads \ {l}
    /\ LET old == widget.owner
           resuming == [pc |-> "resume", conv |-> l.conv]
       IN  IF ~OwnerIs({"stream", "resume"})
           THEN /\ op' = [op EXCEPT ![o] = resuming]
                /\ UNCHANGED <<post, reader>>
           ELSE /\ op' = [op EXCEPT ![o] = resuming,
                                    ![old] = IF Streaming(old) THEN [@ EXCEPT !.pc = "chat"] ELSE Over]
                /\ post' = IF Streaming(old)
                           THEN [post EXCEPT ![Classic(old)] = [pc |-> "sent", conv |-> op[old].conv]]
                           ELSE post
                /\ reader' = [reader EXCEPT ![old] = NoReader]
    /\ widget' = [widget EXCEPT !.sending = TRUE, !.owner = o, !.live = "empty"]
    /\ UNCHANGED <<rows, answers, hub, run, deletes>>

Attach(o) == op[o].pc = "resume" /\ Lookup(o, op[o].conv) /\ UNCHANGED clientVars

(* The run is over, with its answer or its error; or the request fails.     *)
ResumeEnds(o) ==
    /\ op[o].pc = "resume"
    /\ Settle(Free(widget, o))
    /\ Ends(o)
    /\ UNCHANGED <<post, rows, answers, hub, run, deletes>>

(* The server has no run: the stored messages are read instead.             *)
Reload(o) ==
    /\ op[o].pc = "resume" /\ reader[o].st = "idle"
    /\ op' = [op EXCEPT ![o].pc = "reload"]
    /\ reader' = [reader EXCEPT ![o] = NoReader]
    /\ UNCHANGED <<post, rows, answers, hub, run, deletes, widget, loads>>

Reloaded(o) ==
    /\ op[o].pc = "reload"
    /\ Settle(Free(widget, o))
    /\ Ends(o)
    /\ UNCHANGED <<post, rows, answers, hub, run, deletes>>

-----------------------------------------------------------------------------
(* What the admin does *)

(* reset aborts the exchange and clears the screen first, so that a stream  *)
(* that fails finds no output and falls back.                               *)
ResetKeepingOwner ==   \* mutant: reset forgets to abort
    /\ Settle([Blank EXCEPT !.sending = widget.sending])
    /\ UNCHANGED <<hubVars, op>>

Reset ==
    LET o == widget.owner
        blank == [Blank EXCEPT !.sending = widget.sending, !.owner = o]
        left == UNCHANGED <<rows, answers, hub, run, deletes>>
    IN  \/ /\ ~OwnerIs({"stream", "resume"})
           /\ Settle(blank)
           /\ UNCHANGED <<hubVars, op>>
        \/ /\ OwnerIs({"stream"})
           /\ Settle(blank)
           /\ FallBack(o) /\ left
        \/ /\ OwnerIs({"resume"})
           /\ Settle(Free(blank, o))
           /\ Ends(o) /\ UNCHANGED post /\ left

SelectConversation(c) ==
    /\ ~widget.sending /\ c # widget.conv /\ Cardinality(loads) < MaxLoads
    /\ Settle([widget EXCEPT !.conv = c])
    /\ UNCHANGED <<hubVars, op>>

(* Another page: the widget is unmounted, which aborts its exchange, and a  *)
(* new one is mounted.  A stream that had shown nothing posts its prompt    *)
(* again, though nobody waits for the answer.  Requests of the old widget   *)
(* are forgotten: their answers set the state of a component that is gone.  *)
Navigate ==
    /\ Cardinality(loads) < MaxLoads
    /\ LET conv == widget.conv
           o == widget.owner
           again == OwnerIs({"stream"}) /\ ~HadOutput
       IN  /\ widget' = [Blank EXCEPT !.conv = conv, !.last = conv]
           /\ loads' = IF conv = None THEN {} ELSE {[conv |-> conv, generating |-> FALSE]}
           /\ op' = [x \in Exchanges |-> IF op[x].pc = "unused" THEN op[x] ELSE Over]
           /\ reader' = [x \in Exchanges |-> NoReader]
           /\ post' = IF again THEN [post EXCEPT ![Classic(o)] = [pc |-> "sent", conv |-> op[o].conv]]
                      ELSE post
    /\ deletes' = {[d EXCEPT !.here = FALSE] : d \in deletes}
    /\ UNCHANGED <<rows, answers, hub, run>>

(* removeConversation remembers whether the conversation was the current    *)
(* one; elsewhere: somebody deletes it in another tab.                      *)
AskDelete(c, elsewhere) ==
    /\ elsewhere \/ ~widget.sending
    /\ CheckDelete(c, ~elsewhere /\ c = widget.conv)
    /\ UNCHANGED clientVars

DeleteTold(d) ==
    /\ d.pc = "deleted"
    /\ deletes' = (deletes \ {d}) \cup {[d EXCEPT !.pc = "told", !.here = FALSE]}
    /\ widget' = IF d.here THEN [widget EXCEPT !.conv = None, !.last = None] ELSE widget
    /\ UNCHANGED <<post, rows, answers, hub, run, reader, op, loads>>

-----------------------------------------------------------------------------
Server ==
    \/ \E p \in Posts : Accept(p) \/ Refuse(p) \/ Start(p, Streamed(p[1]) = p /\ Streaming(p[1])) \/ RunSteps(p)
    \/ \E d \in deletes : DeleteSteps(d)
    \/ Restart

Client ==
    \/ \E o \in Exchanges :
          \/ Send(o) \/ Receive(o) \/ StreamRefused(o) \/ StreamBreaks(o) \/ StreamSucceeds(o)
          \/ ChatAnswers(o) \/ ChatFails(o) \/ ResumeEnds(o) \/ Reload(o) \/ Reloaded(o)
    \/ \E l \in loads : \/ AnswerLoad(l) \/ LoadFails(l)
                        \/ \E o \in Exchanges : TakeOver(l, o)
    \/ Reset \/ Navigate
    \/ \E c \in rows : SelectConversation(c) \/ \E e \in BOOLEAN : AskDelete(c, e)
    \/ \E d \in deletes : DeleteTold(d)

Next ==
    \/ Server /\ UNCHANGED clientVars
    \/ Client
    \/ \E o \in Exchanges : Attach(o)

(* The runtime schedules every goroutine, a run has a time limit of 15      *)
(* minutes, a classic request one of a minute; what was written to a        *)
(* response arrives, or the browser sees that the connection is gone.       *)
Handled(p) == Accept(p) \/ Refuse(p) \/ Start(p, Streamed(p[1]) = p /\ Streaming(p[1])) \/ RunSteps(p)
Exchanged(o) ==
    \/ Receive(o) \/ StreamRefused(o) \/ StreamSucceeds(o)
    \/ reader[o].st = "broken" /\ (StreamBreaks(o) \/ ResumeEnds(o))
    \/ Attach(o) \/ (Whole(o) /\ ResumeEnds(o)) \/ Reload(o) \/ Reloaded(o)
    \/ ChatFails(o)
Fairness == /\ \A p \in Posts : WF_chatVars(Handled(p) /\ UNCHANGED clientVars)
            /\ \A o \in Exchanges : WF_chatVars(Exchanged(o))

Spec == Init /\ [][Next]_chatVars
FairSpec == Spec /\ Fairness

-----------------------------------------------------------------------------
(* The widget refuses prompts, selections and deletions while it is         *)
(* "sending"; only the exchange in abortRef gives it free, in its finally.  *)
(* So, whatever aborts, takes over or resets, a widget that is sending has  *)
(* an owner that is still under way, a free one has none, and no stream but *)
(* the owner's writes to the screen.                                        *)
SendingHasOwner ==
    /\ widget.sending <=> widget.owner # None
    /\ \A o \in Exchanges : op[o].pc \in {"stream", "resume"} => widget.owner = o
    /\ widget.owner # None => op[widget.owner].pc \notin {"unused", "done"}

(* A prompt that was sent, or an answer that was taken up again, does not   *)
(* keep the widget for ever.                                                *)
WidgetFreed == widget.sending ~> ~widget.sending
=============================================================================
