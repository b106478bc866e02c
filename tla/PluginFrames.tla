---------------------------- MODULE PluginFrames ----------------------------
(***************************************************************************)
(* What a plugin shows in the web client for the selected node: a panel    *)
(* whose content is queried, and a frame with the plugin's own code, which *)
(* asks queries and actions through messages (web/components/              *)
(* PluginExtension.svelte, PluginFrame.svelte, web/lib/pluginUi.ts,        *)
(* core/plugin-contract/registryInteractions.ts).                          *)
(*                                                                         *)
(* The content of an answer is represented by the node it is of.  Messages *)
(* between a page and a frame arrive in order.  A frame is known by its    *)
(* token.  The extension runs a command, so that only operators see it.    *)
(* MaxFrames bounds the frames, MaxQueries the queries of each, and        *)
(* MaxMessages the messages under way.                                     *)
(***************************************************************************)
EXTENDS Naturals, Sequences

CONSTANTS Nodes, None, MaxFrames, MaxQueries, MaxMessages

VARIABLES
  context,    \* the selected node
  present,    \* the extension is among those of the last poll
  operator,   \* the role of the tab
  replaying,
  panel,      \* the query of the panel and its content
  frame,      \* the frame: its token, node, boot and pending query
  posted,     \* its messages to the page
  hostQuery,  \* the query the page has sent for it
  replies,    \* what the page posts to it
  invoking,   \* an action is running: PluginExtension's pending
  mixed       \* history: pairs of what was asked for and what it got, which differ

pageVars == <<context, present, operator, replaying>>
frameVars == <<frame, posted, hostQuery, replies>>
vars == <<pageVars, panel, frameVars, invoking, mixed>>

NoQuery == [id |-> 0, of |-> None]
Idle == [asking |-> None, content |-> None]
Unmounted == [token |-> 0, of |-> None, at |-> "none", asked |-> 0, pending |-> 0]

Visible == context # None /\ present /\ operator

Mix(a, b) == mixed' = mixed \cup (IF a = b THEN {} ELSE {<<a, b>>})

-----------------------------------------------------------------------------
(* Mounting.                                                               *)

NewFrame(t) == [token |-> t, of |-> context', at |-> "loading", asked |-> 0, pending |-> 0]

\* Defect: the frame is kept for every node.
MutFrameKey == <<Visible /\ ~replaying>>

\* {#key frameKey}
FrameKey == <<Visible /\ ~replaying, context>>

\* What follows a change of the page: the panel asks again, the frame is replaced.
Render ==
  /\ panel' = [asking |-> IF Visible' /\ ~replaying' THEN context' ELSE None, content |-> None]
  /\ IF FrameKey' = FrameKey THEN UNCHANGED frameVars
     ELSE /\ frame' = IF Visible' /\ ~replaying' THEN NewFrame(frame.token + 1)
                      ELSE [Unmounted EXCEPT !.token = frame.token]
          /\ hostQuery' = NoQuery /\ replies' = <<>> /\ UNCHANGED posted

Select(c) ==
  /\ c # context /\ frame.token < MaxFrames
  /\ context' = c /\ UNCHANGED <<present, operator, replaying, invoking, mixed>>
  /\ Render

\* Every answered poll replaces the extension, even by an equal one.
Poll(there) ==
  /\ there => frame.token < MaxFrames
  /\ present' = there /\ UNCHANGED <<context, operator, replaying, invoking, mixed>>
  /\ Render

ChangeRole ==
  /\ frame.token < MaxFrames
  /\ operator' = ~operator /\ UNCHANGED <<context, present, replaying, invoking, mixed>>
  /\ Render

ToggleReplay ==
  /\ frame.token < MaxFrames
  /\ replaying' = ~replaying /\ UNCHANGED <<context, present, operator, invoking, mixed>>
  /\ Render

-----------------------------------------------------------------------------
(* The panel: each effect has its controller, so only the last one answers. *)

PanelAnswers(ok) ==
  /\ panel.asking # None
  /\ panel' = [asking |-> None, content |-> IF ok THEN panel.asking ELSE None]
  /\ UNCHANGED <<pageVars, frameVars, invoking, mixed>>

\* The timer of refresh.
PanelAsks ==
  /\ panel.asking = None /\ Visible /\ ~replaying
  /\ panel' = [panel EXCEPT !.asking = context]
  /\ UNCHANGED <<pageVars, frameVars, invoking, mixed>>

-----------------------------------------------------------------------------
(* The frame.                                                              *)

Post(type, id) == posted' = Append(posted, [token |-> frame.token, type |-> type, id |-> id])

\* loadPluginFrontendSource, buildDocument, and the module's mount.
FrameBoots(ok) ==
  /\ frame.at = "loading"
  /\ frame' = [frame EXCEPT !.at = IF ok THEN "running" ELSE "failed"]
  /\ UNCHANGED <<pageVars, panel, posted, hostQuery, replies, invoking, mixed>>

\* query(), when none is pending.
FrameAsks ==
  /\ frame.at = "running" /\ frame.pending = 0 /\ frame.asked < MaxQueries
  /\ Len(posted) < MaxMessages
  /\ frame' = [frame EXCEPT !.asked = @ + 1, !.pending = frame.asked + 1]
  /\ Post("query", frame.asked + 1)
  /\ UNCHANGED <<pageVars, panel, hostQuery, replies, invoking, mixed>>

FrameTimesOut ==
  /\ frame.pending # 0
  /\ frame' = [frame EXCEPT !.pending = 0]
  /\ UNCHANGED <<pageVars, panel, posted, hostQuery, replies, invoking, mixed>>

\* requestAction()
FrameActs ==
  /\ frame.at = "running" /\ Len(posted) < MaxMessages
  /\ Post("action", 0)
  /\ UNCHANGED <<pageVars, panel, frame, hostQuery, replies, invoking, mixed>>

\* Defect: a result is taken for the pending query, whatever it answers.
MutAnswersPending(m) == frame.pending # 0

AnswersPending(m) == frame.pending # 0 /\ m.id = frame.pending

\* A result: what it is of and what it was asked for must be the query's.
FrameHears ==
  /\ replies # <<>>
  /\ LET m == Head(replies)
     IN IF AnswersPending(m)
        THEN /\ Mix(<<frame.of, frame.pending>>, <<m.of, m.id>>)
             /\ frame' = [frame EXCEPT !.pending = 0]
        ELSE UNCHANGED <<frame, mixed>>
  /\ replies' = Tail(replies)
  /\ UNCHANGED <<pageVars, panel, posted, hostQuery, invoking>>

-----------------------------------------------------------------------------
(* The page.                                                               *)

\* handleMessage: messages of frames that are gone are ignored, those of the
\* frame that is there are of the node of the page.
PageHears ==
  /\ posted # <<>> /\ posted' = Tail(posted)
  /\ LET m == Head(posted)
     IN \/ /\ m.token # frame.token \/ frame.at = "none"
           /\ UNCHANGED <<hostQuery, replies, invoking, mixed>>
        \/ /\ m.token = frame.token /\ frame.at # "none" /\ m.type = "query"
           /\ IF hostQuery = NoQuery
              THEN hostQuery' = [id |-> m.id, of |-> context] /\ UNCHANGED replies
              ELSE /\ replies' = Append(replies, [id |-> m.id, of |-> frame.of])
                   /\ UNCHANGED hostQuery
           /\ UNCHANGED <<invoking, mixed>>
        \/ /\ m.token = frame.token /\ frame.at # "none" /\ m.type = "action"
           /\ IF invoking = None
              THEN invoking' = context /\ Mix(frame.of, context)
              ELSE UNCHANGED <<invoking, mixed>>
           /\ UNCHANGED <<hostQuery, replies>>
  /\ UNCHANGED <<pageVars, panel, frame>>

\* queryPluginUi ends, with an answer, an error or by its timeout.
PageReplies ==
  /\ hostQuery # NoQuery /\ Len(replies) < MaxMessages
  /\ replies' = Append(replies, hostQuery)
  /\ hostQuery' = NoQuery
  /\ UNCHANGED <<pageVars, panel, frame, posted, invoking, mixed>>

\* The button, and the end of an action.
Invoke ==
  /\ Visible /\ invoking = None
  /\ invoking' = context
  /\ UNCHANGED <<pageVars, panel, frameVars, mixed>>

ActionEnds ==
  /\ invoking # None /\ invoking' = None
  /\ UNCHANGED <<pageVars, panel, frameVars, mixed>>

-----------------------------------------------------------------------------
Init ==
  /\ context = None /\ present = FALSE /\ operator = TRUE /\ replaying = FALSE
  /\ panel = Idle /\ frame = Unmounted /\ posted = <<>>
  /\ hostQuery = NoQuery /\ replies = <<>> /\ invoking = None /\ mixed = {}

Next ==
  \/ \E c \in Nodes \cup {None} : Select(c)
  \/ \E there \in BOOLEAN : Poll(there)
  \/ ChangeRole \/ ToggleReplay
  \/ \E ok \in BOOLEAN : PanelAnswers(ok) \/ FrameBoots(ok)
  \/ PanelAsks \/ FrameAsks \/ FrameTimesOut \/ FrameActs \/ FrameHears
  \/ PageHears \/ PageReplies \/ Invoke \/ ActionEnds

Spec == Init /\ [][Next]_vars

-----------------------------------------------------------------------------
(* Properties.                                                             *)

TypeOK ==
  /\ {context, panel.asking, panel.content, frame.of, hostQuery.of, invoking} \subseteq Nodes \cup {None}
  /\ {present, operator, replaying} \subseteq BOOLEAN
  /\ frame.token \in 0..MaxFrames /\ frame.at \in {"none", "loading", "running", "failed"}
  /\ {frame.asked, frame.pending, hostQuery.id} \subseteq 0..MaxQueries

\* However selections, polls, roles, timeouts and messages cross each other, a panel
\* shows what is of the selected node and nothing in a replay, a frame gets the
\* answer to the query it waits for and of its node, and its actions are of that node
\* (web/components/PluginFrame.svelte, PluginExtension.svelte).
FrameIsOfNode ==
  /\ panel.content \in {None, context}
  /\ replaying \/ ~Visible => panel = Idle /\ frame.at = "none"
  /\ mixed = {}
=============================================================================
