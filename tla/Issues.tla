-------------------------------- MODULE Issues --------------------------------
(***************************************************************************)
(* The issue tracker: a ledger of issues that Claude Code (CC) and the user *)
(* both write, where a close by CC stands until the user signs it off, and  *)
(* the conversation of an issue: an ordinary board that the issue points    *)
(* to, made by the first message, whose messages are linked to the issue.   *)
(*                                                                         *)
(* The body, the owner, the priority and the tags of an issue are data that *)
(* no other column depends on: they are left out.  A session is a client of *)
(* the broker: a restart moves its issues, boards and messages together,    *)
(* which Sessions models.                                                   *)
(*                                                                         *)
(* Sources: broker/issues.ts, broker/issue-chat.ts, issue-chat-routes.ts,  *)
(* broker/threads.ts, broker/nodes.ts, web/utils/issues.ts,                *)
(* web/components/IssueTrackerModal.tsx.                                   *)
(***************************************************************************)
EXTENDS Naturals, Sequences

CONSTANTS
  Issue,      \* ids of issues
  Place,      \* boards of conversations, of one item each
  Session,    \* clients that issues are filed under
  NoSession, NoPlace,
  MaxSaid,    \* bound: messages said on the conversations
  MaxTitle    \* bound: how often an issue is retitled

ASSUME IssuesAssumption ==
  /\ NoSession \notin Session /\ NoPlace \notin Place
  /\ MaxSaid \in Nat /\ MaxTitle \in Nat

VARIABLES
  issue,     \* the table issues
  conv,      \* the boards of the conversations, with their nodes
  said,      \* the messages of the conversations
  links,     \* the table issue_links
  notes,     \* notices about an issue queued for a session
  who,       \* history: who took the last step
  loose      \* history: links nobody owes (said while deleted, or cut by hand)

ivars == <<issue, conv, said, links, notes, who, loose>>

\* "done" stands for done and dropped, "doing" for every open state but todo.
State == {"todo", "doing", "done"}
Closed(i) == issue[i].state = "done"

IssueRow == [filed : BOOLEAN, state : State, closed_at : BOOLEAN, approved : BOOLEAN,
             session : Session \cup {NoSession}, deleted : BOOLEAN,
             chat : Place \cup {NoPlace}, title : 0..MaxTitle]
\* made: the board exists; item: its item is not deleted; named and board: the
\* titles of the item and of the board (Own: given by update_node).
Own == MaxTitle + 1
Conversation == [made : BOOLEAN, item : BOOLEAN, named : 0..Own, board : 0..MaxTitle]
Said == [at : Place, by : {"user", "cc"}, phase : {"queued", "shown", "withdrawn"}]
Note == [to : Session, about : Issue, kind : {"issue_created", "issue_close_rejected"}]

IInit ==
  /\ issue = [i \in Issue |-> [filed |-> FALSE, state |-> "todo", closed_at |-> FALSE,
                               approved |-> FALSE, session |-> NoSession,
                               deleted |-> FALSE, chat |-> NoPlace, title |-> 0]]
  /\ conv = [p \in Place |-> [made |-> FALSE, item |-> FALSE, named |-> 0, board |-> 0]]
  /\ said = <<>> /\ links = {} /\ notes = {} /\ loose = {} /\ who = "nobody"

\* What selectIssue finds.
Known(i) == issue[i].filed /\ ~issue[i].deleted

Tell(i, s, kind) ==
  IF s = NoSession THEN notes ELSE notes \cup {[to |-> s, about |-> i, kind |-> kind]}

-----------------------------------------------------------------------------
(* The ledger. *)

\* An issue filed as closed is a record of something finished: signed off.
handleCreateIssue(i, actor, state, s) ==
  /\ ~issue[i].filed
  /\ issue' = [issue EXCEPT ![i] = [@ EXCEPT
       !.filed = TRUE, !.state = state, !.session = s,
       !.closed_at = (state = "done"), !.approved = (state = "done")]]
  /\ notes' = IF actor = "user" THEN Tell(i, s, "issue_created") ELSE notes
  /\ who' = actor
  /\ UNCHANGED <<conv, said, links, loose>>

\* (Mutation: reopening leaves the approval, closing adds the user's.)
StampedOnce(row, state, actor) ==
  IF (row.state = "done") = (state = "done")
  THEN [row EXCEPT !.state = state]
  ELSE [row EXCEPT !.state = state, !.closed_at = (state = "done"),
                   !.approved = @ \/ (state = "done" /\ actor = "user")]

\* closed_at and the approval follow the edge between open and closed, and only
\* a close by the user is signed off at once.
Stamped(row, state, actor) ==
  IF (row.state = "done") = (state = "done")
  THEN [row EXCEPT !.state = state]
  ELSE [row EXCEPT !.state = state, !.closed_at = (state = "done"),
                   !.approved = (state = "done" /\ actor = "user")]

\* findIssueChatNode: where the conversation is, unless its item was deleted.
findIssueChatNode(i) ==
  IF issue[i].chat # NoPlace /\ conv[issue[i].chat].item THEN issue[i].chat ELSE NoPlace

\* The item takes the new title, and the board too if it belongs to one issue.
syncIssueChatTitle(i, title) ==
  LET p == findIssueChatNode(i)
      dedicated == {j \in Issue : Known(j) /\ issue[j].chat = p} = {i}
  IN  conv' = IF p = NoPlace THEN conv
              ELSE [conv EXCEPT ![p].named = title,
                                ![p].board = IF dedicated THEN title ELSE @]

\* update_issue of CC, and a chip or the editor of the user: the state, and the
\* session it is filed under (NoSession detaches it).
handleUpdateIssue(i, actor, state, s) ==
  /\ Known(i)
  /\ issue' = [issue EXCEPT ![i] = [Stamped(@, state, actor) EXCEPT !.session = s]]
  /\ who' = actor
  /\ UNCHANGED <<conv, said, links, notes, loose>>

\* The same handler with a new title.
retitle(i, actor) ==
  /\ Known(i)
  /\ issue[i].title < MaxTitle
  /\ issue' = [issue EXCEPT ![i].title = @ + 1]
  /\ syncIssueChatTitle(i, issue[i].title + 1)
  /\ who' = actor
  /\ UNCHANGED <<said, links, notes, loose>>

handleApproveIssueClose(i) ==
  /\ Known(i) /\ Closed(i)
  /\ issue' = [issue EXCEPT ![i].approved = TRUE]
  /\ who' = "user"
  /\ UNCHANGED <<conv, said, links, notes, loose>>

\* Sent back: open again, unsigned, and the session is told.
handleRejectIssueClose(i) ==
  /\ Known(i) /\ Closed(i)
  /\ issue' = [issue EXCEPT ![i] = [@ EXCEPT
       !.state = "doing", !.closed_at = FALSE, !.approved = FALSE]]
  /\ notes' = Tell(i, issue[i].session, "issue_close_rejected")
  /\ who' = "user"
  /\ UNCHANGED <<conv, said, links, loose>>

\* Deletion is logical: the row, its links and its conversation stay.
handleDeleteIssue(i, actor) ==
  /\ Known(i)
  /\ issue' = [issue EXCEPT ![i].deleted = TRUE]
  /\ who' = actor
  /\ UNCHANGED <<conv, said, links, notes, loose>>

handleRestoreIssue(i, actor) ==
  /\ issue[i].deleted
  /\ issue' = [issue EXCEPT ![i].deleted = FALSE]
  /\ who' = actor
  /\ UNCHANGED <<conv, said, links, notes, loose>>

\* The poll of a session takes the notices queued for it.
drainNotes(s) ==
  /\ \E n \in notes : n.to = s
  /\ notes' = {n \in notes : n.to # s}
  /\ who' = "broker"
  /\ UNCHANGED <<issue, conv, said, links, loose>>

-----------------------------------------------------------------------------
(* The conversation of an issue. *)

\* The conversation is there, its item is brought back from a deletion, or a new
\* board is made for it, under the session the issue is filed under.
ensureIssueChatNode(i, p) ==
  LET row == issue[i]
  IN  IF row.chat # NoPlace
      THEN /\ p = row.chat
           /\ issue' = issue
           /\ conv' = IF conv[p].item THEN conv
                      ELSE [conv EXCEPT ![p].item = TRUE, ![p].named = row.title]
      ELSE /\ row.session # NoSession
           /\ ~conv[p].made
           /\ issue' = [issue EXCEPT ![i].chat = p]
           /\ conv' = [conv EXCEPT ![p] = [made |-> TRUE, item |-> TRUE,
                                           named |-> row.title, board |-> row.title]]

\* issueOfChatNode, over the table as t has it.
issueOfChatNode(t, p) == {i \in Issue : t[i].filed /\ ~t[i].deleted /\ t[i].chat = p}

\* validateIssueIds accepts ids of known issues only, and all of them or none.
validateIssueIds(ids) == \A i \in ids : Known(i)

\* (Mutation: the issue of the conversation is looked up before it has one.)
LinkBefore(m, p, t, ids) ==
  /\ links' = links \cup ({m} \X (ids \cup issueOfChatNode(issue, p)))
  /\ loose' = loose \cup {<<m, i>> : i \in {j \in Issue : t[j].chat = p /\ t[j].deleted}}

\* linkMessageToIssues on a message that appears at p, and what is owed to nobody.
Link(m, p, t, ids) ==
  /\ links' = links \cup ({m} \X (ids \cup issueOfChatNode(t, p)))
  /\ loose' = loose \cup {<<m, i>> : i \in {j \in Issue : t[j].chat = p /\ t[j].deleted}}

Next(by, p, phase) == Append(said, [at |-> p, by |-> by, phase |-> phase])

\* post_to_node of CC on an item of a conversation, deleted or not.
handlePostToNode(p, ids) ==
  /\ Len(said) < MaxSaid
  /\ conv[p].made
  /\ validateIssueIds(ids)
  /\ said' = Next("cc", p, "shown")
  /\ Link(Len(said) + 1, p, issue, ids)
  /\ who' = "cc"
  /\ UNCHANGED <<issue, conv, notes>>

\* post_to_issue of CC: the conversation first, then the post.
handlePostIssueChat(i, p, ids) ==
  /\ Len(said) < MaxSaid
  /\ Known(i)
  /\ validateIssueIds(ids)
  /\ ensureIssueChatNode(i, p)
  /\ said' = Next("cc", p, "shown")
  /\ Link(Len(said) + 1, p, issue', ids)
  /\ who' = "cc"
  /\ UNCHANGED notes

\* A post_to_issue that names an unknown issue is refused after the conversation
\* was made.
postRefused(i, p) ==
  /\ Known(i)
  /\ \E j \in Issue : ~Known(j)
  /\ ensureIssueChatNode(i, p)
  /\ who' = "cc"
  /\ UNCHANGED <<said, links, notes, loose>>

\* The user writes on an issue: the conversation first, then the submission, which
\* waits in the queue of the session.
handleSubmitIssueChat(i, p) ==
  /\ Len(said) < MaxSaid
  /\ Known(i)
  /\ ensureIssueChatNode(i, p)
  /\ said' = Next("user", p, "queued")
  /\ who' = "user"
  /\ UNCHANGED <<links, notes, loose>>

\* A submission to a session that is not attached is refused, the conversation
\* stays.
submitRefused(i, p) ==
  /\ Known(i)
  /\ ensureIssueChatNode(i, p)
  /\ who' = "user"
  /\ UNCHANGED <<said, links, notes, loose>>

\* The user writes on the board of a conversation, as on any board that shows
\* the node.
handleSubmitAnswer(p) ==
  /\ Len(said) < MaxSaid
  /\ conv[p].made /\ conv[p].item
  /\ said' = Next("user", p, "queued")
  /\ who' = "user"
  /\ UNCHANGED <<issue, conv, links, notes, loose>>

\* The poll shows a queued message in its thread and links it.
handlePollMessages(m) ==
  /\ m \in DOMAIN said
  /\ said[m].phase = "queued"
  /\ said' = [said EXCEPT ![m].phase = "shown"]
  /\ Link(m, said[m].at, issue, {})
  /\ who' = "broker"
  /\ UNCHANGED <<issue, conv, notes>>

submitTimeout(m) ==
  /\ m \in DOMAIN said
  /\ said[m].phase = "queued"
  /\ said' = [said EXCEPT ![m].phase = "withdrawn"]
  /\ who' = "broker"
  /\ UNCHANGED <<issue, conv, links, notes, loose>>

Shown(m) == m \in DOMAIN said /\ said[m].phase = "shown"

handleLinkIssueMessage(m, ids) ==
  /\ Shown(m)
  /\ ids # {} /\ validateIssueIds(ids)
  /\ links' = links \cup ({m} \X ids)
  /\ who' = "cc"
  /\ UNCHANGED <<issue, conv, said, notes, loose>>

handleUnlinkIssueMessage(m, i) ==
  /\ <<m, i>> \in links
  /\ links' = links \ {<<m, i>>}
  /\ loose' = loose \cup {<<m, i>>}
  /\ who' = "cc"
  /\ UNCHANGED <<issue, conv, said, notes>>

-----------------------------------------------------------------------------
(* What CC does to the board of a conversation, as to any board. *)

\* The item goes by itself or with its concern.
handleDeleteNode(p) ==
  /\ conv[p].made /\ conv[p].item
  /\ conv' = [conv EXCEPT ![p].item = FALSE]
  /\ who' = "cc"
  /\ UNCHANGED <<issue, said, links, notes, loose>>

\* Renaming the item, deleted or not.
handleUpdateNode(p) ==
  /\ conv[p].made
  /\ conv' = [conv EXCEPT ![p].named = Own]
  /\ who' = "cc"
  /\ UNCHANGED <<issue, said, links, notes, loose>>

-----------------------------------------------------------------------------
Writer == {"user", "cc"}

INext ==
  \/ \E i \in Issue, a \in Writer, s \in Session \cup {NoSession}, st \in State :
       \/ handleCreateIssue(i, a, st, s)
       \/ handleUpdateIssue(i, a, st, s)
  \/ \E i \in Issue, a \in Writer :
       \/ retitle(i, a)
       \/ handleDeleteIssue(i, a)
       \/ handleRestoreIssue(i, a)
  \/ \E i \in Issue : handleApproveIssueClose(i) \/ handleRejectIssueClose(i)
  \/ \E i \in Issue, p \in Place :
       \/ handleSubmitIssueChat(i, p)
       \/ submitRefused(i, p)
       \/ postRefused(i, p)
       \/ \E ids \in SUBSET Issue : handlePostIssueChat(i, p, ids)
  \/ \E p \in Place :
       \/ \E ids \in SUBSET Issue : handlePostToNode(p, ids)
       \/ handleSubmitAnswer(p)
       \/ handleDeleteNode(p)
       \/ handleUpdateNode(p)
  \/ \E m \in 1..MaxSaid :
       \/ handlePollMessages(m)
       \/ submitTimeout(m)
       \/ \E i \in Issue : handleUnlinkIssueMessage(m, i)
       \/ \E ids \in SUBSET Issue : handleLinkIssueMessage(m, ids)
  \/ \E s \in Session : drainNotes(s)

ISpec == IInit /\ [][INext]_ivars

-----------------------------------------------------------------------------
(* Properties. *)

\* The tables are well typed.
ITypeOK ==
  /\ issue \in [Issue -> IssueRow]
  /\ conv \in [Place -> Conversation]
  /\ said \in Seq(Said) /\ Len(said) <= MaxSaid
  /\ links \subseteq (1..MaxSaid) \X Issue
  /\ loose \subseteq (1..MaxSaid) \X Issue
  /\ notes \subseteq Note
  /\ who \in Writer \cup {"nobody", "broker"}

\* A close counts as signed off only by an act of the user on that very close: an
\* approval never carries over from an earlier close through any sequence of
\* reopenings, deletions and restores, CC cannot give it, and it is not lost while
\* the issue stays closed.
SignOffIsTheUsers ==
  [][\A i \in Issue : issue[i].filed =>
       LET signed == Closed(i) /\ issue[i].approved
       IN  /\ (Closed(i)' /\ issue[i].approved' /\ ~signed) => who' = "user"
           /\ (signed /\ Closed(i)') => issue[i].approved']_ivars

\* Everything said on an issue is in one place: the conversation never moves, no
\* two issues share one, and what CC or the user says on an issue goes where the
\* earlier messages are, even after somebody deleted the node.
OneConversation ==
  [][\A i \in Issue :
       LET p == issue[i].chat
       IN  p # NoPlace => /\ issue[i].chat' = p
                          /\ \A j \in Issue \ {i} : issue[j].chat' # p]_ivars

\* The timeline of an issue is complete: a message shown in the conversation of an
\* issue is linked to it, unless the issue was deleted when the message appeared or
\* somebody cut the link.
TimelineWhole ==
  \A m \in DOMAIN said, i \in Issue :
    (said[m].phase = "shown" /\ issue[i].chat = said[m].at /\ <<m, i>> \notin loose)
      => <<m, i>> \in links

\* The thread of an issue that can be read never shows an earlier title of the
\* issue, through renames while the node was deleted and posts that bring it back.
TitleInStep ==
  \A i \in Issue :
    LET p == findIssueChatNode(i)
    IN  p # NoPlace => conv[p].named \in {issue[i].title, Own}

=============================================================================
