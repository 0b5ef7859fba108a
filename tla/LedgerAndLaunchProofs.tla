------------------------ MODULE LedgerAndLaunchProofs ------------------------
(***************************************************************************)
(* Two parts of the broker that share no state: the issue ledger with its  *)
(* conversations, for any number of issues, boards, sessions, messages and *)
(* retitlings; and the launch of the broker, for any number of launchers,  *)
(* supervisors, brokers and faults.                                        *)
(***************************************************************************)
EXTENDS Issues, Launch, FiniteSetTheorems, TLAPS

-----------------------------------------------------------------------------
(* The issue ledger *)

\* The pointer of an issue: only a filed issue has one, to a board that was made,
\* and no other issue points there.
Chats ==
  \A i \in Issue : issue[i].chat # NoPlace =>
    /\ issue[i].filed
    /\ conv[issue[i].chat].made
    /\ \A j \in Issue \ {i} : issue[j].chat # issue[i].chat

\* Nothing was said on a board before it was made: a new conversation starts empty.
SaidSomewhere == \A m \in DOMAIN said : conv[said[m].at].made

IInv == ITypeOK /\ Chats /\ SaidSomewhere /\ TimelineWhole /\ TitleInStep

\* What is said is a message at a board.
LEMMA SaidTyped ==
  ASSUME IInv, NEW m \in DOMAIN said
  PROVE  said[m] \in Said /\ said[m].at \in Place /\ m \in 1..MaxSaid
<1>1. said \in Seq(Said) /\ Len(said) <= MaxSaid /\ MaxSaid \in Nat
  BY IssuesAssumption DEF IInv, ITypeOK
<1>2. m \in 1..Len(said) /\ said[m] \in Said
  BY <1>1
<1> QED  BY <1>1, <1>2 DEF Said

\* Nothing is filed, made or said at first.
LEMMA InitIInv == IInit => IInv
<1> SUFFICES ASSUME IInit PROVE IInv
  OBVIOUS
<1> USE DEF IInit
<1>1. ITypeOK
  BY IssuesAssumption DEF ITypeOK, IssueRow, Conversation, Own, State, Writer
<1>2. Chats /\ SaidSomewhere /\ TimelineWhole /\ TitleInStep
  BY DEF Chats, SaidSomewhere, TimelineWhole, TitleInStep, findIssueChatNode
<1> QED  BY <1>1, <1>2 DEF IInv

-----------------------------------------------------------------------------
(* The ledger. *)

\* Notices are queued for sessions only.
LEMMA TellNotes ==
  ASSUME notes \subseteq Note, NEW i \in Issue, NEW s \in Session \cup {NoSession},
         NEW kind \in {"issue_created", "issue_close_rejected"}
  PROVE  Tell(i, s, kind) \subseteq Note
BY DEF Tell, Note

\* A step that rewrites one row, and neither its conversation nor its title,
\* disturbs nothing.
LEMMA LedgerInv ==
  ASSUME IInv, NEW i \in Issue, NEW row \in IssueRow,
         issue' = [issue EXCEPT ![i] = row],
         row.chat = issue[i].chat, row.title = issue[i].title,
         issue[i].filed => row.filed,
         UNCHANGED <<conv, said, links, loose>>,
         notes' \subseteq Note, who' \in Writer
  PROVE  IInv'
<1>0. issue \in [Issue -> IssueRow]
  BY DEF IInv, ITypeOK
<1>1. ITypeOK'
  BY <1>0 DEF IInv, ITypeOK
<1>2. \A j \in Issue : /\ issue'[j].chat = issue[j].chat /\ issue'[j].title = issue[j].title
                       /\ issue[j].filed => issue'[j].filed
  BY <1>0
<1>3. Chats' /\ SaidSomewhere' /\ TimelineWhole'
  BY <1>2 DEF IInv, Chats, SaidSomewhere, TimelineWhole
<1>4. TitleInStep'
  BY <1>2 DEF IInv, TitleInStep, findIssueChatNode
<1> QED  BY <1>1, <1>3, <1>4 DEF IInv

\* A row that is stamped is a row still, with the session it is given.
LEMMA StampedRow ==
  ASSUME NEW row \in IssueRow, NEW state \in State, NEW a \in Writer,
         NEW s \in Session \cup {NoSession}
  PROVE  LET new == [Stamped(row, state, a) EXCEPT !.session = s]
         IN  /\ new \in IssueRow
             /\ new.chat = row.chat /\ new.title = row.title /\ new.filed = row.filed
             /\ new.deleted = row.deleted
BY DEF Stamped, IssueRow

\* Filing, editing, signing off, sending back, deleting and restoring an issue.
LEMMA LedgerStepsInv ==
  ASSUME IInv, NEW i \in Issue, NEW a \in Writer, NEW s \in Session \cup {NoSession},
         NEW state \in State,
         \/ handleCreateIssue(i, a, state, s)
         \/ handleUpdateIssue(i, a, state, s)
         \/ handleApproveIssueClose(i)
         \/ handleRejectIssueClose(i)
         \/ handleDeleteIssue(i, a)
         \/ handleRestoreIssue(i, a)
  PROVE  IInv'
<1>0. /\ issue \in [Issue -> IssueRow] /\ issue[i] \in IssueRow
      /\ notes \subseteq Note /\ "user" \in Writer /\ "doing" \in State
  BY DEF IInv, ITypeOK, Writer, State
<1>1. CASE handleCreateIssue(i, a, state, s)
  <2> DEFINE row == [issue[i] EXCEPT
       !.filed = TRUE, !.state = state, !.session = s,
       !.closed_at = (state = "done"), !.approved = (state = "done")]
  <2>1. row \in IssueRow /\ row.chat = issue[i].chat /\ row.title = issue[i].title /\ row.filed
    BY <1>0 DEF IssueRow
  <2>2. issue' = [issue EXCEPT ![i] = row] /\ UNCHANGED <<conv, said, links, loose>>
    BY <1>1 DEF handleCreateIssue
  <2>3. notes' \subseteq Note /\ who' \in Writer
    BY <1>0, <1>1, TellNotes DEF handleCreateIssue
  <2> QED  BY <2>1, <2>2, <2>3, LedgerInv
<1>2. CASE handleUpdateIssue(i, a, state, s)
  <2> DEFINE row == [Stamped(issue[i], state, a) EXCEPT !.session = s]
  <2>1. /\ row \in IssueRow /\ row.chat = issue[i].chat /\ row.title = issue[i].title
        /\ row.filed = issue[i].filed
    BY <1>0, StampedRow
  <2>2. /\ issue' = [issue EXCEPT ![i] = row] /\ UNCHANGED <<conv, said, links, loose>>
        /\ notes' \subseteq Note /\ who' \in Writer
    BY <1>0, <1>2 DEF handleUpdateIssue
  <2> HIDE DEF row
  <2> QED  BY <2>1, <2>2, LedgerInv
<1>3. CASE handleApproveIssueClose(i)
  <2> DEFINE row == [issue[i] EXCEPT !.approved = TRUE]
  <2>1. row \in IssueRow /\ row.chat = issue[i].chat /\ row.title = issue[i].title
        /\ row.filed = issue[i].filed
    BY <1>0 DEF IssueRow
  <2>2. /\ issue' = [issue EXCEPT ![i] = row] /\ UNCHANGED <<conv, said, links, loose>>
        /\ notes' \subseteq Note /\ who' \in Writer
    BY <1>0, <1>3 DEF handleApproveIssueClose
  <2> QED  BY <2>1, <2>2, LedgerInv
<1>4. CASE handleRejectIssueClose(i)
  <2> DEFINE row == [issue[i] EXCEPT !.state = "doing", !.closed_at = FALSE, !.approved = FALSE]
  <2>1. row \in IssueRow /\ row.chat = issue[i].chat /\ row.title = issue[i].title
        /\ row.filed = issue[i].filed
    BY <1>0 DEF IssueRow
  <2>2. issue' = [issue EXCEPT ![i] = row] /\ UNCHANGED <<conv, said, links, loose>>
    BY <1>4 DEF handleRejectIssueClose
  <2>3. issue[i].session \in Session \cup {NoSession}
    BY <1>0 DEF IssueRow
  <2>4. notes' \subseteq Note /\ who' \in Writer
    BY <1>0, <1>4, <2>3, TellNotes DEF handleRejectIssueClose
  <2> QED  BY <2>1, <2>2, <2>4, LedgerInv
<1>5. CASE handleDeleteIssue(i, a) \/ handleRestoreIssue(i, a)
  <2>1. PICK d \in BOOLEAN : issue' = [issue EXCEPT ![i].deleted = d]
    BY <1>5 DEF handleDeleteIssue, handleRestoreIssue
  <2> DEFINE row == [issue[i] EXCEPT !.deleted = d]
  <2>2. row \in IssueRow /\ row.chat = issue[i].chat /\ row.title = issue[i].title
        /\ row.filed = issue[i].filed
    BY <1>0 DEF IssueRow
  <2>3. /\ issue' = [issue EXCEPT ![i] = row] /\ UNCHANGED <<conv, said, links, loose>>
        /\ notes' \subseteq Note /\ who' \in Writer
    BY <1>0, <1>5, <2>1 DEF handleDeleteIssue, handleRestoreIssue
  <2> QED  BY <2>2, <2>3, LedgerInv
<1> QED  BY <1>1, <1>2, <1>3, <1>4, <1>5

\* The new title reaches the item that can be read, and no other conversation.
LEMMA RetitleInv ==
  ASSUME IInv, NEW i \in Issue, NEW a \in Writer, retitle(i, a)
  PROVE  IInv'
<1> DEFINE title == issue[i].title + 1
           p == findIssueChatNode(i)
<1>0. /\ issue \in [Issue -> IssueRow] /\ conv \in [Place -> Conversation]
      /\ title \in 0..MaxTitle /\ issue[i] \in IssueRow
      /\ p \in Place \cup {NoPlace}
  BY IssuesAssumption DEF IInv, ITypeOK, retitle, IssueRow, findIssueChatNode
<1>1. /\ issue' = [issue EXCEPT ![i] = [@ EXCEPT !.title = title]]
      /\ UNCHANGED <<said, links, notes, loose>> /\ who' = a
      /\ syncIssueChatTitle(i, title)
  BY <1>0 DEF retitle
<1>2. /\ issue' \in [Issue -> IssueRow]
      /\ \A j \in Issue : /\ issue'[j].chat = issue[j].chat /\ issue'[j].filed = issue[j].filed
                          /\ issue'[j].title = IF j = i THEN title ELSE issue[j].title
  BY <1>0, <1>1 DEF IssueRow
<1>3. CASE p = NoPlace
  <2>1. conv' = conv
    BY <1>1, <1>3 DEF syncIssueChatTitle
  <2>2. ITypeOK' /\ Chats' /\ SaidSomewhere' /\ TimelineWhole'
    BY <1>1, <1>2, <2>1 DEF IInv, ITypeOK, Chats, SaidSomewhere, TimelineWhole
  <2>3. TitleInStep'
    BY <1>2, <1>3, <2>1 DEF IInv, TitleInStep, findIssueChatNode
  <2> QED  BY <2>2, <2>3 DEF IInv
<1>4. CASE p # NoPlace
  <2>1. p \in Place /\ p = issue[i].chat /\ conv[p].item
    BY <1>0, <1>4 DEF findIssueChatNode
  <2>2. PICK b \in 0..MaxTitle : conv' = [conv EXCEPT ![p] = [@ EXCEPT !.named = title, !.board = b]]
    <3> DEFINE b == IF {j \in Issue : Known(j) /\ issue[j].chat = p} = {i}
                    THEN title ELSE conv[p].board
    <3>1. b \in 0..MaxTitle
      BY <1>0, <2>1 DEF Conversation
    <3>2. conv' = [conv EXCEPT ![p].named = title, ![p].board = b]
      BY <1>0, <1>1, <1>4, <2>1 DEF syncIssueChatTitle
    <3> HIDE DEF b, title
    <3> QED  BY <1>0, <2>1, <3>1, <3>2 DEF Conversation
  <2>3. /\ conv' \in [Place -> Conversation]
        /\ \A q \in Place : /\ conv'[q].made = conv[q].made /\ conv'[q].item = conv[q].item
                            /\ conv'[q].named = IF q = p THEN title ELSE conv[q].named
    <3>1. title \in 0..Own /\ p \in Place
      BY <1>0, <2>1, IssuesAssumption DEF Own
    <3> HIDE DEF title, p
    <3> QED  BY <1>0, <2>2, <3>1 DEF Conversation
  <2>4. ITypeOK'
    BY <1>1, <1>2, <2>3 DEF IInv, ITypeOK
  <2>5. Chats'
    BY <1>2, <2>3, IssuesAssumption DEF IInv, Chats, ITypeOK, IssueRow
  <2>6. SaidSomewhere' /\ TimelineWhole'
    <3>1. \A m \in DOMAIN said : said[m].at \in Place
      BY SaidTyped
    <3>2. UNCHANGED <<said, links, loose>>
      BY <1>1
    <3>3. SaidSomewhere'
      BY <2>3, <3>1, <3>2 DEF IInv, SaidSomewhere
    <3>4. TimelineWhole'
      BY <1>2, <3>2 DEF IInv, TimelineWhole
    <3> QED  BY <3>3, <3>4
  <2>7. TitleInStep'
    <3> SUFFICES ASSUME NEW j \in Issue, findIssueChatNode(j)' # NoPlace
                 PROVE  conv'[findIssueChatNode(j)'].named \in {issue'[j].title, Own}
      BY DEF TitleInStep
    <3>1. /\ findIssueChatNode(j)' = issue[j].chat
          /\ issue[j].chat \in Place /\ conv[issue[j].chat].item
      BY <1>0, <1>2, <2>3 DEF findIssueChatNode, IssueRow
    <3>2. CASE j = i
      BY <1>2, <2>1, <2>3, <3>1, <3>2
    <3>3. CASE j # i
      <4>1. issue[j].chat # p
        BY <2>1, <1>4, <3>3 DEF IInv, Chats
      <4> QED  BY <1>2, <2>3, <3>1, <3>3, <4>1 DEF IInv, TitleInStep, findIssueChatNode
    <3> QED  BY <3>2, <3>3
  <2> QED  BY <2>4, <2>5, <2>6, <2>7 DEF IInv
<1> QED  BY <1>3, <1>4

-----------------------------------------------------------------------------
(* The conversation. *)

\* A step that may make conversations, but moves none, shares none, takes none away
\* and has none begin where something was said before.
Kept ==
  /\ issue' \in [Issue -> IssueRow] /\ conv' \in [Place -> Conversation]
  /\ \A j \in Issue : issue[j].chat # NoPlace => issue'[j].chat = issue[j].chat
  /\ \A q \in Place : conv[q].made => conv'[q].made
  /\ \A j \in Issue, m \in DOMAIN said :
       issue'[j].chat = said[m].at => issue[j].chat = said[m].at
  /\ Chats' /\ TitleInStep'

\* Making the conversation of i at p keeps the others, and i has it there.
LEMMA EnsureKept ==
  ASSUME IInv, NEW i \in Issue, NEW p \in Place, Known(i), ensureIssueChatNode(i, p)
  PROVE  Kept /\ issue'[i].chat = p /\ conv'[p].made
<1> DEFINE row == issue[i]
<1>0. /\ issue \in [Issue -> IssueRow] /\ conv \in [Place -> Conversation]
      /\ row \in IssueRow /\ row.filed /\ Own \in 0..Own
      /\ 0..MaxTitle \subseteq 0..Own /\ NoPlace \notin Place
  BY IssuesAssumption DEF IInv, ITypeOK, Known, Own
<1>1. CASE row.chat # NoPlace
  <2>1. /\ p = row.chat /\ issue' = issue /\ conv[p].made
        /\ conv' = IF conv[p].item THEN conv
                   ELSE [conv EXCEPT ![p] = [@ EXCEPT !.item = TRUE, !.named = row.title]]
    BY <1>0, <1>1 DEF ensureIssueChatNode, IInv, Chats, Conversation
  <2>2. /\ conv' \in [Place -> Conversation]
        /\ \A q \in Place : /\ conv'[q].made = conv[q].made
                            /\ q # p => conv'[q] = conv[q]
        /\ ~conv[p].item => conv'[p].named = row.title
        /\ conv[p].item => conv'[p] = conv[p]
    BY <1>0, <2>1 DEF Conversation, IssueRow
  <2>3. Chats'
    BY <1>0, <2>1, <2>2 DEF IInv, Chats, IssueRow
  <2>4. TitleInStep'
    <3> SUFFICES ASSUME NEW j \in Issue, findIssueChatNode(j)' # NoPlace
                 PROVE  conv'[findIssueChatNode(j)'].named \in {issue'[j].title, Own}
      BY DEF TitleInStep
    <3>1. /\ findIssueChatNode(j)' = issue[j].chat /\ issue[j].chat \in Place
          /\ conv'[issue[j].chat].item
      BY <1>0, <2>1 DEF findIssueChatNode, IssueRow
    <3>2. CASE j = i
      BY <2>1, <2>2, <3>1, <3>2, <1>1 DEF IInv, TitleInStep, findIssueChatNode
    <3>3. CASE j # i
      <4>1. issue[j].chat # p
        BY <1>1, <2>1, <3>3 DEF IInv, Chats
      <4> QED  BY <2>1, <2>2, <3>1, <4>1 DEF IInv, TitleInStep, findIssueChatNode
    <3> QED  BY <3>2, <3>3
  <2> QED  BY <1>0, <2>1, <2>2, <2>3, <2>4 DEF Kept
<1>2. CASE row.chat = NoPlace
  <2>1. /\ ~conv[p].made
        /\ issue' = [issue EXCEPT ![i] = [@ EXCEPT !.chat = p]]
        /\ conv' = [conv EXCEPT ![p] = [made |-> TRUE, item |-> TRUE, named |-> row.title,
                                        board |-> row.title]]
    BY <1>0, <1>2 DEF ensureIssueChatNode
  <2>2. /\ issue' \in [Issue -> IssueRow] /\ issue'[i].chat = p
        /\ \A j \in Issue : /\ issue'[j].filed = issue[j].filed
                            /\ issue'[j].deleted = issue[j].deleted
                            /\ issue'[j].title = issue[j].title
                            /\ j # i => issue'[j].chat = issue[j].chat
    BY <1>0, <2>1 DEF IssueRow
  <2>3. /\ conv' \in [Place -> Conversation] /\ conv'[p].made /\ conv'[p].named = row.title
        /\ \A q \in Place : q # p => conv'[q] = conv[q]
    BY <1>0, <2>1 DEF Conversation, IssueRow
  <2>4. \A j \in Issue : issue[j].chat # p
    BY <1>0, <2>1 DEF IInv, Chats
  <2>5. \A m \in DOMAIN said : said[m].at # p
    BY <2>1 DEF IInv, SaidSomewhere
  <2>6. Chats'
    <3> SUFFICES ASSUME NEW j \in Issue, issue'[j].chat # NoPlace
                 PROVE  /\ issue'[j].filed /\ conv'[issue'[j].chat].made
                        /\ \A k \in Issue \ {j} : issue'[k].chat # issue'[j].chat
      BY DEF Chats
    <3>1. CASE j = i
      BY <1>0, <2>2, <2>3, <2>4, <3>1
    <3>2. CASE j # i
      <4>1. issue[j].chat \in Place /\ issue'[j].chat = issue[j].chat
        BY <1>0, <2>2, <3>2 DEF IssueRow
      <4> QED  BY <2>2, <2>3, <2>4, <3>2, <4>1 DEF IInv, Chats
    <3> QED  BY <3>1, <3>2
  <2>7. TitleInStep'
    <3> SUFFICES ASSUME NEW j \in Issue, findIssueChatNode(j)' # NoPlace
                 PROVE  conv'[findIssueChatNode(j)'].named \in {issue'[j].title, Own}
      BY DEF TitleInStep
    <3>1. findIssueChatNode(j)' = issue'[j].chat /\ conv'[issue'[j].chat].item
      BY DEF findIssueChatNode
    <3>2. CASE j = i
      BY <2>2, <2>3, <3>1, <3>2
    <3>3. CASE j # i
      <4>1. issue[j].chat \in Place /\ issue'[j].chat = issue[j].chat /\ issue[j].chat # p
        BY <1>0, <2>2, <2>4, <3>1, <3>3 DEF IssueRow
      <4> QED  BY <1>0, <2>2, <2>3, <3>1, <4>1 DEF IInv, TitleInStep, findIssueChatNode
    <3> QED  BY <3>2, <3>3
  <2>8. \A q \in Place : conv[q].made => conv'[q].made
    BY <2>1, <2>3
  <2>9. \A j \in Issue, m \in DOMAIN said :
          issue'[j].chat = said[m].at => issue[j].chat = said[m].at
    BY <2>2, <2>5
  <2> QED  BY <1>2, <2>2, <2>3, <2>6, <2>7, <2>8, <2>9 DEF Kept
<1> QED  BY <1>1, <1>2

\* Leaving the tables alone keeps the conversations.
LEMMA StayKept ==
  ASSUME IInv, UNCHANGED <<issue, conv>>
  PROVE  Kept
BY DEF IInv, ITypeOK, Kept, Chats, TitleInStep, findIssueChatNode

\* The item of a conversation may go, and CC may give it a title of its own.
LEMMA NodeKept ==
  ASSUME IInv, NEW p \in Place, handleDeleteNode(p) \/ handleUpdateNode(p)
  PROVE  Kept
<1>0. /\ issue \in [Issue -> IssueRow] /\ conv \in [Place -> Conversation]
      /\ issue' = issue /\ conv[p] \in Conversation
  BY DEF IInv, ITypeOK, handleDeleteNode, handleUpdateNode
<1>1. /\ conv' \in [Place -> Conversation]
      /\ \A q \in Place : /\ conv'[q].made = conv[q].made
                          /\ conv'[q].item => conv[q].item
                          /\ conv'[q].named \in {conv[q].named, Own}
  <2>1. Own \in 0..Own
    BY IssuesAssumption DEF Own
  <2>2. CASE handleDeleteNode(p)
    BY <1>0, <2>2 DEF handleDeleteNode, Conversation
  <2>3. CASE handleUpdateNode(p)
    BY <1>0, <2>1, <2>3 DEF handleUpdateNode, Conversation
  <2> QED  BY <2>2, <2>3
<1>2. \A i \in Issue : issue[i].chat \in Place \cup {NoPlace}
  BY <1>0 DEF IssueRow
<1>3. Chats'
  BY <1>0, <1>1, <1>2 DEF IInv, Chats
<1>4. TitleInStep'
  BY <1>0, <1>1, <1>2 DEF IInv, TitleInStep, findIssueChatNode
<1> QED  BY <1>0, <1>1, <1>3, <1>4 DEF Kept

-----------------------------------------------------------------------------
(* The messages. *)

\* One more message.
LEMMA NextFacts ==
  ASSUME IInv, NEW p \in Place, NEW by \in {"user", "cc"}, NEW phase \in {"queued", "shown"},
         Len(said) < MaxSaid, said' = Next(by, p, phase)
  PROVE  /\ said' \in Seq(Said) /\ Len(said') <= MaxSaid
         /\ Len(said) + 1 \in 1..MaxSaid
         /\ \A m \in DOMAIN said' :
              IF m = Len(said) + 1
              THEN said'[m] = [at |-> p, by |-> by, phase |-> phase]
              ELSE m \in DOMAIN said /\ said'[m] = said[m]
<1> DEFINE new == [at |-> p, by |-> by, phase |-> phase]
<1>1. said \in Seq(Said) /\ MaxSaid \in Nat /\ new \in Said
  BY IssuesAssumption DEF IInv, ITypeOK, Said
<1>2. said' = Append(said, new)
  BY DEF Next
<1> HIDE DEF new
<1>3. /\ said' \in Seq(Said) /\ Len(said') = Len(said) + 1 /\ Len(said) \in Nat
      /\ said'[Len(said) + 1] = new
      /\ \A m \in 1..Len(said) : said'[m] = said[m]
  BY <1>1, <1>2
<1>4. DOMAIN said' = 1..(Len(said) + 1) /\ DOMAIN said = 1..Len(said)
  BY <1>1, <1>3
<1> QED  BY <1>1, <1>3, <1>4 DEF new

\* Linking the message that appears at p completes the timelines: the issue that
\* has its conversation there is linked, or was deleted.
LEMMA LinkWhole ==
  ASSUME IInv, Chats', NEW m \in 1..MaxSaid, NEW p \in Place, NEW ids \in SUBSET Issue,
         Link(m, p, issue', ids),
         \A k \in DOMAIN said' :
           IF k = m THEN said'[k].at = p ELSE k \in DOMAIN said /\ said'[k] = said[k],
         \A j \in Issue, k \in DOMAIN said :
           issue'[j].chat = said[k].at => issue[j].chat = said[k].at
  PROVE  /\ TimelineWhole'
         /\ links' \subseteq (1..MaxSaid) \X Issue /\ loose' \subseteq (1..MaxSaid) \X Issue
<1>1. /\ links' = links \cup ({m} \X (ids \cup issueOfChatNode(issue', p)))
      /\ loose' = loose \cup {<<m, i>> : i \in {j \in Issue : issue'[j].chat = p /\ issue'[j].deleted}}
  BY DEF Link
<1>2. issueOfChatNode(issue', p) = {i \in Issue : issue'[i].filed /\ ~issue'[i].deleted /\ issue'[i].chat = p}
  BY DEF issueOfChatNode
<1>3. p # NoPlace
  BY IssuesAssumption
<1>4. TimelineWhole'
  <2> SUFFICES ASSUME NEW k \in DOMAIN said', NEW i \in Issue, said'[k].phase = "shown",
                      issue'[i].chat = said'[k].at, <<k, i>> \notin loose'
               PROVE  <<k, i>> \in links'
    BY DEF TimelineWhole
  <2>1. CASE k = m
    <3>1. issue'[i].chat = p /\ issue'[i].filed
      BY <1>3, <2>1 DEF Chats
    <3> QED  BY <1>1, <1>2, <2>1, <3>1
  <2>2. CASE k # m
    <3>1. k \in DOMAIN said /\ said'[k] = said[k] /\ issue[i].chat = said[k].at
      BY <2>2
    <3>2. <<k, i>> \in links
      BY <1>1, <3>1 DEF IInv, TimelineWhole
    <3> QED  BY <1>1, <3>2
  <2> QED  BY <2>1, <2>2
<1>5. /\ links' \subseteq (1..MaxSaid) \X Issue
      /\ loose' \subseteq (1..MaxSaid) \X Issue
  BY <1>1, <1>2 DEF IInv, ITypeOK
<1> QED  BY <1>4, <1>5

\* A step that says something, on a conversation that it may have made.
LEMMA SpeakInv ==
  ASSUME IInv, Kept, NEW p \in Place, conv'[p].made, NEW by \in {"user", "cc"},
         NEW phase \in {"queued", "shown"},
         Len(said) < MaxSaid, said' = Next(by, p, phase),
         \/ phase = "queued" /\ UNCHANGED <<links, loose>>
         \/ \E ids \in SUBSET Issue : Link(Len(said) + 1, p, issue', ids),
         notes' = notes, who' \in Writer
  PROVE  IInv'
<1> DEFINE m == Len(said) + 1
<1>1. /\ said' \in Seq(Said) /\ Len(said') <= MaxSaid /\ m \in 1..MaxSaid
      /\ \A k \in DOMAIN said' :
           IF k = m THEN said'[k] = [at |-> p, by |-> by, phase |-> phase]
                    ELSE k \in DOMAIN said /\ said'[k] = said[k]
  BY NextFacts
<1>2. /\ TimelineWhole'
      /\ links' \subseteq (1..MaxSaid) \X Issue /\ loose' \subseteq (1..MaxSaid) \X Issue
  <2>1. CASE phase = "queued" /\ UNCHANGED <<links, loose>>
    <3>1. \A k \in DOMAIN said' : said'[k].phase = "shown" => k \in DOMAIN said /\ said'[k] = said[k]
      BY <1>1, <2>1
    <3>2. TimelineWhole'
      BY <2>1, <3>1 DEF IInv, TimelineWhole, Kept
    <3> QED  BY <2>1, <3>2 DEF IInv, ITypeOK
  <2>2. ASSUME NEW ids \in SUBSET Issue, Link(m, p, issue', ids)
        PROVE  /\ TimelineWhole'
               /\ links' \subseteq (1..MaxSaid) \X Issue /\ loose' \subseteq (1..MaxSaid) \X Issue
    <3>1. \A k \in DOMAIN said' :
            IF k = m THEN said'[k].at = p ELSE k \in DOMAIN said /\ said'[k] = said[k]
      BY <1>1
    <3> HIDE DEF m
    <3> QED  BY <1>1, <2>2, <3>1, LinkWhole DEF Kept
  <2> QED  BY <2>1, <2>2
<1>3. ITypeOK'
  BY <1>1, <1>2 DEF IInv, ITypeOK, Kept
<1>4. SaidSomewhere'
  <2> SUFFICES ASSUME NEW k \in DOMAIN said' PROVE conv'[said'[k].at].made
    BY DEF SaidSomewhere
  <2>1. CASE k = m
    BY <1>1, <2>1
  <2>2. CASE k # m
    BY <1>1, <2>2, SaidTyped DEF IInv, SaidSomewhere, Kept
  <2> QED  BY <2>1, <2>2
<1> QED  BY <1>2, <1>3, <1>4 DEF IInv, Kept

\* A step that says nothing, on a conversation that it may have made.
LEMMA QuietInv ==
  ASSUME IInv, Kept, UNCHANGED <<said, links, loose>>, notes' \subseteq Note,
         who' \in Writer \cup {"nobody", "broker"}
  PROVE  IInv'
<1>1. ITypeOK'
  BY DEF IInv, ITypeOK, Kept
<1>2. SaidSomewhere'
  BY SaidTyped DEF IInv, SaidSomewhere, Kept
<1>3. TimelineWhole'
  BY DEF IInv, TimelineWhole, Kept
<1> QED  BY <1>1, <1>2, <1>3 DEF IInv, Kept

\* The poll shows the message m in its thread and links it.
LEMMA PollInv ==
  ASSUME IInv, NEW m \in 1..MaxSaid, handlePollMessages(m)
  PROVE  IInv'
<1>0. /\ m \in DOMAIN said /\ said[m] \in Said /\ said[m].at \in Place
      /\ said \in Seq(Said) /\ Len(said) <= MaxSaid
  BY SaidTyped DEF handlePollMessages, IInv, ITypeOK
<1> DEFINE shown == [said[m] EXCEPT !.phase = "shown"]
<1>1. shown \in Said /\ shown.at = said[m].at
  BY <1>0 DEF Said
<1>2. said' = [said EXCEPT ![m] = shown] /\ UNCHANGED <<issue, conv, notes>> /\ who' = "broker"
  BY DEF handlePollMessages
<1> HIDE DEF shown
<1>3. /\ said' \in Seq(Said) /\ Len(said') = Len(said) /\ DOMAIN said' = DOMAIN said
      /\ said'[m] = shown /\ \A k \in DOMAIN said : k # m => said'[k] = said[k]
  BY <1>0, <1>1, <1>2
<1>4. Kept
  BY <1>2, StayKept
<1>5. /\ TimelineWhole'
      /\ links' \subseteq (1..MaxSaid) \X Issue /\ loose' \subseteq (1..MaxSaid) \X Issue
  <2>1. Link(m, said[m].at, issue', {})
    BY <1>2 DEF handlePollMessages
  <2>2. \A k \in DOMAIN said' :
          IF k = m THEN said'[k].at = said[m].at ELSE k \in DOMAIN said /\ said'[k] = said[k]
    BY <1>1, <1>3
  <2> DEFINE p == said[m].at
  <2>3. p \in Place /\ Link(m, p, issue', {})
    BY <1>0, <2>1
  <2>4. \A k \in DOMAIN said' :
          IF k = m THEN said'[k].at = p ELSE k \in DOMAIN said /\ said'[k] = said[k]
    BY <2>2
  <2> HIDE DEF p
  <2> QED  BY <1>4, <2>3, <2>4, LinkWhole DEF Kept
<1>6. ITypeOK'
  BY <1>0, <1>2, <1>3, <1>5 DEF IInv, ITypeOK
<1>7. SaidSomewhere'
  BY <1>1, <1>2, <1>3 DEF IInv, SaidSomewhere
<1> QED  BY <1>4, <1>5, <1>6, <1>7 DEF IInv, Kept

\* A submission that timed out is withdrawn and shown nowhere.
LEMMA TimeoutInv ==
  ASSUME IInv, NEW m \in 1..MaxSaid, submitTimeout(m)
  PROVE  IInv'
<1>0. /\ m \in DOMAIN said /\ said[m] \in Said
      /\ said \in Seq(Said) /\ Len(said) <= MaxSaid
  BY SaidTyped DEF submitTimeout, IInv, ITypeOK
<1> DEFINE gone == [said[m] EXCEPT !.phase = "withdrawn"]
<1>1. gone \in Said /\ gone.at = said[m].at /\ gone.phase = "withdrawn"
  BY <1>0 DEF Said
<1>2. /\ said' = [said EXCEPT ![m] = gone] /\ UNCHANGED <<issue, conv, links, notes, loose>>
      /\ who' = "broker"
  BY DEF submitTimeout
<1> HIDE DEF gone
<1>3. /\ said' \in Seq(Said) /\ Len(said') = Len(said) /\ DOMAIN said' = DOMAIN said
      /\ said'[m] = gone /\ \A k \in DOMAIN said : k # m => said'[k] = said[k]
  BY <1>0, <1>1, <1>2
<1>4. ITypeOK'
  BY <1>0, <1>2, <1>3 DEF IInv, ITypeOK
<1>5. SaidSomewhere' /\ TimelineWhole'
  BY <1>1, <1>2, <1>3 DEF IInv, SaidSomewhere, TimelineWhole
<1>6. Chats' /\ TitleInStep'
  BY <1>2, StayKept DEF Kept
<1> QED  BY <1>4, <1>5, <1>6 DEF IInv

\* A message that is shown may be linked to more issues, and a link may be cut.
LEMMA LinkStepsInv ==
  ASSUME IInv, NEW m \in 1..MaxSaid,
         \/ \E i \in Issue : handleUnlinkIssueMessage(m, i)
         \/ \E ids \in SUBSET Issue : handleLinkIssueMessage(m, ids)
  PROVE  IInv'
<1>1. UNCHANGED <<issue, conv, said, notes>> /\ who' = "cc"
  BY DEF handleUnlinkIssueMessage, handleLinkIssueMessage
<1>2. Chats' /\ TitleInStep' /\ SaidSomewhere'
  BY <1>1, StayKept DEF Kept, IInv, SaidSomewhere
<1>3. ASSUME NEW i \in Issue, handleUnlinkIssueMessage(m, i) PROVE ITypeOK' /\ TimelineWhole'
  <2>1. links' = links \ {<<m, i>>} /\ loose' = loose \cup {<<m, i>>}
    BY <1>3 DEF handleUnlinkIssueMessage
  <2> QED  BY <1>1, <2>1 DEF IInv, ITypeOK, TimelineWhole, Writer
<1>4. ASSUME NEW ids \in SUBSET Issue, handleLinkIssueMessage(m, ids)
      PROVE  ITypeOK' /\ TimelineWhole'
  <2>1. links' = links \cup ({m} \X ids) /\ loose' = loose
    BY <1>4 DEF handleLinkIssueMessage
  <2> QED  BY <1>1, <2>1 DEF IInv, ITypeOK, TimelineWhole, Writer
<1> QED  BY <1>2, <1>3, <1>4 DEF IInv

\* Every step keeps the invariant.
LEMMA NextIInv == IInv /\ [INext]_ivars => IInv'
<1> SUFFICES ASSUME IInv, [INext]_ivars PROVE IInv'
  OBVIOUS
<1>0. "user" \in Writer /\ "cc" \in Writer /\ notes \subseteq Note
  BY DEF Writer, IInv, ITypeOK
<1>1. ASSUME NEW i \in Issue, NEW a \in Writer, NEW s \in Session \cup {NoSession},
             NEW st \in State,
             handleCreateIssue(i, a, st, s) \/ handleUpdateIssue(i, a, st, s)
      PROVE  IInv'
  BY <1>1, LedgerStepsInv
<1>2. ASSUME NEW i \in Issue, NEW a \in Writer, retitle(i, a) PROVE IInv'
  BY <1>2, RetitleInv
<1>3. ASSUME NEW i \in Issue, NEW a \in Writer,
             handleDeleteIssue(i, a) \/ handleRestoreIssue(i, a)
      PROVE  IInv'
  <2>1. NoSession \in Session \cup {NoSession} /\ "todo" \in State
    BY DEF State
  <2> QED  BY <1>3, <2>1, LedgerStepsInv
<1>4. ASSUME NEW i \in Issue, handleApproveIssueClose(i) \/ handleRejectIssueClose(i)
      PROVE  IInv'
  <2>1. NoSession \in Session \cup {NoSession} /\ "todo" \in State
    BY DEF State
  <2> QED  BY <1>0, <1>4, <2>1, LedgerStepsInv
<1>5. ASSUME NEW i \in Issue, NEW p \in Place, handleSubmitIssueChat(i, p) PROVE IInv'
  <2>1. Kept /\ conv'[p].made
    BY <1>5, EnsureKept DEF handleSubmitIssueChat
  <2> QED  BY <1>0, <1>5, <2>1, SpeakInv DEF handleSubmitIssueChat
<1>6. ASSUME NEW i \in Issue, NEW p \in Place, submitRefused(i, p) \/ postRefused(i, p)
      PROVE  IInv'
  <2>1. Kept
    BY <1>6, EnsureKept DEF submitRefused, postRefused
  <2> QED  BY <1>0, <1>6, <2>1, QuietInv DEF submitRefused, postRefused
<1>7. ASSUME NEW i \in Issue, NEW p \in Place, NEW ids \in SUBSET Issue,
             handlePostIssueChat(i, p, ids)
      PROVE  IInv'
  <2>1. Kept /\ conv'[p].made
    BY <1>7, EnsureKept DEF handlePostIssueChat
  <2> QED  BY <1>0, <1>7, <2>1, SpeakInv DEF handlePostIssueChat
<1>8. ASSUME NEW p \in Place, NEW ids \in SUBSET Issue, handlePostToNode(p, ids) PROVE IInv'
  <2>1. Kept /\ conv'[p].made /\ issue' = issue
    BY <1>8, StayKept DEF handlePostToNode
  <2>2. Link(Len(said) + 1, p, issue', ids)
    BY <1>8, <2>1 DEF handlePostToNode
  <2> QED  BY <1>0, <1>8, <2>1, <2>2, SpeakInv DEF handlePostToNode
<1>9. ASSUME NEW p \in Place, handleSubmitAnswer(p) PROVE IInv'
  <2>1. Kept /\ conv'[p].made
    BY <1>9, StayKept DEF handleSubmitAnswer
  <2> QED  BY <1>0, <1>9, <2>1, SpeakInv DEF handleSubmitAnswer
<1>10. ASSUME NEW p \in Place, handleDeleteNode(p) \/ handleUpdateNode(p) PROVE IInv'
  <2>1. Kept
    BY <1>10, NodeKept
  <2> QED  BY <1>0, <1>10, <2>1, QuietInv DEF handleDeleteNode, handleUpdateNode
<1>11. ASSUME NEW s \in Session, drainNotes(s) PROVE IInv'
  <2>1. Kept
    BY <1>11, StayKept DEF drainNotes
  <2> QED  BY <1>0, <1>11, <2>1, QuietInv DEF drainNotes
<1>12. CASE UNCHANGED ivars
  <2>1. Kept
    BY <1>12, StayKept DEF ivars
  <2>2. who \in Writer \cup {"nobody", "broker"}
    BY DEF IInv, ITypeOK
  <2> QED  BY <1>0, <1>12, <2>1, <2>2, QuietInv DEF ivars
<1> QED
  BY <1>1, <1>2, <1>3, <1>4, <1>5, <1>6, <1>7, <1>8, <1>9, <1>10, <1>11, <1>12,
     PollInv, TimeoutInv, LinkStepsInv DEF INext

\* The tables are well typed in every reachable state.
THEOREM ITypeCorrect == ISpec => []ITypeOK
<1>1. IInv => ITypeOK
  BY DEF IInv
<1> QED  BY <1>1, InitIInv, NextIInv, PTL DEF ISpec

\* The timeline of an issue holds every message that was shown in its conversation,
\* but for those shown while it was deleted and those somebody unlinked.
THEOREM TimelineIsWhole == ISpec => []TimelineWhole
<1>1. IInv => TimelineWhole
  BY DEF IInv
<1> QED  BY <1>1, InitIInv, NextIInv, PTL DEF ISpec

\* The thread of an issue that can be read shows the issue's title of today, or the
\* one CC gave it by hand.
THEOREM TitleStaysInStep == ISpec => []TitleInStep
<1>1. IInv => TitleInStep
  BY DEF IInv
<1> QED  BY <1>1, InitIInv, NextIInv, PTL DEF ISpec

-----------------------------------------------------------------------------
(* What no step may do. *)

\* No step moves a conversation.
LEMMA ChatStays ==
  ASSUME IInv, [INext]_ivars, NEW i \in Issue, issue[i].chat # NoPlace
  PROVE  issue'[i].chat = issue[i].chat
<1>0. issue \in [Issue -> IssueRow]
  BY DEF IInv, ITypeOK
<1>1. ASSUME NEW k \in Issue, NEW a \in Writer, NEW s \in Session \cup {NoSession},
             NEW st \in State,
             handleCreateIssue(k, a, st, s) \/ handleUpdateIssue(k, a, st, s)
      PROVE  issue'[i].chat = issue[i].chat
  <2>1. CASE handleCreateIssue(k, a, st, s)
    BY <1>0, <2>1 DEF handleCreateIssue, IssueRow
  <2>2. CASE handleUpdateIssue(k, a, st, s)
    <3>1. issue[k] \in IssueRow
      BY <1>0
    <3> DEFINE row == [Stamped(issue[k], st, a) EXCEPT !.session = s]
    <3>2. row.chat = issue[k].chat
      BY <3>1 DEF Stamped, IssueRow
    <3>3. issue' = [issue EXCEPT ![k] = row]
      BY <2>2 DEF handleUpdateIssue
    <3> HIDE DEF row
    <3> QED  BY <1>0, <3>2, <3>3
  <2> QED  BY <1>1, <2>1, <2>2
<1>2. ASSUME NEW k \in Issue, NEW a \in Writer,
             \/ retitle(k, a) \/ handleDeleteIssue(k, a) \/ handleRestoreIssue(k, a)
             \/ handleApproveIssueClose(k) \/ handleRejectIssueClose(k)
      PROVE  issue'[i].chat = issue[i].chat
  <2>1. CASE retitle(k, a)
    BY <1>0, <2>1 DEF retitle, IssueRow
  <2>2. CASE handleDeleteIssue(k, a) \/ handleRestoreIssue(k, a)
    BY <1>0, <2>2 DEF handleDeleteIssue, handleRestoreIssue, IssueRow
  <2>3. CASE handleApproveIssueClose(k)
    BY <1>0, <2>3 DEF handleApproveIssueClose, IssueRow
  <2>4. CASE handleRejectIssueClose(k)
    <3>1. issue' = [issue EXCEPT ![k] = [@ EXCEPT
            !.state = "doing", !.closed_at = FALSE, !.approved = FALSE]]
      BY <2>4 DEF handleRejectIssueClose
    <3> QED  BY <1>0, <3>1 DEF IssueRow
  <2> QED  BY <1>2, <2>1, <2>2, <2>3, <2>4
<1>3. ASSUME NEW k \in Issue, NEW p \in Place, Known(k), ensureIssueChatNode(k, p)
      PROVE  issue'[i].chat = issue[i].chat
  BY <1>3, EnsureKept DEF Kept
<1>4. CASE issue' = issue
  BY <1>4
<1>5. "user" \in Writer
  BY DEF Writer
<1> QED
  BY <1>1, <1>2, <1>3, <1>4, <1>5
  DEF INext, ivars, handleSubmitIssueChat, submitRefused, postRefused, handlePostIssueChat,
      handlePostToNode, handleSubmitAnswer, handleDeleteNode, handleUpdateNode,
      handlePollMessages, submitTimeout, handleUnlinkIssueMessage, handleLinkIssueMessage,
      drainNotes

\* Everything said on an issue is in one place of its own, for good.
THEOREM OneConversationEach == ISpec => OneConversation
<1> DEFINE A == \A i \in Issue :
       LET p == issue[i].chat
       IN  p # NoPlace => /\ issue[i].chat' = p
                          /\ \A j \in Issue \ {i} : issue[j].chat' # p
<1>1. IInv /\ [INext]_ivars => A
  <2> SUFFICES ASSUME IInv, [INext]_ivars, NEW i \in Issue, issue[i].chat # NoPlace
               PROVE  /\ issue'[i].chat = issue[i].chat
                      /\ \A j \in Issue \ {i} : issue'[j].chat # issue[i].chat
    BY Zenon
  <2>1. issue'[i].chat = issue[i].chat
    BY ChatStays
  <2>2. Chats'
    BY NextIInv DEF IInv
  <2> QED  BY <2>1, <2>2 DEF Chats
<1> QED  BY <1>1, InitIInv, NextIInv, PTL DEF ISpec, OneConversation

\* Only the user signs a close off, and a sign-off lasts as long as the close.
THEOREM SignOffStaysTheUsers == ISpec => SignOffIsTheUsers
<1> DEFINE Fine(i) == issue[i].filed =>
       LET signed == Closed(i) /\ issue[i].approved
       IN  /\ (Closed(i)' /\ issue[i].approved' /\ ~signed) => who' = "user"
           /\ (signed /\ Closed(i)') => issue[i].approved'
<1>1. ASSUME IInv, [INext]_ivars, NEW i \in Issue PROVE Fine(i)
  <2>0. issue \in [Issue -> IssueRow]
    BY <1>1 DEF IInv, ITypeOK
  <2>1. ASSUME NEW k \in Issue, NEW a \in Writer, NEW s \in Session \cup {NoSession},
               NEW st \in State, handleCreateIssue(k, a, st, s)
        PROVE  Fine(i)
    BY <2>0, <2>1 DEF handleCreateIssue, Closed
  <2>2. ASSUME NEW k \in Issue, NEW a \in Writer, NEW s \in Session \cup {NoSession},
               NEW st \in State, handleUpdateIssue(k, a, st, s)
        PROVE  Fine(i)
    <3>1. who' = a /\ issue' = [issue EXCEPT ![k] = [Stamped(issue[k], st, a) EXCEPT !.session = s]]
      BY <2>2 DEF handleUpdateIssue
    <3>2. CASE i = k
      <4>1. issue'[i].state = st /\ issue[i].state \in State
        BY <2>0, <3>1, <3>2 DEF Stamped, IssueRow
      <4>2. issue'[i].approved = IF (issue[i].state = "done") = (st = "done")
                                 THEN issue[i].approved ELSE st = "done" /\ a = "user"
        BY <2>0, <3>1, <3>2 DEF Stamped, IssueRow
      <4> QED  BY <3>1, <4>1, <4>2 DEF Closed
    <3>3. CASE i # k
      BY <2>0, <3>1, <3>3 DEF Closed
    <3> QED  BY <3>2, <3>3
  <2>3. ASSUME NEW k \in Issue, NEW a \in Writer,
               retitle(k, a) \/ handleDeleteIssue(k, a) \/ handleRestoreIssue(k, a)
        PROVE  Fine(i)
    BY <2>0, <2>3 DEF retitle, handleDeleteIssue, handleRestoreIssue, Closed, IssueRow
  <2>4. ASSUME NEW k \in Issue, handleApproveIssueClose(k) \/ handleRejectIssueClose(k)
        PROVE  Fine(i)
    BY <2>0, <2>4 DEF handleApproveIssueClose, handleRejectIssueClose, Closed, IssueRow
  <2>5. ASSUME NEW k \in Issue, NEW p \in Place, Known(k), ensureIssueChatNode(k, p)
        PROVE  Fine(i)
    BY <2>0, <2>5 DEF ensureIssueChatNode, Closed, IssueRow
  <2>6. CASE issue' = issue
    BY <2>6 DEF Closed
  <2> QED
    BY <1>1, <2>1, <2>2, <2>3, <2>4, <2>5, <2>6
    DEF INext, ivars, handleSubmitIssueChat, submitRefused, postRefused, handlePostIssueChat,
        handlePostToNode, handleSubmitAnswer, handleDeleteNode, handleUpdateNode,
        handlePollMessages, submitTimeout, handleUnlinkIssueMessage, handleLinkIssueMessage,
        drainNotes
<1>2. IInv /\ [INext]_ivars => \A i \in Issue : Fine(i)
  BY <1>1
<1> QED  BY <1>2, InitIInv, NextIInv, PTL DEF ISpec, SignOffIsTheUsers

-----------------------------------------------------------------------------
(* The launch of the broker *)

\* Who is between the lock and the end of its launch has the lock, as long as no
\* lock was ever removed from under its holder.
LockHeld ==
  ~stolen => \A l \in Launcher :
               /\ at[l] # "retrying"
               /\ at[l] \in {"holding", "watching"} => lock.by = l

LaunchInv == LTypeOK /\ LockHeld

\* What the two records may be.
LockRow == [by : Launcher \cup {Nobody, Dead}, stale : BOOLEAN]
FileRow == [by : Supervisor \cup {Nobody, Dead}, written : BOOLEAN, fresh : BOOLEAN]

USE DEF BrokerState, LauncherState, SupervisorState, Acquiring, Running

LEMMA InitLaunchInv == LInit => LaunchInv
<1> SUFFICES ASSUME LInit PROVE LaunchInv
  OBVIOUS
<1>1. LTypeOK
  <2>1. /\ broker \in [Broker -> BrokerState] /\ at \in [Launcher -> LauncherState]
        /\ lock \in LockRow
    BY DEF LInit, NoLock, LockRow
  <2>2. /\ sup \in [Supervisor -> SupervisorState] /\ file \in FileRow
        /\ child \in [Supervisor -> Broker \cup {NoBroker}]
        /\ \A v \in Supervisor : child[v] = NoBroker
    BY DEF LInit, NoFile, FileRow
  <2>3. /\ mutex \in Supervisor \cup {Nobody, Dead}
        /\ \A v \in Supervisor :
             mutex # v /\ sup[v] \notin {"takeover", "removing", "removed", "recreated"}
    BY LaunchNamesAssumption DEF LInit
  <2>4. /\ stopfile \in BOOLEAN /\ stolen \in BOOLEAN
        /\ faults \in 0..MaxFaults
    <3>1. stopfile = FALSE /\ stolen = FALSE /\ faults = 0
      BY DEF LInit
    <3>2. stopfile \in BOOLEAN /\ stolen \in BOOLEAN
      BY <3>1
    <3>3. faults \in 0..MaxFaults
      BY <3>1, MaxFaultsAssumption
    <3> QED  BY <3>2, <3>3
  <2>5. \A v \in Supervisor : child[v] # NoBroker => sup[v] \in {"child", "stopping"}
    BY <2>2
  <2>6. \A v \in Supervisor :
          mutex = v <=> sup[v] \in {"takeover", "removing", "removed", "recreated"}
    BY <2>3
  <2> HIDE DEF BrokerState, LauncherState, SupervisorState
  <2> QED  BY <2>1, <2>2, <2>3, <2>4, <2>5, <2>6 DEF LTypeOK, LockRow, FileRow
<1>2. LockHeld
  BY DEF LInit, LockHeld
<1> QED  BY <1>1, <1>2 DEF LaunchInv

-----------------------------------------------------------------------------
(* Types. *)

\* A step of the launchers leaves the supervisors alone.
LEMMA LauncherTypes ==
  ASSUME LTypeOK, NEW l \in Launcher,
         isBrokerAlive(l) \/ LauncherStep(l) \/ restartKill(l) \/ launcherCrash(l)
  PROVE  LTypeOK'
<1> USE LaunchNamesAssumption, MaxFaultsAssumption
    DEF LTypeOK, supervising, Goes, Take, NoLock, Spawned, Fault
<1>0. NoLock \in LockRow /\ [by |-> l, stale |-> FALSE] \in LockRow
  BY DEF LockRow
<1>1. CASE isBrokerAlive(l)      BY <1>1 DEF isBrokerAlive
<1>2. CASE checkSupervisor(l)    BY <1>2 DEF checkSupervisor
<1>3. CASE tryAcquireLock(l)
  <2>1. lock' \in LockRow
    BY <1>0, <1>3 DEF tryAcquireLock, LockRow
  <2>2. at' \in [Launcher -> LauncherState]
    BY <1>3 DEF tryAcquireLock
  <2> QED  BY <1>3, <2>1, <2>2 DEF tryAcquireLock, LockRow
<1>4. CASE spawnBroker(l)        BY <1>4 DEF spawnBroker
<1>5. CASE releaseLock(l)        BY <1>5 DEF releaseLock
<1>6. CASE waited(l)             BY <1>6 DEF waited
<1>7. CASE stealLock(l)          BY <1>7 DEF stealLock
<1>8. CASE retryLock(l)
  <2>1. lock' \in LockRow
    BY <1>0, <1>8 DEF retryLock, LockRow
  <2>2. at' \in [Launcher -> LauncherState]
    BY <1>8 DEF retryLock
  <2> QED  BY <1>8, <2>1, <2>2 DEF retryLock, LockRow
<1>9. CASE restartSpawn(l)       BY <1>9 DEF restartSpawn
<1>10. CASE restartKill(l)       BY <1>10 DEF restartKill
<1>11. CASE launcherCrash(l)     BY <1>11 DEF launcherCrash
<1> QED  BY <1>1, <1>2, <1>3, <1>4, <1>5, <1>6, <1>7, <1>8, <1>9, <1>10, <1>11
            DEF LauncherStep

\* The acquisition of the pidfile: the mutex is with who is past its entrance.
LEMMA AcquiringTypes ==
  ASSUME LTypeOK, NEW v \in Supervisor,
         startSupervisor(v) \/ writePid(v) \/ enterTakeover(v) \/ judgeFile(v)
           \/ removeFile(v) \/ recreateFile(v)
  PROVE  LTypeOK'
<1> USE LaunchNamesAssumption, MaxFaultsAssumption
    DEF LTypeOK, launching, Moves, NoFile, FileOf, Fault, createFile
<1>0. FileOf(v, TRUE) \in FileRow /\ FileOf(v, FALSE) \in FileRow
  BY DEF FileRow
<1>1. CASE startSupervisor(v)
  <2>1. file' \in FileRow
    BY <1>0, <1>1 DEF startSupervisor, FileRow
  <2>2. sup' \in [Supervisor -> SupervisorState] /\ mutex' = mutex /\ child' = child
    BY <1>1 DEF startSupervisor
  <2>3. /\ sup[v] = "off"
        /\ sup'[v] \in {"loop", "created", "contending"}
        /\ \A w \in Supervisor \ {v} : sup'[w] = sup[w]
    BY <1>1 DEF startSupervisor
  <2>4. stopfile' \in BOOLEAN /\ faults' \in 0..MaxFaults
    <3>1. stopfile' = FALSE \/ stopfile' = stopfile
      BY <1>1 DEF startSupervisor
    <3>2. faults' \in 0..MaxFaults
      BY <1>1 DEF startSupervisor
    <3> QED  BY <3>1, <3>2
  <2>5. \A w \in Supervisor :
          mutex' = w <=> sup'[w] \in {"takeover", "removing", "removed", "recreated"}
    BY <2>2, <2>3
  <2>6. \A w \in Supervisor : child'[w] # NoBroker => sup'[w] \in {"child", "stopping"}
    BY <2>2, <2>3
  <2>7. UNCHANGED <<broker, at, lock, stolen>>
    BY <1>1 DEF startSupervisor
  <2> QED  BY <2>1, <2>2, <2>4, <2>5, <2>6, <2>7 DEF FileRow
<1>2. CASE writePid(v)           BY <1>2 DEF writePid
<1>3. CASE enterTakeover(v)      BY <1>3 DEF enterTakeover
<1>4. CASE judgeFile(v)          BY <1>4 DEF judgeFile
<1>5. CASE removeFile(v)         BY <1>5 DEF removeFile
<1>6. CASE recreateFile(v)
  <2>1. file' \in FileRow
    BY <1>0, <1>6 DEF recreateFile, FileRow
  <2>2. /\ sup' \in [Supervisor -> SupervisorState] /\ child' = child
        /\ sup[v] = "removed" /\ mutex = v
        /\ \A w \in Supervisor \ {v} : sup'[w] = sup[w]
    BY <1>6 DEF recreateFile
  <2>3. \/ sup'[v] \in {"loop", "off"} /\ mutex' = Nobody
        \/ sup'[v] = "recreated" /\ mutex' = v
    BY <1>6, <2>2 DEF recreateFile
  <2>4. stopfile' \in BOOLEAN /\ faults' \in 0..MaxFaults
    <3>1. stopfile' = FALSE \/ stopfile' = stopfile
      BY <1>6 DEF recreateFile
    <3>2. faults' \in 0..MaxFaults
      BY <1>6 DEF recreateFile
    <3> QED  BY <3>1, <3>2
  <2>5. \A w \in Supervisor :
          mutex' = w <=> sup'[w] \in {"takeover", "removing", "removed", "recreated"}
    BY <2>2, <2>3
  <2>6. \A w \in Supervisor : child'[w] # NoBroker => sup'[w] \in {"child", "stopping"}
    BY <2>2, <2>3
  <2>7. UNCHANGED <<broker, at, lock, stolen>>
    BY <1>6 DEF recreateFile
  <2> QED  BY <2>1, <2>2, <2>3, <2>4, <2>5, <2>6, <2>7 DEF FileRow
<1> QED  BY <1>1, <1>2, <1>3, <1>4, <1>5, <1>6

\* The loop of a supervisor, and its end.
LEMMA RunningTypes ==
  ASSUME LTypeOK, NEW v \in Supervisor,
         heartbeat(v) \/ checkHealth(v) \/ spawnChild(v) \/ childExit(v)
           \/ seeStopfile(v) \/ stopChild(v) \/ releaseSupervisorLock(v)
           \/ supervisorCrash(v)
  PROVE  LTypeOK'
<1> USE LaunchNamesAssumption, MaxFaultsAssumption
    DEF LTypeOK, launching, Moves, NoFile, Fault, Spawned
<1>1. CASE heartbeat(v)
  <2>1. file' \in FileRow
    BY <1>1 DEF heartbeat, FileRow
  <2>2. /\ sup' \in [Supervisor -> SupervisorState]
        /\ sup' # sup => sup[v] \in Running /\ sup'[v] = "stopping"
        /\ \A w \in Supervisor \ {v} : sup'[w] = sup[w]
    BY <1>1 DEF heartbeat
  <2> QED  BY <1>1, <2>1, <2>2 DEF heartbeat, FileRow
<1>2. CASE checkHealth(v)             BY <1>2 DEF checkHealth
<1>3. CASE spawnChild(v)              BY <1>3 DEF spawnChild
<1>4. CASE childExit(v)               BY <1>4 DEF childExit
<1>5. CASE seeStopfile(v)             BY <1>5 DEF seeStopfile
<1>6. CASE stopChild(v)               BY <1>6 DEF stopChild
<1>7. CASE releaseSupervisorLock(v)   BY <1>7 DEF releaseSupervisorLock
<1>8. CASE supervisorCrash(v)         BY <1>8 DEF supervisorCrash
<1> QED  BY <1>1, <1>2, <1>3, <1>4, <1>5, <1>6, <1>7, <1>8

\* The broker processes, the age of the lock, the operator and the machine.
LEMMA OtherTypes ==
  ASSUME LTypeOK,
         \/ \E b \in Broker : (BrokerStep(b) \/ brokerCrash(b)) /\ UNCHANGED stolen
         \/ lockAges \/ requestSupervisorStop \/ machineSleeps
         \/ UNCHANGED lvars
  PROVE  LTypeOK'
<1> USE LaunchNamesAssumption, MaxFaultsAssumption
    DEF LTypeOK, launching, supervising, Fault
<1>1. ASSUME NEW b \in Broker, BrokerStep(b) \/ brokerCrash(b), UNCHANGED stolen
      PROVE  LTypeOK'
  BY <1>1 DEF BrokerStep, guard, bind, brokerCrash
<1>2. CASE lockAges                   BY <1>2 DEF lockAges
<1>3. CASE requestSupervisorStop      BY <1>3 DEF requestSupervisorStop
<1>4. CASE machineSleeps
  <2>1. lock' \in LockRow
    <3>1. (lock.by # Nobody) \in BOOLEAN
      OBVIOUS
    <3> QED  BY <1>4, <3>1 DEF machineSleeps, LockRow
  <2>2. file' \in FileRow
    BY <1>4 DEF machineSleeps, FileRow
  <2> QED  BY <1>4, <2>1, <2>2 DEF machineSleeps, LockRow, FileRow
<1>5. CASE UNCHANGED lvars            BY <1>5 DEF lvars
<1> QED  BY <1>1, <1>2, <1>3, <1>4, <1>5

-----------------------------------------------------------------------------
(* The lock. *)

\* Whoever takes the lock finds it free, so that nobody was launching; whoever
\* removes it held it, unless it steals, which is remembered.
LEMMA LauncherLock ==
  ASSUME LaunchInv, NEW l \in Launcher,
         isBrokerAlive(l) \/ LauncherStep(l) \/ restartKill(l) \/ launcherCrash(l)
  PROVE  LockHeld'
<1> USE LaunchNamesAssumption DEF LaunchInv, LTypeOK, LockHeld, Goes, Take, NoLock
<1>1. CASE isBrokerAlive(l)      BY <1>1 DEF isBrokerAlive
<1>2. CASE checkSupervisor(l)    BY <1>2 DEF checkSupervisor
<1>3. CASE tryAcquireLock(l)     BY <1>3 DEF tryAcquireLock
<1>4. CASE spawnBroker(l)        BY <1>4 DEF spawnBroker
<1>5. CASE releaseLock(l)        BY <1>5 DEF releaseLock
<1>6. CASE waited(l)             BY <1>6 DEF waited
<1>7. CASE stealLock(l)          BY <1>7 DEF stealLock
<1>8. CASE retryLock(l)          BY <1>8 DEF retryLock
<1>9. CASE restartSpawn(l)       BY <1>9 DEF restartSpawn
<1>10. CASE restartKill(l)       BY <1>10 DEF restartKill
<1>11. CASE launcherCrash(l)     BY <1>11 DEF launcherCrash
<1> QED  BY <1>1, <1>2, <1>3, <1>4, <1>5, <1>6, <1>7, <1>8, <1>9, <1>10, <1>11
            DEF LauncherStep

\* Nobody else touches where a launcher is, or whose the lock is.
LEMMA OtherLock ==
  ASSUME LaunchInv, UNCHANGED <<at, stolen>>, lock'.by = lock.by
  PROVE  LockHeld'
BY DEF LaunchInv, LockHeld

LEMMA NextLaunchInv == LaunchInv /\ [LNext]_lvars => LaunchInv'
<1> SUFFICES ASSUME LaunchInv, [LNext]_lvars PROVE LaunchInv'
  OBVIOUS
<1> USE DEF LaunchInv
<1>1. ASSUME NEW l \in Launcher,
             isBrokerAlive(l) \/ LauncherStep(l) \/ restartKill(l) \/ launcherCrash(l)
      PROVE  LaunchInv'
  BY <1>1, LauncherTypes, LauncherLock
<1>2. ASSUME NEW v \in Supervisor,
             startSupervisor(v) \/ SupervisorStep(v) \/ heartbeat(v) \/ seeStopfile(v)
               \/ supervisorCrash(v)
      PROVE  LaunchInv'
  <2>1. LTypeOK'
    BY <1>2, AcquiringTypes, RunningTypes DEF SupervisorStep
  <2>2. UNCHANGED launching
    BY <1>2 DEF SupervisorStep, startSupervisor, writePid, enterTakeover, judgeFile,
       removeFile, recreateFile, heartbeat, checkHealth, spawnChild, childExit,
       seeStopfile, stopChild, releaseSupervisorLock, supervisorCrash
  <2> QED  BY <2>1, <2>2, OtherLock DEF launching
<1>3. CASE \/ \E b \in Broker : (BrokerStep(b) \/ brokerCrash(b)) /\ UNCHANGED stolen
           \/ lockAges \/ requestSupervisorStop \/ machineSleeps
           \/ UNCHANGED lvars
  <2>1. LTypeOK'
    BY <1>3, OtherTypes
  <2>2. UNCHANGED <<at, stolen>> /\ lock'.by = lock.by
    BY <1>3 DEF BrokerStep, guard, bind, brokerCrash, lockAges, requestSupervisorStop,
       machineSleeps, launching, lvars, LTypeOK
  <2> QED  BY <2>1, <2>2, OtherLock
<1> QED  BY <1>1, <1>2, <1>3 DEF LNext

\* The holder of the lock is one.
LEMMA OneHolder == LaunchInv => OneLauncher
<1> SUFFICES ASSUME LaunchInv, ~stolen
             PROVE  Cardinality({l \in Launcher : at[l] \in {"holding", "watching"}}) =< 1
  BY DEF OneLauncher
<1> DEFINE Busy == {l \in Launcher : at[l] \in {"holding", "watching"}}
<1>1. Busy \subseteq {lock.by}
  BY DEF LaunchInv, LockHeld
<1>2. IsFiniteSet({lock.by}) /\ Cardinality({lock.by}) = 1
  BY FS_Singleton
<1>3. Cardinality(Busy) =< Cardinality({lock.by})
  BY <1>1, <1>2, FS_Subset
<1> QED  BY <1>2, <1>3

-----------------------------------------------------------------------------
LEMMA LaunchInvariant == LSpec => []LaunchInv
<1> QED  BY InitLaunchInv, NextLaunchInv, PTL DEF LSpec

\* The files and processes are what they are taken for, whatever crashes, sleeps
\* or is stopped: the mutex of the takeover is with exactly one supervisor that is
\* past its entrance, and a supervisor waits for a broker only while it runs one.
THEOREM LTypeCorrect == LSpec => []LTypeOK
<1>1. LaunchInv => LTypeOK
  BY DEF LaunchInv
<1> QED  BY <1>1, LaunchInvariant, PTL

\* For any number of launchers, of any kind, and any faults: until a lock is taken
\* for abandoned, one launcher at a time starts a broker (tryAcquireLock,
\* ensureBroker).
THEOREM LaunchesOneByOne == LSpec => []OneLauncher
<1> QED  BY OneHolder, LaunchInvariant, PTL
=============================================================================
