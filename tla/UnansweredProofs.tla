--------------------------- MODULE UnansweredProofs ---------------------------
(***************************************************************************)
(* The nag of the Stop hook, for any number of sessions, places and        *)
(* submissions, and any cap.                                               *)
(***************************************************************************)
EXTENDS Unanswered, SessionsProofs

\* What the nag remembers is part of what is flagged still, since every removal
\* of a flag forgets it; and after news it is not all of it, or it is nothing.
Remembers(s) ==
  /\ nag[s].sig \subseteq Flagged(s)
  /\ s \in news => nag[s].sig = {} \/ nag[s].sig # Flagged(s)

UInv == UTypeOK /\ \A s \in Session : Remembers(s)

\* Nothing is flagged, and nothing remembered, at first.
LEMMA InitUInv == UInit => UInv
<1> SUFFICES ASSUME UInit PROVE UInv
  OBVIOUS
<1>1. UTypeOK
  BY InitTypeOK, MaxNagAssumption DEF UInit, UTypeOK, Nag, NoNag
<1>2. \A s \in Session : Remembers(s)
  BY DEF UInit, Remembers, NoNag
<1> QED  BY <1>1, <1>2 DEF UInv

\* What UNext does to the registry, the registry does on its own.
LEMMA UnansweredRegistryStep == [UNext]_vars => [Next]_svars
  BY DEF UNext, vars, handleSubmitAnswer, drain, submitDelivered, submitTimeout,
         handleNotifySession, handlePostToNode, handleResetUnansweredPosts,
         handleGetUnansweredPosts

\* Raising a flag is news, unless it was up already.
LEMMA FlagInv ==
  ASSUME UInv, NEW r \in Session, NEW b \in Board, flag(r, b), nag' = nag,
         NEW s \in Session
  PROVE  Remembers(s)'
<1>1. Remembers(s) /\ flags \subseteq Session \X Board /\ news \subseteq Session
  BY DEF UInv, UTypeOK
<1>2. Flagged(s)' = IF s = r THEN Flagged(s) \cup {b} ELSE Flagged(s)
  BY DEF flag, Flagged
<1>3. CASE s = r /\ b \notin Flagged(r)
  BY <1>1, <1>2, <1>3 DEF Remembers
<1>4. CASE s # r \/ b \in Flagged(r)
  <2>1. Flagged(s)' = Flagged(s)
    BY <1>2, <1>4
  <2>2. s \in news' => s \in news
    BY <1>4 DEF flag, Flagged
  <2> QED  BY <1>1, <2>1, <2>2 DEF Remembers
<1> QED  BY <1>3, <1>4

\* Raising a flag is well typed.
LEMMA FlagType ==
  ASSUME UTypeOK, NEW r \in Session, NEW b \in Board, flag(r, b)
  PROVE  flags' \subseteq Session \X Board /\ news' \subseteq Session
BY DEF UTypeOK, flag

\* Every step keeps the tables well typed and the nag's memory in order.
LEMMA NextUInv == UInv /\ [UNext]_vars => UInv'
<1> SUFFICES ASSUME UInv, [UNext]_vars PROVE UInv'
  OBVIOUS
<1> USE DEF UInv
<1>0. TypeOK' /\ TypeOK
  BY UnansweredRegistryStep, NextTypeOK DEF UTypeOK
<1>00. /\ NoNag \in Nag /\ NoNag.sig = {}
       /\ nag \in [Session -> Nag]
  BY MaxNagAssumption DEF NoNag, Nag, UTypeOK
<1>1. ASSUME NEW b \in Board, handleSubmitAnswer(b) PROVE UInv'
  <2>1. owner[b] \in Session
    BY <1>0, <1>1 DEF handleSubmitAnswer, Reachable, TypeOK
  <2> DEFINE a == [sid |-> owner[b], board |-> b, drained |-> FALSE]
  <2>2. asked' \subseteq Submission
    <3>1. a \in Submission
      BY <2>1 DEF Submission
    <3>2. asked' = asked \cup {a}
      BY <1>1 DEF handleSubmitAnswer
    <3> QED  BY <3>1, <3>2 DEF UTypeOK
  <2> QED  BY <1>0, <1>1, <2>2 DEF handleSubmitAnswer, UTypeOK, Remembers, Flagged
<1>2. ASSUME NEW s \in Session, drain(s) PROVE UInv'
  <2>1. asked' \subseteq Submission
    BY <1>2 DEF drain, UTypeOK, Submission
  <2> QED  BY <1>0, <1>2, <2>1 DEF drain, UTypeOK, Remembers, Flagged
<1>3. ASSUME NEW a \in asked, submitDelivered(a) PROVE UInv'
  <2>1. a.sid \in Session /\ a.board \in Board
    BY DEF UTypeOK, Submission
  <2>2. UTypeOK'
    BY <1>0, <1>3, <2>1, FlagType DEF submitDelivered, UTypeOK
  <2> QED  BY <1>3, <2>1, <2>2, FlagInv DEF submitDelivered
<1>4. ASSUME NEW a \in asked, submitTimeout(a) PROVE UInv'
  BY <1>0, <1>4 DEF submitTimeout, UTypeOK, Remembers, Flagged
<1>5. ASSUME NEW b \in Board, handleNotifySession(b) PROVE UInv'
  <2>1. owner[b] \in Session
    BY <1>0, <1>5 DEF handleNotifySession, Reachable, TypeOK
  <2>2. UTypeOK'
    BY <1>0, <1>5, <2>1, FlagType DEF handleNotifySession, UTypeOK
  <2> QED  BY <1>5, <2>1, <2>2, FlagInv DEF handleNotifySession
<1>6. ASSUME NEW r \in Session, NEW b \in Board, handlePostToNode(r, b)
      PROVE  UInv'
  <2>1. owner[b] \in Session
    BY <1>0, <1>6 DEF handlePostToNode, TypeOK
  <2>2. /\ flags' = flags \ {<<owner[b], b>>}
        /\ nag' = [nag EXCEPT ![owner[b]] = NoNag]
        /\ news' = news \cup {owner[b]}
    BY <1>6 DEF handlePostToNode, unflag
  <2>3. UTypeOK'
    BY <1>0, <1>00, <1>6, <2>1, <2>2 DEF handlePostToNode, UTypeOK
  <2>4. ASSUME NEW s \in Session PROVE Remembers(s)'
    <3>1. CASE s = owner[b]
      BY <1>00, <2>1, <2>2, <3>1 DEF Remembers
    <3>2. CASE s # owner[b]
      <4>1. Flagged(s)' = Flagged(s) /\ nag'[s] = nag[s] /\ (s \in news' => s \in news)
        BY <1>00, <2>1, <2>2, <3>2 DEF Flagged
      <4> QED  BY <4>1 DEF Remembers
    <3> QED  BY <3>1, <3>2
  <2> QED  BY <2>3, <2>4
<1>7. ASSUME NEW r \in Session, handleResetUnansweredPosts(r) PROVE UInv'
  <2>1. /\ flags' = {f \in flags : f[1] # r}
        /\ nag' = [nag EXCEPT ![r] = NoNag]
        /\ news' = news \cup {r}
    BY <1>7 DEF handleResetUnansweredPosts
  <2>2. UTypeOK'
    BY <1>0, <1>00, <1>7, <2>1 DEF handleResetUnansweredPosts, UTypeOK
  <2>3. ASSUME NEW s \in Session PROVE Remembers(s)'
    <3>1. CASE s = r
      BY <1>00, <2>1, <3>1 DEF Remembers
    <3>2. CASE s # r
      <4>1. Flagged(s)' = Flagged(s) /\ nag'[s] = nag[s] /\ (s \in news' => s \in news)
        BY <1>00, <2>1, <3>2 DEF Flagged
      <4> QED  BY <4>1 DEF Remembers
    <3> QED  BY <3>1, <3>2
  <2> QED  BY <2>2, <2>3
<1>8. ASSUME NEW r \in Session, NEW c \in CC, handleGetUnansweredPosts(r, c)
      PROVE  UInv'
  <2>1. NextStreak(r) \in Nat /\ (Blocks(r) => NextStreak(r) \in 0 .. MaxNag + 1)
    BY <1>00, MaxNagAssumption DEF NextStreak, Blocks, Nag
  <2>2. Flagged(r) \subseteq Board
    BY DEF Flagged
  <2> DEFINE after == IF Flagged(r) = {} THEN NoNag
                      ELSE [streak |-> IF Blocks(r) THEN NextStreak(r) ELSE MaxNag + 1,
                            sig |-> Flagged(r)]
  <2>3. after \in Nag /\ after.sig \subseteq Flagged(r)
    BY <1>00, <2>1, <2>2, MaxNagAssumption DEF Nag
  <2>4. /\ nag' = [nag EXCEPT ![r] = after] /\ news' = news \ {r}
        /\ UNCHANGED <<svars, asked, flags>>
    BY <1>8 DEF handleGetUnansweredPosts
  <2> HIDE DEF after
  <2>5. UTypeOK'
    BY <1>0, <1>00, <2>3, <2>4 DEF UTypeOK
  <2>6. ASSUME NEW s \in Session PROVE Remembers(s)'
    <3>1. CASE s = r
      BY <1>00, <2>3, <2>4, <3>1 DEF Remembers, Flagged
    <3>2. CASE s # r
      BY <1>00, <2>4, <3>2 DEF Remembers, Flagged
    <3> QED  BY <3>1, <3>2
  <2> QED  BY <2>5, <2>6
<1>9. CASE UNCHANGED uvars
  BY <1>0, <1>9 DEF uvars, UTypeOK, Remembers, Flagged
<1> QED
  BY <1>1, <1>2, <1>3, <1>4, <1>5, <1>6, <1>7, <1>8, <1>9 DEF UNext, vars

\* The tables of the nag are well typed in every reachable state.
THEOREM UTypeCorrect == USpec => []UTypeOK
<1>1. UInv => UTypeOK
  BY DEF UInv
<1> QED  BY <1>1, InitUInv, NextUInv, PTL DEF USpec

\* The first Stop after a place was newly flagged or after a reply insists: the
\* cap is never spent on what Claude Code has not been told yet.
THEOREM NewsAlwaysBlocks == USpec => []NewsBlocks
<1>1. UInv => NewsBlocks
  <2> SUFFICES ASSUME UInv, NEW s \in news, Flagged(s) # {} PROVE Blocks(s)
    BY DEF NewsBlocks
  <2>1. s \in Session /\ Remembers(s)
    BY DEF UInv, UTypeOK
  <2>2. NextStreak(s) = 1
    BY <2>1 DEF Remembers, NextStreak
  <2> QED  BY <2>2, MaxNagAssumption DEF Blocks
<1> QED  BY <1>1, InitUInv, NextUInv, PTL DEF USpec
=============================================================================
