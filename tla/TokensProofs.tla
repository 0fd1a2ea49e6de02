----------------------------- MODULE TokensProofs -----------------------------
(***************************************************************************)
(* Proofs about Tokens, for any people, nicknames and number of handlers:  *)
(* a nickname has one owner, a token yields a second pair only if two      *)
(* refreshes overlapped or a DEL failed, a token that was deleted yields   *)
(* nothing, and nobody is logged out by accident.                          *)
(***************************************************************************)
EXTENDS Tokens, TLAPS

\* Tokens that handlers hold were given to a client.
HoldsToken(c) == c.pc \in {"parsed", "rotate", "revoke"}

\* Handlers that hold a pair of their own, which nobody has received yet.
HoldsPair(c) == c.pc \in {"rotate", "list"}

InHand ==
  /\ \A r \in Requests : HoldsToken(call[r]) => call[r].token \in given
  /\ \A r \in Requests : HoldsPair(call[r]) => call[r].pair \notin given
  /\ \A r, s \in Requests :
       r # s /\ HoldsPair(call[r]) /\ HoldsPair(call[s]) => call[r].pair # call[s].pair

\* What is refreshed or deleted was given.
OnlyGiven ==
  /\ \A p \in Pairs : parent[p] # FromLogin => parent[p] \in given
  /\ spent \subseteq given

NeverRelisted == whitelist \cap spent = {}

Rotating(t) == \E r \in Requests : call[r].pc = "rotate" /\ call[r].token = t

\* A token that has yielded a pair is about to be deleted, or was, unless the
\* DEL failed.
Settled ==
  \A p \in Pairs : parent[p] \in whitelist => Rotating(parent[p]) \/ parent[p] \in kept

Inv == TypeOK /\ OneOwner /\ InHand /\ OnlyGiven /\ NeverRelisted /\ Settled /\ OneSuccessor

-----------------------------------------------------------------------------
\* One more pair leaves the others as they are.
LEMMA OneMorePair ==
  ASSUME TypeOK, NEW t \in 0 .. Len(parent), Len(parent) < MaxPairs,
         parent' = Append(parent, t)
  PROVE  /\ parent' \in Seq(0 .. MaxPairs)
         /\ Pairs' = Pairs \cup {Len(parent) + 1} /\ Len(parent) + 1 \notin Pairs
         /\ Len(parent) + 1 \in Nat \ {0}
         /\ \A p \in Pairs : parent'[p] = parent[p]
         /\ parent'[Len(parent) + 1] = t
  BY TokensAssumption DEF TypeOK, Pairs

\* A handler's state is the one it goes to, and the others stay.
LEMMA OthersStay ==
  ASSUME TypeOK, NEW r \in Requests, NEW c, Goes(r, c)
  PROVE  call'[r] = c /\ \A s \in Requests \ {r} : call'[s] = call[s]
  BY DEF TypeOK, Goes

-----------------------------------------------------------------------------
\* Type correctness, one step per action.
LEMMA TypeInit == Init => TypeOK
  BY TokensAssumption DEF Init, TypeOK, Calls, Idle, Pairs

\* A pair is signed for a token or a login.
LEMMA IssueType ==
  ASSUME TypeOK, NEW r \in Requests, NEW t \in 0 .. Len(parent), NEW c,
         IssuePair(r, t, c), UNCHANGED <<accounts, redis, expired, given>>,
         overlapped' \subseteq overlapped \cup Pairs,
         \/ c = [pc |-> "list", pair |-> 0]
         \/ t \in Pairs /\ c = [pc |-> "rotate", token |-> t, pair |-> 0]
  PROVE  TypeOK'
<1>1. /\ parent' \in Seq(0 .. MaxPairs)
      /\ Pairs' = Pairs \cup {Len(parent) + 1} /\ Len(parent) + 1 \notin Pairs
      /\ Len(parent) + 1 \in Nat \ {0}
      /\ \A p \in Pairs : parent'[p] = parent[p]
      /\ parent'[Len(parent) + 1] = t
  BY OneMorePair DEF IssuePair
<1>2. \A p \in Pairs' : parent'[p] < p
  BY <1>1 DEF TypeOK, Pairs
<1>3. [c EXCEPT !.pair = Len(parent) + 1] \in Calls'
  BY <1>1 DEF Calls
<1>4. Calls \subseteq Calls'
  BY <1>1 DEF Calls
<1>5. call' \in [Requests -> Calls']
  BY <1>3, <1>4 DEF IssuePair, Goes, TypeOK
<1>6. UNION {expired, whitelist, given, spent, kept, unlisted, overlapped}' \subseteq Pairs'
  BY <1>1 DEF TypeOK, redis
<1> QED  BY <1>1, <1>2, <1>5, <1>6 DEF TypeOK, accounts

LEMMA TypeStep == TypeOK /\ [Next]_vars => TypeOK'
<1> SUFFICES ASSUME TypeOK, [Next]_vars PROVE TypeOK'
  OBVIOUS
<1>1. ASSUME NEW r \in Requests, Login(r) PROVE TypeOK'
  <2>1. CASE IssuePair(r, FromLogin, [pc |-> "list", pair |-> 0])
    <3>1. FromLogin \in 0 .. Len(parent)
      BY DEF FromLogin, TypeOK
    <3> QED  BY <1>1, <2>1, <3>1, IssueType DEF Login
  <2>2. CASE UNCHANGED <<parent, call>>
    BY <1>1, <2>2 DEF Login, TypeOK, Pairs, Calls, accounts, redis
  <2> QED  BY <1>1, <2>1, <2>2 DEF Login
<1>2. ASSUME NEW r \in Requests, WhitelistUID(r) PROVE TypeOK'
  <2> DEFINE t == call[r].token
  <2>1. CASE /\ t \in whitelist
             /\ IssuePair(r, t, [pc |-> "rotate", token |-> t, pair |-> 0])
             /\ \/ overlapped' = overlapped
                \/ overlapped' = overlapped \cup {t}
    <3>1. t \in Pairs /\ t \in 0 .. Len(parent)
      BY <2>1 DEF TypeOK, Pairs
    <3>2. UNCHANGED <<accounts, redis, expired, given>>
      BY <1>2 DEF WhitelistUID
    <3>3. overlapped' \subseteq overlapped \cup Pairs
      BY <2>1, <3>1
    <3> HIDE DEF t
    <3> QED  BY <2>1, <3>1, <3>2, <3>3, IssueType
  <2>2. CASE Goes(r, Idle) /\ UNCHANGED <<parent, overlapped>>
    BY <1>2, <2>2 DEF WhitelistUID, Goes, TypeOK, Pairs, Calls, Idle, accounts, redis
  <2> QED  BY <1>2, <2>1, <2>2 DEF WhitelistUID
<1>3. ASSUME NEW r \in Requests,
             \/ CheckNickname(r) \/ InsertUser(r) \/ Refresh(r) \/ Logout(r) \/ Die(r)
      PROVE TypeOK'
  <2>1. Pairs' = Pairs /\ Calls' = Calls
    BY <1>3 DEF CheckNickname, InsertUser, Refresh, Logout, Die, signed, Pairs, Calls
  <2>2. ASSUME CheckNickname(r) PROVE TypeOK'
    BY <2>1, <2>2 DEF CheckNickname, TypeOK, Goes, Calls, Idle, accounts, redis, signed
  <2>3. ASSUME InsertUser(r) PROVE TypeOK'
    <3>1. call[r] \in Calls /\ call[r].pc = "insert" => call[r].row \in Nicknames \X People
      BY DEF Calls, Idle
    <3> QED  BY <2>1, <2>3, <3>1 DEF InsertUser, TypeOK, Goes, Calls, Idle, accounts, redis, signed
  <2>4. ASSUME Refresh(r) \/ Logout(r) PROVE TypeOK'
    BY <2>1, <2>4 DEF Refresh, Logout, TypeOK, Goes, Calls, Idle, accounts, redis, signed
  <2>5. ASSUME Die(r) PROVE TypeOK'
    <3>1. call[r] \in Calls /\ call[r].pc = "rotate" => call[r].token \in Pairs
      BY DEF Calls, Idle
    <3> QED  BY <2>1, <2>5, <3>1 DEF Die, TypeOK, Goes, Calls, Idle, accounts, redis, signed
  <2> QED  BY <1>3, <2>2, <2>3, <2>4, <2>5
<1>4. ASSUME NEW r \in Requests, Rotate(r) \/ Revoke(r) \/ RegisterRefresh(r) PROVE TypeOK'
  <2>1. Pairs' = Pairs /\ Calls' = Calls
    BY <1>4 DEF Rotate, Revoke, RegisterRefresh, accounts, signed, Pairs, Calls
  <2>2. /\ call[r].pc \in {"rotate", "revoke"} => call[r].token \in Pairs
        /\ call[r].pc \in {"rotate", "list"} => call[r].pair \in Pairs
    BY DEF TypeOK, Calls, Idle
  <2>3. call' \in [Requests -> Calls]
    BY <1>4, <2>2 DEF Rotate, Revoke, RegisterRefresh, Goes, TypeOK, Calls, Idle
  <2>4. UNION {expired, whitelist, given, spent, kept, unlisted, overlapped}' \subseteq Pairs
    BY <1>4, <2>2 DEF Rotate, Revoke, RevokeRefresh, RegisterRefresh, TypeOK, signed
  <2>5. UNCHANGED <<users, told, parent>>
    BY <1>4 DEF Rotate, Revoke, RegisterRefresh, accounts, signed
  <2> QED  BY <2>1, <2>3, <2>4, <2>5 DEF TypeOK
<1>5. ASSUME ExpireToken \/ ExpireKey \/ UNCHANGED vars PROVE TypeOK'
  <2>1. Pairs' = Pairs /\ Calls' = Calls /\ UNCHANGED <<users, told, parent, call>>
    BY <1>5 DEF ExpireToken, ExpireKey, vars, accounts, redis, signed, Pairs, Calls
  <2>2. UNION {expired, whitelist, given, spent, kept, unlisted, overlapped}' \subseteq Pairs
    BY <1>5 DEF ExpireToken, ExpireKey, vars, accounts, redis, signed, TypeOK
  <2> QED  BY <2>1, <2>2 DEF TypeOK
<1> QED  BY <1>1, <1>2, <1>3, <1>4, <1>5 DEF Next, Handle

-----------------------------------------------------------------------------
\* The other parts of Inv for a step that signs a pair, for a token that is on
\* the white list or for a login.
LEMMA IssueInv ==
  ASSUME Inv, NEW r \in Requests, NEW t \in 0 .. Len(parent), NEW c,
         IssuePair(r, t, c), UNCHANGED <<accounts, redis, expired, given>>,
         call[r].pc \in {"idle", "parsed"},
         \/ /\ c = [pc |-> "list", pair |-> 0] /\ t = FromLogin
            /\ overlapped' = overlapped
         \/ /\ c = [pc |-> "rotate", token |-> t, pair |-> 0]
            /\ t \in whitelist /\ t \in given
            /\ overlapped' = IF {s \in Requests \ {r} : call[s].pc = "rotate" /\ call[s].token = t} = {}
                               THEN overlapped ELSE overlapped \cup {t}
  PROVE  InHand' /\ OnlyGiven' /\ NeverRelisted' /\ Settled' /\ OneSuccessor'
<1> DEFINE new == Len(parent) + 1
<1>1. /\ Pairs' = Pairs \cup {new} /\ new \notin Pairs
      /\ new \in Nat \ {0}
      /\ \A p \in Pairs : parent'[p] = parent[p]
      /\ parent'[new] = t
  BY OneMorePair DEF IssuePair, Inv
<1>2. given \subseteq Pairs /\ whitelist \subseteq Pairs /\ 0 \notin Pairs
  BY DEF Inv, TypeOK, Pairs
<1>3. /\ \A s \in Requests \ {r} : call'[s] = call[s]
      /\ call'[r] = [c EXCEPT !.pair = new]
  BY OthersStay DEF IssuePair, Inv
<1>4. /\ call'[r].pair = new
      /\ \/ call'[r].pc = "list" /\ t = FromLogin
         \/ call'[r].pc = "rotate" /\ call'[r].token = t /\ t \in given /\ t \in whitelist
  BY <1>3
<1>5. UNCHANGED <<whitelist, given, spent, kept>>
  BY DEF redis
<1>6. \A s \in Requests : HoldsPair(call[s]) => call[s].pair \in Pairs
  BY DEF Inv, TypeOK, Calls, HoldsPair, Idle
<1> HIDE DEF new
<1>7. InHand'
  BY <1>1, <1>2, <1>3, <1>4, <1>5, <1>6 DEF Inv, InHand, HoldsToken, HoldsPair
<1>8. OnlyGiven' /\ NeverRelisted'
  BY <1>1, <1>4, <1>5 DEF Inv, OnlyGiven, NeverRelisted
<1>9. \A u : Rotating(u) => Rotating(u)'
  BY <1>3 DEF Rotating
<1>10. t \in whitelist => Rotating(t)'
  BY <1>2, <1>4 DEF Rotating, FromLogin
<1>11. Settled'
  BY <1>1, <1>5, <1>9, <1>10 DEF Inv, Settled
<1>12. OneSuccessor'
  <2> SUFFICES ASSUME NEW u \in Pairs', NEW p \in Pairs', NEW q \in Pairs', p # q,
                      parent'[p] = u, parent'[q] = u
               PROVE  u \in overlapped' \cup kept'
    BY DEF OneSuccessor, Children
  <2>1. overlapped \subseteq overlapped'
    OBVIOUS
  <2>2. CASE p \in Pairs /\ q \in Pairs
    <3>1. u \in Pairs
      BY <1>1, <2>2 DEF Inv, OnlyGiven, TypeOK, Pairs
    <3> QED  BY <1>1, <1>5, <2>1, <2>2, <3>1 DEF Inv, OneSuccessor, Children
  <2>3. CASE u = t /\ \E o \in Pairs : parent[o] = t
    <3>1. u # FromLogin
      BY <1>1, <1>2 DEF FromLogin, Pairs
    <3>2. t \in whitelist
      BY <2>3, <3>1, <1>4
    <3>3. Rotating(t) \/ t \in kept
      BY <2>3, <3>2 DEF Inv, Settled
    <3>4. CASE Rotating(t)
      <4>1. {s \in Requests \ {r} : call[s].pc = "rotate" /\ call[s].token = t} # {}
        BY <3>4 DEF Rotating
      <4> QED  BY <4>1, <2>3, <3>1
    <3> QED  BY <3>3, <3>4, <2>3, <1>5
  <2> QED  BY <1>1, <2>2, <2>3
<1> QED  BY <1>7, <1>8, <1>11, <1>12

\* The other parts of Inv for the handlers' steps that sign nothing.
LEMMA HandlerInv ==
  ASSUME Inv, NEW r \in Requests,
         \/ CheckNickname(r) \/ InsertUser(r) \/ Refresh(r) \/ Rotate(r)
         \/ RegisterRefresh(r) \/ Logout(r) \/ Revoke(r) \/ Die(r)
         \/ Goes(r, Idle) /\ call[r].pc = "parsed" /\ UNCHANGED <<accounts, redis, signed>>
  PROVE  InHand' /\ OnlyGiven' /\ NeverRelisted' /\ Settled' /\ OneSuccessor'
<1> DEFINE p0 == call[r].pair
           t0 == call[r].token
<1>1. parent' = parent /\ Pairs' = Pairs /\ overlapped' = overlapped
  BY DEF CheckNickname, InsertUser, Refresh, Rotate, RegisterRefresh, Logout, Revoke, Die,
         accounts, signed, Pairs
<1>2. \A s \in Requests \ {r} : call'[s] = call[s]
  BY OthersStay DEF Inv, CheckNickname, InsertUser, Refresh, Rotate, RegisterRefresh,
         Logout, Revoke, Die
<1>3. kept \subseteq kept'
  BY DEF CheckNickname, InsertUser, Refresh, Rotate, RegisterRefresh, Logout, Revoke, Die,
         RevokeRefresh, redis
<1>4. OneSuccessor'
  BY <1>1, <1>3 DEF Inv, OneSuccessor, Children
<1>5. CASE RegisterRefresh(r)
  <2>1. call'[r] = Idle
    BY <1>5, OthersStay DEF Inv, RegisterRefresh
  <2>2. /\ p0 \in Pairs \ given /\ p0 # FromLogin
        /\ whitelist' \subseteq whitelist \cup {p0} /\ given \subseteq given'
        /\ given' \subseteq given \cup {p0} /\ spent' = spent
        /\ call[r].pc = "list"
    BY <1>5 DEF Inv, InHand, HoldsPair, RegisterRefresh, TypeOK, Calls, Idle, Pairs, FromLogin
  <2>3. InHand'
    BY <1>2, <2>1, <2>2 DEF Inv, InHand, HoldsToken, HoldsPair, Idle
  <2>4. OnlyGiven' /\ NeverRelisted'
    BY <1>1, <2>2 DEF Inv, OnlyGiven, NeverRelisted
  <2>5. \A u : Rotating(u) => Rotating(u)'
    BY <1>2, <2>2 DEF Rotating
  <2>6. \A p \in Pairs : parent[p] # p0
    BY <2>2 DEF Inv, OnlyGiven
  <2>7. Settled'
    BY <1>1, <1>3, <2>2, <2>5, <2>6 DEF Inv, Settled
  <2> QED  BY <1>4, <2>3, <2>4, <2>7
<1>6. CASE Rotate(r) \/ Revoke(r)
  <2>1. /\ call[r].pc \in {"rotate", "revoke"} /\ t0 \in given /\ given' = given
        /\ \/ whitelist' = whitelist \ {t0} /\ spent' = spent \cup {t0}
           \/ t0 \in kept' /\ whitelist' = whitelist /\ spent' = spent
    BY <1>6 DEF Rotate, Revoke, RevokeRefresh, Inv, InHand, HoldsToken, signed
  <2>2. \/ call'[r] = Idle
        \/ call[r].pc = "rotate" /\ call'[r] = [pc |-> "list", pair |-> p0]
    BY <1>6, OthersStay DEF Inv, Rotate, Revoke
  <2>3. InHand'
    BY <1>2, <2>1, <2>2 DEF Inv, InHand, HoldsToken, HoldsPair, Idle
  <2>4. OnlyGiven' /\ NeverRelisted'
    BY <1>1, <2>1 DEF Inv, OnlyGiven, NeverRelisted
  <2>5. \A u : u # t0 /\ Rotating(u) => Rotating(u)'
    BY <1>2 DEF Rotating
  <2>6. Settled'
    BY <1>1, <1>3, <2>1, <2>5 DEF Inv, Settled
  <2> QED  BY <1>4, <2>3, <2>4, <2>6
<1>7. CASE \/ CheckNickname(r) \/ InsertUser(r) \/ Refresh(r) \/ Logout(r) \/ Die(r)
           \/ Goes(r, Idle) /\ call[r].pc = "parsed" /\ UNCHANGED <<accounts, redis, signed>>
  <2>1. UNCHANGED <<whitelist, given, spent>>
    BY <1>7 DEF CheckNickname, InsertUser, Refresh, Logout, Die, redis, signed
  <2>2. \/ call'[r] = Idle
        \/ call'[r].pc = "insert"
        \/ call'[r].pc \in {"parsed", "revoke"} /\ call'[r].token \in given
    BY <1>7 DEF Inv, TypeOK, Goes, CheckNickname, InsertUser, Refresh, Logout, Die
  <2>3. call[r].pc = "rotate" => t0 \in kept'
    BY <1>7 DEF CheckNickname, InsertUser, Refresh, Logout, Die
  <2>4. InHand'
    BY <1>2, <2>1, <2>2 DEF Inv, InHand, HoldsToken, HoldsPair, Idle
  <2>5. OnlyGiven' /\ NeverRelisted'
    BY <1>1, <2>1 DEF Inv, OnlyGiven, NeverRelisted
  <2>6. \A u : Rotating(u) => Rotating(u)' \/ u \in kept'
    BY <1>2, <2>3 DEF Rotating
  <2>7. Settled'
    BY <1>1, <1>3, <2>1, <2>6 DEF Inv, Settled
  <2> QED  BY <1>4, <2>4, <2>5, <2>7
<1> QED  BY <1>5, <1>6, <1>7

\* The unique key on nickname settles the race of two registrations.
LEMMA OwnerStep == TypeOK /\ OneOwner /\ [Next]_vars => OneOwner'
<1> SUFFICES ASSUME TypeOK, OneOwner, [Next]_vars PROVE OneOwner'
  OBVIOUS
<1>1. ASSUME NEW r \in Requests, InsertUser(r) PROVE OneOwner'
  BY <1>1 DEF InsertUser, OneOwner, Taken, accounts
<1>2. CASE UNCHANGED <<users, told>>
  BY <1>2 DEF OneOwner
<1>3. (\A r \in Requests : ~InsertUser(r)) => UNCHANGED <<users, told>>
  BY DEF Next, Handle, CheckNickname, Login, Refresh, WhitelistUID, Rotate, RegisterRefresh,
         Logout, Revoke, Die, ExpireToken, ExpireKey, vars, accounts
<1> QED  BY <1>1, <1>2, <1>3

LEMMA InvStep == Inv /\ [Next]_vars => Inv'
<1> SUFFICES ASSUME Inv, [Next]_vars PROVE Inv'
  OBVIOUS
<1> DEFINE Rest == InHand /\ OnlyGiven /\ NeverRelisted /\ Settled /\ OneSuccessor
<1>1. TypeOK' /\ OneOwner'
  BY TypeStep, OwnerStep DEF Inv
<1>2. ASSUME NEW r \in Requests, Handle(r) \/ Die(r) PROVE Rest'
  <2>1. CASE Login(r)
    <3>1. CASE IssuePair(r, FromLogin, [pc |-> "list", pair |-> 0])
      <4>1. FromLogin \in 0 .. Len(parent)
        BY DEF FromLogin, Inv, TypeOK
      <4> QED  BY <2>1, <3>1, <4>1, IssueInv DEF Login
    <3>2. CASE UNCHANGED <<parent, call>>
      BY <2>1, <3>2 DEF Login, Inv, InHand, OnlyGiven, NeverRelisted, Settled, Rotating,
                        OneSuccessor, Children, Pairs, redis
    <3> QED  BY <2>1, <3>1, <3>2 DEF Login
  <2>2. CASE WhitelistUID(r)
    <3> DEFINE t == call[r].token
               others == {s \in Requests \ {r} : call[s].pc = "rotate" /\ call[s].token = t}
    <3>1. CASE /\ t \in whitelist
               /\ IssuePair(r, t, [pc |-> "rotate", token |-> t, pair |-> 0])
               /\ overlapped' = IF others = {} THEN overlapped ELSE overlapped \cup {t}
      <4>1. t \in 0 .. Len(parent) /\ t \in given
        BY <2>2, <3>1 DEF WhitelistUID, Inv, InHand, HoldsToken, TypeOK, Pairs
      <4>2. UNCHANGED <<accounts, redis, expired, given>> /\ call[r].pc = "parsed"
        BY <2>2 DEF WhitelistUID
      <4> HIDE DEF t
      <4> QED  BY <3>1, <4>1, <4>2, IssueInv
    <3>2. CASE Goes(r, Idle) /\ UNCHANGED <<parent, overlapped>>
      <4>1. call[r].pc = "parsed" /\ UNCHANGED <<accounts, redis, signed>>
        BY <2>2, <3>2 DEF WhitelistUID, signed
      <4> QED  BY <3>2, <4>1, HandlerInv
    <3> QED  BY <2>2, <3>1, <3>2 DEF WhitelistUID
  <2> QED  BY <1>2, <2>1, <2>2, HandlerInv DEF Handle
<1>3. ASSUME ExpireToken \/ ExpireKey \/ UNCHANGED vars PROVE Rest'
  <2>1. /\ UNCHANGED <<parent, call, given, spent, kept, overlapped>>
        /\ whitelist' \subseteq whitelist
    BY <1>3 DEF ExpireToken, ExpireKey, vars, accounts, redis, signed
  <2> QED  BY <2>1 DEF Inv, InHand, HoldsToken, HoldsPair, OnlyGiven, NeverRelisted, Settled, Rotating,
                       OneSuccessor, Children, Pairs
<1>4. Rest'
  BY <1>2, <1>3 DEF Next
<1> QED  BY <1>1, <1>4 DEF Inv

LEMMA InitInv == Init => Inv
<1> SUFFICES ASSUME Init PROVE Inv
  OBVIOUS
<1>1. OneOwner /\ InHand /\ OnlyGiven /\ NeverRelisted /\ Settled /\ OneSuccessor
  BY DEF Init, OneOwner, InHand, HoldsToken, HoldsPair, OnlyGiven, NeverRelisted, Settled,
         OneSuccessor, Children, Pairs, Idle
<1> QED  BY <1>1, TypeInit DEF Inv

LEMMA InductiveInv == Spec => []Inv
  BY InitInv, InvStep, PTL DEF Spec

-----------------------------------------------------------------------------
\* Type correctness of the handlers of AuthService.
THEOREM TokensType == Spec => []TypeOK
<1>1. Inv => TypeOK
  BY DEF Inv
<1> QED  BY <1>1, InductiveInv, PTL

\* Two registrations of one nickname race between the check and the INSERT; one
\* account comes out of it, and it is the one whose owner was told so.
THEOREM TokensOneOwner == Spec => []OneOwner
<1>1. Inv => OneOwner
  BY DEF Inv
<1> QED  BY <1>1, InductiveInv, PTL

\* AuthService.Refresh signs a second pair for a token only if two refreshes had
\* passed the white list together or the DEL of revokeRefresh failed.
THEOREM TokensOneSuccessor == Spec => []OneSuccessor
<1>1. Inv => OneSuccessor
  BY DEF Inv
<1> QED  BY <1>1, InductiveInv, PTL

\* What a refresh or a logout has deleted from the white list signs nothing more,
\* whatever the handlers that are under way still write there.
THEOREM TokensSpent == Spec => SpentYieldsNothing
<1> DEFINE Step == [\A t \in spent : Children(t)' = Children(t)]_vars
<1>1. Inv /\ [Next]_vars => Step
  <2> SUFFICES ASSUME Inv, Next, NEW t \in spent PROVE Children(t)' = Children(t)
    OBVIOUS
  <2>1. ASSUME NEW r \in Requests, NEW u \in 0 .. Len(parent), NEW c, u # t, IssuePair(r, u, c)
        PROVE  Children(t)' = Children(t)
    BY <2>1, OneMorePair DEF Inv, IssuePair, Children
  <2>2. CASE UNCHANGED parent
    BY <2>2 DEF Children, Pairs
  <2>3. ASSUME NEW r \in Requests, Login(r) PROVE Children(t)' = Children(t)
    <3>1. FromLogin \in 0 .. Len(parent) /\ FromLogin # t
      BY DEF FromLogin, Inv, TypeOK, Pairs
    <3> QED  BY <2>1, <2>2, <2>3, <3>1 DEF Login
  <2>4. ASSUME NEW r \in Requests, WhitelistUID(r) PROVE Children(t)' = Children(t)
    <3>1. CASE UNCHANGED parent
      BY <3>1, <2>2
    <3>2. CASE ~UNCHANGED parent
      <4>1. /\ call[r].token \in whitelist
            /\ IssuePair(r, call[r].token,
                         [pc |-> "rotate", token |-> call[r].token, pair |-> 0])
        BY <2>4, <3>2 DEF WhitelistUID
      <4>2. call[r].token \in 0 .. Len(parent) /\ call[r].token # t
        BY <4>1 DEF Inv, TypeOK, Pairs, NeverRelisted
      <4> QED  BY <2>1, <4>1, <4>2
    <3> QED  BY <3>1, <3>2
  <2>5. (\A r \in Requests : ~Login(r) /\ ~WhitelistUID(r)) => UNCHANGED parent
    BY DEF Next, Handle, CheckNickname, InsertUser, Refresh, Rotate, RegisterRefresh,
           Logout, Revoke, Die, ExpireToken, ExpireKey, signed
  <2> QED  BY <2>2, <2>3, <2>4, <2>5
<1> QED  BY <1>1, InductiveInv, PTL DEF Spec, SpentYieldsNothing

\* A pair that reached its client can be refreshed until it expires, unless it was
\* presented before or Redis refused its key.
THEOREM TokensGivenIsListed == Spec => []GivenIsListed
<1>1. Init => GivenIsListed
  BY DEF Init, GivenIsListed
<1>2. GivenIsListed /\ [Next]_vars => GivenIsListed'
  <2> SUFFICES ASSUME GivenIsListed, [Next]_vars PROVE GivenIsListed'
    OBVIOUS
  <2>1. ASSUME NEW r \in Requests, Rotate(r) \/ Revoke(r) \/ RegisterRefresh(r)
        PROVE  GivenIsListed'
    BY <2>1 DEF Rotate, Revoke, RevokeRefresh, RegisterRefresh, GivenIsListed, signed
  <2>2. ASSUME NEW r \in Requests,
               \/ CheckNickname(r) \/ InsertUser(r) \/ Login(r) \/ Refresh(r)
               \/ WhitelistUID(r) \/ Logout(r) \/ Die(r)
        PROVE  GivenIsListed'
    BY <2>2 DEF CheckNickname, InsertUser, Login, Refresh, WhitelistUID, Logout, Die,
                GivenIsListed, redis, signed
  <2>3. CASE ExpireToken \/ ExpireKey \/ UNCHANGED vars
    BY <2>3 DEF ExpireToken, ExpireKey, GivenIsListed, redis, signed, vars
  <2> QED  BY <2>1, <2>2, <2>3 DEF Next, Handle
<1> QED  BY <1>1, <1>2, PTL DEF Spec
=============================================================================
