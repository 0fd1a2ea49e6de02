-------------------------------- MODULE Tokens --------------------------------
(***************************************************************************)
(* Accounts and refresh tokens.  Register checks a nickname and inserts a  *)
(* row; Login, Refresh and Logout keep the white list of refresh tokens in *)
(* Redis, one command at a time.  Tokens are numbered in the order they    *)
(* are signed; a signature, a user id and the password hash say no more    *)
(* than which token or row they belong to.                                 *)
(***************************************************************************)
EXTENDS Integers, Sequences

CONSTANTS
  Nicknames,
  People,         \* who registers: knows the password of the row inserted
  Requests,       \* handler goroutines of the API processes
  MaxPairs        \* bound: pairs of tokens that are signed

ASSUME TokensAssumption == MaxPairs \in Nat

VARIABLES
  users,          \* table users: <<nickname, person>>
  parent,         \* the token each pair was signed for, or Login
  expired,        \* refresh tokens past their exp
  whitelist,      \* Redis: refresh tokens with a key rt:<hash>
  call,           \* where each handler is
  told,           \* history: <<nickname, person>> that were answered "registered"
  given,          \* history: pairs a client has received
  spent,          \* history: tokens whose key has been deleted
  kept,           \* history: tokens whose key a Refresh failed to delete
  unlisted,       \* history: tokens whose key could not be set
  overlapped      \* history: tokens that two refreshes had in hand at a time

accounts == <<users, told>>
redis == <<whitelist, spent, kept, unlisted>>
signed == <<parent, expired, given, overlapped>>
vars == <<accounts, redis, signed, call>>

FromLogin == 0
Pairs == 1 .. Len(parent)
Children(t) == {p \in Pairs : parent[p] = t}

Idle == [pc |-> "idle"]
Goes(r, c) == call' = [call EXCEPT ![r] = c]

Init ==
  /\ users = {} /\ told = {}
  /\ parent = <<>> /\ expired = {} /\ given = {} /\ overlapped = {}
  /\ whitelist = {} /\ spent = {} /\ kept = {} /\ unlisted = {}
  /\ call = [r \in Requests |-> Idle]

-----------------------------------------------------------------------------
(* Register. *)

Taken(n) == \E u \in users : u[1] = n

CheckNickname(r) ==
  /\ call[r].pc = "idle"
  /\ \E n \in Nicknames, h \in People :
       /\ ~Taken(n)
       /\ Goes(r, [pc |-> "insert", row |-> <<n, h>>])
  /\ UNCHANGED <<accounts, redis, signed>>

\* Mutant: no unique index on nickname.
InsertUserTwice(r) ==
  /\ call[r].pc = "insert"
  /\ users' = users \cup {call[r].row}
  /\ told' = told \cup {call[r].row}
  /\ Goes(r, Idle)
  /\ UNCHANGED <<redis, signed>>

\* uk_nickname refuses a second row; the loser of the race gets an error.
InsertUser(r) ==
  /\ call[r].pc = "insert"
  /\ \/ /\ ~Taken(call[r].row[1])
        /\ users' = users \cup {call[r].row}
        /\ told' = told \cup {call[r].row}
     \/ UNCHANGED accounts
  /\ Goes(r, Idle)
  /\ UNCHANGED <<redis, signed>>

-----------------------------------------------------------------------------
(* Login, Refresh, Logout. *)

\* A new pair for a token, or for a login; its number stands for the jti.
IssuePair(r, t, c) ==
  /\ Len(parent) < MaxPairs
  /\ parent' = Append(parent, t)
  /\ Goes(r, [c EXCEPT !.pair = Len(parent) + 1])

\* The password fits the row of the nickname, or the login is refused.
Login(r) ==
  /\ call[r].pc = "idle"
  /\ \/ users # {} /\ IssuePair(r, FromLogin, [pc |-> "list", pair |-> 0])
     \/ UNCHANGED <<parent, call>>
  /\ UNCHANGED <<accounts, redis, expired, given, overlapped>>

\* Parse: the signature and exp of a refresh token are good.
Refresh(r) ==
  /\ call[r].pc = "idle"
  /\ \E t \in given \ expired : Goes(r, [pc |-> "parsed", token |-> t])
  /\ UNCHANGED <<accounts, redis, signed>>

\* A token that is not on the white list is refused, and so is every token
\* while Redis does not answer.  Signing is local and part of the step.
WhitelistUID(r) ==
  LET t == call[r].token
      others == {s \in Requests \ {r} : call[s].pc = "rotate" /\ call[s].token = t}
  IN /\ call[r].pc = "parsed"
     /\ \/ /\ t \in whitelist
           /\ IssuePair(r, t, [pc |-> "rotate", token |-> t, pair |-> 0])
           /\ overlapped' = IF others = {} THEN overlapped ELSE overlapped \cup {t}
        \/ Goes(r, Idle) /\ UNCHANGED <<parent, overlapped>>
     /\ UNCHANGED <<accounts, redis, expired, given>>

\* DEL; its error is only logged.
RevokeRefresh(t) ==
  /\ \/ whitelist' = whitelist \ {t} /\ spent' = spent \cup {t} /\ kept' = kept
     \/ kept' = kept \cup {t} /\ UNCHANGED <<whitelist, spent>>
  /\ UNCHANGED unlisted

\* Mutant: the new token is revoked, the old one stays.
RotateNew(r) ==
  /\ call[r].pc = "rotate"
  /\ RevokeRefresh(call[r].pair)
  /\ Goes(r, [pc |-> "list", pair |-> call[r].pair])
  /\ UNCHANGED <<accounts, signed>>

Rotate(r) ==
  /\ call[r].pc = "rotate"
  /\ RevokeRefresh(call[r].token)
  /\ Goes(r, [pc |-> "list", pair |-> call[r].pair])
  /\ UNCHANGED <<accounts, signed>>

\* Mutant: the token that was presented is put on the white list again.
RegisterRefreshOld(r) ==
  /\ call[r].pc = "list"
  /\ whitelist' = (whitelist \cup {call[r].pair, parent[call[r].pair]}) \ {FromLogin}
  /\ given' \in {given, given \cup {call[r].pair}}
  /\ Goes(r, Idle)
  /\ UNCHANGED <<accounts, spent, kept, unlisted, parent, expired, overlapped>>

\* SET, with an error that is only logged, and the answer, which may get lost.
RegisterRefresh(r) ==
  LET p == call[r].pair IN
  /\ call[r].pc = "list"
  /\ \/ whitelist' = whitelist \cup {p} /\ unlisted' = unlisted
     \/ unlisted' = unlisted \cup {p} /\ whitelist' = whitelist
  /\ given' \in {given, given \cup {p}}
  /\ Goes(r, Idle)
  /\ UNCHANGED <<accounts, spent, kept, parent, expired, overlapped>>

\* Behind GinAuth: any access token will do, for any refresh token.
Logout(r) ==
  /\ call[r].pc = "idle"
  /\ \E t \in given : Goes(r, [pc |-> "revoke", token |-> t])
  /\ UNCHANGED <<accounts, redis, signed>>

\* The client is told that it is logged out, whatever DEL says.
Revoke(r) ==
  /\ call[r].pc = "revoke"
  /\ RevokeRefresh(call[r].token)
  /\ Goes(r, Idle)
  /\ UNCHANGED <<accounts, signed>>

-----------------------------------------------------------------------------
(* Time and crashes. *)

\* exp is counted from the signing, so tokens expire in their order.
ExpireToken ==
  /\ expired # Pairs
  /\ \E p \in Pairs \ expired :
       /\ \A q \in 1 .. p - 1 : q \in expired
       /\ expired' = expired \cup {p}
  /\ UNCHANGED <<accounts, redis, parent, given, overlapped, call>>

\* Mutant: the key lives as long as an access token.
ExpireKeyEarly ==
  /\ \E p \in whitelist : whitelist' = whitelist \ {p}
  /\ UNCHANGED <<accounts, spent, kept, unlisted, signed, call>>

\* The key's TTL is that of the token and starts later.
ExpireKey ==
  /\ \E p \in whitelist \cap expired : whitelist' = whitelist \ {p}
  /\ UNCHANGED <<accounts, spent, kept, unlisted, signed, call>>

\* Mutant: a panic leaves the handler behind.
DieHalf(r) ==
  /\ call[r].pc # "idle"
  /\ Goes(r, [pc |-> "dead"])
  /\ UNCHANGED <<accounts, redis, signed>>

\* A handler dies with its process, or its request fails before the next step.
Die(r) ==
  /\ call[r].pc # "idle"
  /\ kept' = IF call[r].pc = "rotate" THEN kept \cup {call[r].token} ELSE kept
  /\ Goes(r, Idle)
  /\ UNCHANGED <<accounts, whitelist, spent, unlisted, signed>>

-----------------------------------------------------------------------------
Handle(r) ==
  \/ CheckNickname(r) \/ InsertUser(r)
  \/ Login(r) \/ Refresh(r) \/ WhitelistUID(r) \/ Rotate(r) \/ RegisterRefresh(r)
  \/ Logout(r) \/ Revoke(r)

Next == (\E r \in Requests : Handle(r) \/ Die(r)) \/ ExpireToken \/ ExpireKey

Spec == Init /\ [][Next]_vars

-----------------------------------------------------------------------------
Calls ==
  {Idle} \cup [pc : {"insert"}, row : Nicknames \X People]
         \cup [pc : {"parsed", "revoke"}, token : Pairs]
         \cup [pc : {"rotate"}, token : Pairs, pair : Pairs]
         \cup [pc : {"list"}, pair : Pairs]

TypeOK ==
  /\ users \cup told \subseteq Nicknames \X People
  /\ parent \in Seq(0 .. MaxPairs)
  /\ \A p \in Pairs : parent[p] < p
  /\ UNION {expired, whitelist, given, spent, kept, unlisted, overlapped} \subseteq Pairs
  /\ call \in [Requests -> Calls]

(***************************************************************************)
(* A nickname has one owner, and it is the one whose Register succeeded,   *)
(* although the check and the INSERT are two steps and race.               *)
(***************************************************************************)
OneOwner ==
  /\ \A u, v \in users : u[1] = v[1] => u = v
  /\ told \subseteq users

(***************************************************************************)
(* Rotation: a refresh token yields one new pair at most.  The ways round  *)
(* it are two: refreshes that had the token in hand at the same moment,    *)
(* since the check and the DEL are two commands, and a DEL that failed.    *)
(***************************************************************************)
OneSuccessor ==
  \A t \in Pairs : (\E p, q \in Children(t) : p # q) => t \in overlapped \cup kept

(***************************************************************************)
(* A token whose key a refresh or a logout has deleted yields nothing any  *)
(* more, while older handlers still run and write to the white list.  The  *)
(* one thing that may outlive a logout is the pair of a refresh that read  *)
(* the white list before the DEL: it is signed at that read.               *)
(***************************************************************************)
SpentYieldsNothing ==
  [][\A t \in spent : Children(t)' = Children(t)]_vars

(***************************************************************************)
(* Nobody is logged out by accident: a pair that reached its client will   *)
(* be accepted until it expires, unless it was presented already or its    *)
(* key could not be set.                                                   *)
(***************************************************************************)
GivenIsListed ==
  given \subseteq UNION {whitelist, spent, expired, unlisted}
=============================================================================
