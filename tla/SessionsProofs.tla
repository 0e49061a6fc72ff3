--------------------------- MODULE SessionsProofs ---------------------------
(***************************************************************************)
(* A refresh token that was revoked before it was presented yields nothing, *)
(* the key of an account agrees with its row, and an open session was       *)
(* opened with the present password: for any number of requests, failures   *)
(* and lost keys.  The types come last: the numbers of tokens and passwords *)
(* are bounded by the requests begun less those still to issue or change one. *)
(***************************************************************************)
EXTENDS Sessions, FiniteSetTheorems, TLAPS

\* What the argument needs of the types: refresh tokens are issued numbers.
Steps  == {"idle", "get", "compare", "refill", "read", "forget", "unlook", "clear",
           "password", "row", "set", "look", "verify", "scan", "update", "store"}
OpType == [kind : Kinds \cup {"none"}, pc : Steps, token : Tokens, refresh : 0 .. issued,
           pass : Nat, alone : BOOLEAN, dead : BOOLEAN]

\* Only what has a session is checked, and only a refresh looks it up.
Fits(k, pc) ==
    /\ pc \in {"get", "compare", "refill"} => k \in {"visit", "logout", "rename"}
    /\ pc \in {"look", "verify", "scan"} => k = "refresh"

Shape ==
    /\ name \in Names /\ password \in Nat /\ now \in 1 .. MaxTime /\ issued \in Nat
    /\ row \in [token : Tokens, refresh : 0 .. issued]
    /\ op \in [Ops -> OpType] /\ \A o \in Ops : Fits(op[o].kind, op[o].pc)
    /\ held.access \subseteq Tokens /\ held.refresh \subseteq 1 .. issued

\* A login that has not written its row.
Unwritten(o) == op[o].kind = "login" /\ op[o].pc = "row"

\* Its refresh token is new: nobody holds it, and no other request has it.
Fresh ==
    \A o \in Ops : Unwritten(o) =>
        /\ op[o].refresh \notin held.refresh \cup {row.refresh, 0}
        /\ \A p \in Ops \ {o} : op[p].refresh # op[o].refresh

\* A request to refresh presents a token that was given out, and one that was
\* revoked then is not the row's again.
Presented ==
    \A o \in Ops : op[o].kind = "refresh" =>
        /\ op[o].refresh \in held.refresh
        /\ op[o].dead => op[o].refresh # row.refresh

IInv == Shape /\ Fresh /\ Presented /\ RevokedRefreshIsDead

-----------------------------------------------------------------------------
(* The types.                                                                *)

LEMMA NoneIsAccess == None \in Tokens
BY DEF Tokens

LEMMA IdleIsOp == ASSUME issued \in Nat PROVE Idle \in OpType
BY NoneIsAccess DEF Idle, OpType, Steps

LEMMA GeneratedIsAccess ==
    ASSUME NEW n \in Names, now \in 1 .. MaxTime PROVE GenerateToken(n) \in Tokens
BY DEF GenerateToken, Tokens

LEMMA InitShape == Init => Shape
<1>1. 1 \in 1 .. MaxTime
  BY Bounds
<1> QED BY <1>1, IdleIsOp, NoneIsAccess DEF Init, Shape, Idle, Fits

\* A request begins with arguments of the right types.
LEMMA BeginTyped ==
    ASSUME Shape, NEW o \in Ops, NEW k \in Kinds, NEW pc \in Steps, NEW t \in Tokens,
           NEW r \in 0 .. issued, NEW p \in Nat, Fits(k, pc), Begin(o, k, pc, t, r, p)
    PROVE  Shape'
<1> DEFINE begun == [kind |-> k, pc |-> pc, token |-> t, refresh |-> r,
                     pass |-> p, alone |-> Busy = {}, dead |-> r # row.refresh]
<1>1. begun \in OpType
  BY DEF OpType
<1>2. op' = [x \in Ops |-> IF x = o THEN begun ELSE [op[x] EXCEPT !.alone = FALSE]]
  BY DEF Begin
<1>3. \A x \in Ops : [op[x] EXCEPT !.alone = FALSE] \in OpType
  BY DEF Shape, OpType
<1>4. op' \in [Ops -> OpType]
  BY <1>1, <1>2, <1>3
<1>5. UNCHANGED <<name, password, row, held, now, issued>>
  BY DEF Begin, table
<1>6. \A x \in Ops : Fits(op'[x].kind, op'[x].pc)
  BY <1>2, Fits(k, pc) DEF Shape, OpType
<1> QED BY <1>4, <1>5, <1>6 DEF Shape, OpType, Fits

LEMMA BeginShape ==
    ASSUME Shape, NEW o \in Ops, Arrive(o) PROVE Shape'
<1>1. CASE Authorize(o)
  <2>1. PICK k \in {"visit", "logout", "rename"}, t \in held.access : Begin(o, k, "get", t, 0, 0)
    BY <1>1 DEF Authorize
  <2>2. k \in Kinds /\ Fits(k, "get") /\ "get" \in Steps /\ t \in Tokens /\ 0 \in 0 .. issued /\ 0 \in Nat
    BY DEF Kinds, Steps, Shape, Fits
  <2> QED BY <2>1, <2>2, BeginTyped
<1>2. CASE BeginLogin(o)
  <2>1. PICK p \in 0 .. password : Begin(o, "login", "read", None, 0, p)
    BY <1>2 DEF BeginLogin
  <2>2. Fits("login", "read") /\ "login" \in Kinds /\ "read" \in Steps /\ 0 \in 0 .. issued /\ p \in Nat
    BY DEF Kinds, Steps, Shape, Fits
  <2> QED BY <2>1, <2>2, NoneIsAccess, BeginTyped
<1>3. CASE BeginChange(o)
  <2>1. Fits("change", "read") /\ "change" \in Kinds /\ "read" \in Steps /\ 0 \in 0 .. issued /\ password \in Nat
    BY DEF Kinds, Steps, Shape, Fits
  <2> QED BY <1>3, <2>1, NoneIsAccess, BeginTyped DEF BeginChange
<1>4. CASE BeginRefresh(o)
  <2>1. PICK r \in held.refresh : Begin(o, "refresh", "look", None, r, 0)
    BY <1>4 DEF BeginRefresh
  <2>2. Fits("refresh", "look") /\ "refresh" \in Kinds /\ "look" \in Steps /\ r \in 0 .. issued /\ 0 \in Nat
    BY DEF Kinds, Steps, Shape, Fits
  <2> QED BY <2>1, <2>2, NoneIsAccess, BeginTyped
<1> QED BY <1>1, <1>2, <1>3, <1>4 DEF Arrive

\* Any other step of a request gives it a position, a kind, a token and a
\* refresh token of the right types, and the row and the clients those.
LEMMA StepShape ==
    ASSUME Shape, NEW o \in Ops,
           Check(o) \/ Login(o) \/ Logout(o) \/ Refresh(o) \/ Change(o)
    PROVE  Shape'
<1> USE DEF Goto, Stop, Complete, Fails, Passed, Give, table, redis, key, history, env
<1>1. op[o] \in OpType /\ Idle \in OpType
  BY IdleIsOp DEF Shape
<1>2. op[o].token \in Tokens /\ op[o].refresh \in 0 .. issued /\ GenerateToken(name) \in Tokens
  BY <1>1, GeneratedIsAccess DEF OpType, Shape
<1> DEFINE To == {pc \in Steps : Fits(op[o].kind, pc)}
<1> DEFINE Moved == \/ op' = op
                    \/ op' = [op EXCEPT ![o] = Idle]
                    \/ \E pc \in To : op' = [op EXCEPT ![o].pc = pc]
                    \/ \E pc \in To : op' = [op EXCEPT ![o].pc = pc, ![o].alone = FALSE]
                    \/ \E pc \in To, t \in Tokens : op' = [op EXCEPT ![o].pc = pc, ![o].token = t]
                    \/ op' = [op EXCEPT ![o].kind = "logout", ![o].pc = "read"]
                    \/ op' = [op EXCEPT ![o].pc = "forget", ![o].refresh = row.refresh]
<1>3. ASSUME Moved, issued' = issued PROVE op' \in [Ops -> OpType] /\ \A p \in Ops : Fits(op'[p].kind, op'[p].pc)
  <2>1. CASE op' = op  BY <2>1 DEF Shape, Fits
  <2>2. CASE op' = [op EXCEPT ![o] = Idle]  BY <1>1, <2>2 DEF Shape, Fits, Idle
  <2>3. ASSUME NEW pc \in To, op' = [op EXCEPT ![o].pc = pc] PROVE op' \in [Ops -> OpType] /\ \A p \in Ops : Fits(op'[p].kind, op'[p].pc)
    BY <1>1, <2>3 DEF Shape, OpType, Fits
  <2>4. ASSUME NEW pc \in To, op' = [op EXCEPT ![o].pc = pc, ![o].alone = FALSE]
        PROVE  op' \in [Ops -> OpType] /\ \A p \in Ops : Fits(op'[p].kind, op'[p].pc)
    BY <1>1, <2>4 DEF Shape, OpType, Fits
  <2>5. ASSUME NEW pc \in To, NEW t \in Tokens,
               op' = [op EXCEPT ![o].pc = pc, ![o].token = t]
        PROVE  op' \in [Ops -> OpType] /\ \A p \in Ops : Fits(op'[p].kind, op'[p].pc)
    BY <1>1, <2>5 DEF Shape, OpType, Fits
  <2>6. CASE op' = [op EXCEPT ![o].kind = "logout", ![o].pc = "read"]
    <3>1. [op[o] EXCEPT !.kind = "logout", !.pc = "read"] \in OpType
      BY <1>1 DEF OpType, Steps, Kinds
    <3>2. \A p \in Ops : op'[p] = IF p = o THEN [op[o] EXCEPT !.kind = "logout", !.pc = "read"]
                                         ELSE op[p]
      BY <2>6 DEF Shape
    <3>3. \A p \in Ops : Fits(op'[p].kind, op'[p].pc)
      <4>1. op'[o].kind = "logout" /\ op'[o].pc = "read"
        BY <1>1, <3>2 DEF OpType
      <4>2. \A p \in Ops : p # o => Fits(op'[p].kind, op'[p].pc)
        BY <3>2 DEF Shape
      <4> QED BY <4>1, <4>2 DEF Fits
    <3> QED BY <2>6, <3>1, <3>3 DEF Shape
  <2>7. CASE op' = [op EXCEPT ![o].pc = "forget", ![o].refresh = row.refresh]
    <3>1. [op[o] EXCEPT !.pc = "forget", !.refresh = row.refresh] \in OpType
      <4>1. row.refresh \in 0 .. issued /\ "forget" \in Steps
        BY DEF Shape, Steps
      <4> QED BY <1>1, <4>1 DEF OpType
    <3>2. \A p \in Ops : op'[p] = IF p = o THEN [op[o] EXCEPT !.pc = "forget", !.refresh = row.refresh]
                                         ELSE op[p]
      BY <2>7 DEF Shape
    <3>3. \A p \in Ops : Fits(op'[p].kind, op'[p].pc)
      <4>1. op'[o].pc = "forget"
        BY <1>1, <3>2 DEF OpType
      <4>2. \A p \in Ops : p # o => Fits(op'[p].kind, op'[p].pc)
        BY <3>2 DEF Shape
      <4> QED BY <4>1, <4>2 DEF Fits
    <3> QED BY <1>3, <2>7, <3>1, <3>3 DEF Shape
  <2> QED BY <1>3, <2>1, <2>2, <2>3, <2>4, <2>5, <2>6, <2>7
<1> DEFINE Kept == /\ Moved /\ issued' = issued /\ now' = now
                   /\ name' \in Names /\ password' \in Nat
                   /\ row' \in [token : Tokens, refresh : 0 .. issued]
                   /\ held'.access \subseteq Tokens /\ held'.refresh \subseteq 1 .. issued
<1>4. Kept => Shape'
  BY <1>3 DEF Shape, OpType, Fits
<1>5. CASE Check(o)
  <2>1. CASE CheckCache(o) BY <1>4, <2>1 DEF CheckCache, Shape, Steps, Fits
  <2>2. CASE CheckRow(o)   BY <1>4, <2>2 DEF CheckRow, Shape, Steps, Fits
  <2>3. CASE Refill(o)     BY <1>4, <2>3 DEF Refill, Shape, Steps, Fits
  <2> QED BY <1>5, <2>1, <2>2, <2>3 DEF Check
<1>6. CASE Login(o)
  <2>1. CASE LoginReads(o)
    <3>1. CASE op[o].pass = password
      <4>1. /\ issued' = issued + 1 /\ UNCHANGED <<name, password, row, held, now>>
            /\ op' = [op EXCEPT ![o].pc = "row", ![o].token = GenerateToken(name),
                               ![o].refresh = issued + 1]
        BY <2>1, <3>1 DEF LoginReads
      <4>2. issued' \in Nat /\ \A i \in 0 .. issued : i \in 0 .. issued'
        BY <4>1 DEF Shape
      <4>3. \A p \in Ops : op[p] \in OpType'
        BY <4>1, <4>2 DEF Shape, OpType
      <4>4. issued + 1 \in 0 .. issued' /\ "row" \in Steps
        BY <4>1 DEF Shape, Steps, Fits
      <4>5. op' \in [Ops -> OpType']
        BY <1>2, <4>1, <4>3, <4>4 DEF Shape, OpType
      <4>6. \A p \in Ops : Fits(op'[p].kind, op'[p].pc)
        BY <1>1, <4>1 DEF Shape, Fits, OpType
      <4> QED BY <4>1, <4>2, <4>5, <4>6 DEF Shape
    <3>2. CASE op[o].pass # password
      BY <1>4, <2>1, <3>2 DEF LoginReads, Shape
    <3> QED BY <3>1, <3>2
  <2>2. CASE LoginStores(o)
    BY <1>2, <1>4, <2>2 DEF LoginStores, Shape, Steps, Fits
  <2>3. CASE SetToken(o)
    <3>1. "store" \in To  BY DEF Steps, Fits
    <3> QED BY SMTT(30), <1>2, <1>4, <2>3, <3>1 DEF SetToken, Shape
  <2>4. CASE SetLookup(o)
    BY <1>2, <1>4, <2>4 DEF SetLookup, Shape, Steps, Fits
  <2> QED BY <1>6, <2>1, <2>2, <2>3, <2>4 DEF Login
<1>7. CASE Logout(o)
  <2>1. CASE LogoutReads(o)   BY <1>4, <2>1 DEF LogoutReads, Shape
  <2>2. CASE LogoutForgets(o) BY <1>4, <2>2 DEF LogoutForgets, Shape, Steps, Fits
  <2>3. CASE LogoutUnlooks(o) BY <1>4, <2>3 DEF LogoutUnlooks, Shape, Steps, Fits
  <2>4. CASE LogoutClears(o)  BY <1>4, <2>4, NoneIsAccess DEF LogoutClears, Shape
  <2> QED BY <1>7, <2>1, <2>2, <2>3, <2>4 DEF Logout
<1>8. CASE Refresh(o)
  <2>1. CASE RefreshLooks(o)      BY <1>4, <2>1 DEF RefreshLooks, Shape, Steps, Fits
  <2>2. CASE RefreshVerifies(o)
    <3>1. op[o].pc = "verify" => {"update", "scan"} \subseteq To  BY DEF Shape, Steps, Fits
    <3> QED BY <1>2, <1>4, <2>2, <3>1 DEF RefreshVerifies, Shape
  <2>3. CASE RefreshStores(o)     BY <1>2, <1>4, <2>3 DEF RefreshStores, Shape, Steps, Fits
  <2>4. CASE RefreshScans(o)      BY <1>2, <1>4, <2>4 DEF RefreshScans, Shape, Steps, Fits
  <2>5. CASE RefreshStoresOnly(o) BY <1>2, <1>4, <2>5 DEF RefreshStoresOnly, Shape
  <2> QED BY <1>8, <2>1, <2>2, <2>3, <2>4, <2>5 DEF Refresh
<1>9. CASE Change(o)
  <2>1. CASE RenameStores(o)
    <3>1. ASSUME NEW n \in Names, row' = [row EXCEPT !.token = GenerateToken(n)],
                 op' = [op EXCEPT ![o].pc = "set", ![o].token = GenerateToken(n)],
                 name' = n, UNCHANGED <<password, held, now, issued>>
          PROVE  Shape'
      <4>1. GenerateToken(n) \in Tokens  BY GeneratedIsAccess DEF Shape
      <4>2. "set" \in To  BY DEF Steps, Fits
      <4> QED BY <1>4, <3>1, <4>1, <4>2 DEF Shape
    <3> QED BY <1>4, <2>1, <3>1 DEF RenameStores, Shape
  <2>2. CASE ChangeReads(o)    BY <1>4, <2>2 DEF ChangeReads, Shape, Steps, Fits
  <2>3. CASE ChangePassword(o) BY <1>4, <2>3 DEF ChangePassword, Shape
  <2> QED BY <1>9, <2>1, <2>2, <2>3 DEF Change
<1> QED BY <1>5, <1>6, <1>7, <1>8, <1>9

LEMMA ShapeKept == ASSUME Shape, [Next]_vars PROVE Shape'
<1>1. ASSUME NEW o \in Ops,
             Arrive(o) \/ Check(o) \/ Login(o) \/ Logout(o) \/ Refresh(o) \/ Change(o)
      PROVE  Shape'
  BY <1>1, BeginShape, StepShape
<1>2. CASE Lose BY <1>2 DEF Lose, Shape, OpType, table
<1>3. CASE Tick
  <2>1. now' \in 1 .. MaxTime
    BY <1>3, Bounds DEF Tick, Shape
  <2> QED BY <1>3, <2>1 DEF Tick, Shape, OpType, table
<1>4. CASE UNCHANGED vars BY <1>4 DEF vars, table, Shape, OpType
<1> QED BY <1>1, <1>2, <1>3, <1>4 DEF Next

-----------------------------------------------------------------------------
(* The tokens.                                                               *)

Compared == {"update", "set", "row"}

\* The request o goes on, ends, or begins without a refresh token: it takes at
\* most the row's refresh token or its own along, the row keeps its refresh
\* token or loses it, and the client may be given the one of o.
GoesOn(o) ==
    /\ \A p \in Ops \ {o} : /\ op'[p].kind = op[p].kind /\ op'[p].pc = op[p].pc
                            /\ op'[p].refresh = op[p].refresh /\ op'[p].dead = op[p].dead
    /\ op'[o].refresh \in {op[o].refresh, row.refresh, 0}
    /\ op'[o].kind = "refresh" =>
          /\ op[o].kind = "refresh" /\ op'[o].refresh = op[o].refresh /\ op'[o].dead = op[o].dead
          /\ op'[o].pc \in Compared => op[o].pc \in Compared \/ row.refresh = op[o].refresh
    /\ Unwritten(o)' => Unwritten(o) /\ op'[o].refresh = op[o].refresh
    /\ row'.refresh \in {row.refresh, 0}
    /\ \/ held'.refresh = held.refresh
       \/ ~Unwritten(o) /\ held'.refresh = held.refresh \cup ({op[o].refresh} \ {0})

\* Such a step brings no token back and gives away none of a login under way.
LEMMA GoingOn ==
    ASSUME IInv, Shape', NEW o \in Ops, GoesOn(o)
    PROVE  Fresh' /\ Presented' /\ RevokedRefreshIsDead'
<1> USE DEF IInv
<1>1. held.refresh \subseteq held'.refresh /\ 0 \notin held'.refresh
  BY DEF GoesOn, Shape
<1>2. \A p \in Ops : Unwritten(p) => op[p].refresh \notin held'.refresh \/ p = o
  BY DEF GoesOn, Fresh
<1>3. Fresh'
  <2> SUFFICES ASSUME NEW p \in Ops, Unwritten(p)'
               PROVE  /\ op'[p].refresh \notin held'.refresh \cup {row'.refresh, 0}
                      /\ \A q \in Ops \ {p} : op'[q].refresh # op'[p].refresh
    BY DEF Fresh
  <2>1. Unwritten(p) /\ op'[p].refresh = op[p].refresh
    BY DEF GoesOn, Unwritten
  <2>2. op[p].refresh \notin held'.refresh
    BY <2>1 DEF GoesOn, Fresh
  <2>3. op[p].refresh \notin {row.refresh, row'.refresh, 0}
    BY <2>1 DEF GoesOn, Fresh
  <2>4. ASSUME NEW q \in Ops \ {p} PROVE op'[q].refresh # op[p].refresh
    BY <2>1, <2>3, <2>4 DEF GoesOn, Fresh
  <2> QED BY <2>1, <2>2, <2>3, <2>4
<1>4. Presented'
  <2> SUFFICES ASSUME NEW p \in Ops, op'[p].kind = "refresh"
               PROVE  /\ op'[p].refresh \in held'.refresh
                      /\ op'[p].dead => op'[p].refresh # row'.refresh
    BY DEF Presented
  <2>1. op[p].kind = "refresh" /\ op'[p].refresh = op[p].refresh /\ op'[p].dead = op[p].dead
    BY DEF GoesOn
  <2> QED BY <1>1, <2>1 DEF GoesOn, Presented
<1>5. RevokedRefreshIsDead'
  <2> SUFFICES ASSUME NEW p \in Ops, op'[p].kind = "refresh", op'[p].pc \in Compared
               PROVE  ~op'[p].dead
    BY DEF RevokedRefreshIsDead, Compared
  <2>1. op[p].kind = "refresh" /\ op'[p].dead = op[p].dead
    BY DEF GoesOn
  <2>2. op[p].pc \in Compared \/ row.refresh = op[p].refresh
    BY DEF GoesOn
  <2> QED BY <2>1, <2>2 DEF Presented, RevokedRefreshIsDead, Compared
<1> QED BY <1>3, <1>4, <1>5

\* All but the three steps that make or store a new refresh token, or begin to
\* present one.
Plain(o) == \/ Check(o) \/ SetToken(o) \/ SetLookup(o) \/ Change(o) \/ Logout(o) \/ Refresh(o)

\* The steps give the request a position and leave its kind and refresh token
\* be, or end it.
After(o, k, pc, r) ==
    /\ \A p \in Ops \ {o} : op'[p] = op[p]
    /\ op'[o].kind = k /\ op'[o].pc = pc /\ op'[o].refresh = r /\ op'[o].dead = op[o].dead

LEMMA PlainGoesOn ==
    ASSUME Shape, NEW o \in Ops, Plain(o)
    PROVE  GoesOn(o)
<1>1. op \in [Ops -> OpType] /\ op[o] \in OpType
  BY DEF Shape
<1> DEFINE
      Rest == /\ row'.refresh \in {row.refresh, 0}
              /\ \/ held'.refresh = held.refresh
                 \/ ~Unwritten(o) /\ held'.refresh = held.refresh \cup ({op[o].refresh} \ {0})
      May(pc) == /\ op[o].kind = "refresh" /\ pc \in Compared =>
                       op[o].pc \in Compared \/ row.refresh = op[o].refresh
                 /\ op[o].kind = "login" => pc # "row"
      Moved == \/ op' = [op EXCEPT ![o] = Idle]
               \/ \E pc \in Steps : May(pc) /\ op' = [op EXCEPT ![o].pc = pc]
               \/ \E pc \in Steps : May(pc) /\ op' = [op EXCEPT ![o].pc = pc, ![o].alone = FALSE]
               \/ \E pc \in Steps, t \in Tokens :
                     May(pc) /\ op' = [op EXCEPT ![o].pc = pc, ![o].token = t]
               \/ op' = [op EXCEPT ![o].kind = "logout", ![o].pc = "read"]
               \/ op' = [op EXCEPT ![o].pc = "forget", ![o].refresh = row.refresh] /\ op[o].kind = "logout"
<1>2. ASSUME op' = [op EXCEPT ![o] = Idle], Rest PROVE GoesOn(o)
  BY <1>1, <1>2 DEF Idle, GoesOn, Unwritten
<1>3. ASSUME NEW pc \in Steps, May(pc), Rest,
             \/ op' = [op EXCEPT ![o].pc = pc]
             \/ op' = [op EXCEPT ![o].pc = pc, ![o].alone = FALSE]
             \/ \E t \in Tokens : op' = [op EXCEPT ![o].pc = pc, ![o].token = t]
      PROVE  GoesOn(o)
  <2>1. After(o, op[o].kind, pc, op[o].refresh)
    BY <1>1, <1>3 DEF After, OpType
  <2> QED BY <1>1, <1>3, <2>1 DEF After, GoesOn, Unwritten
<1>4. ASSUME Rest,
             \/ op' = [op EXCEPT ![o].kind = "logout", ![o].pc = "read"]
             \/ op' = [op EXCEPT ![o].pc = "forget", ![o].refresh = row.refresh] /\ op[o].kind = "logout"
      PROVE  GoesOn(o)
  <2>1. After(o, "logout", "read", op[o].refresh) \/ After(o, "logout", "forget", row.refresh)
    BY <1>1, <1>4 DEF After, OpType
  <2> QED BY <1>1, <1>4, <2>1 DEF After, GoesOn, Unwritten
<1>5. Moved /\ Rest => GoesOn(o)
  BY <1>2, <1>3, <1>4
<1> USE DEF Goto, Stop, Complete, Fails, Passed, Give, table, redis, key, history, env
<1> HIDE DEF Idle
<1>6. CASE Check(o)
  <2>1. op[o].pc \in {"get", "compare", "refill"} =>
           op[o].kind \in {"visit", "logout", "rename"} /\ \A pc \in Steps : May(pc)
    BY DEF Shape, Fits
  <2>2. {"compare", "refill", "read", "row"} \subseteq Steps
    BY DEF Steps
  <2>3. CASE CheckCache(o) BY <1>1, <1>5, <2>1, <2>2, <2>3 DEF CheckCache
  <2>4. CASE CheckRow(o)   BY <1>1, <1>5, <2>1, <2>2, <2>4 DEF CheckRow
  <2>5. CASE Refill(o)     BY <1>1, <1>5, <2>1, <2>2, <2>5 DEF Refill
  <2> QED BY <1>6, <2>3, <2>4, <2>5 DEF Check
<1>7. GenerateToken(name) \in Tokens /\ \A n \in Names : GenerateToken(n) \in Tokens
  BY GeneratedIsAccess DEF Shape
<1>8. {"set", "store", "scan", "update", "password", "unlook", "clear", "verify", "row"} \subseteq Steps
  BY DEF Steps
<1>9. CASE SetToken(o)
  <2>1. May("store") /\ ~Unwritten(o)  BY <1>9 DEF SetToken, Unwritten, Compared
  <2> QED BY <1>1, <1>5, <1>8, <1>9, <2>1 DEF SetToken
<1>10. CASE SetLookup(o)
  <2>1. ~Unwritten(o)  BY <1>10 DEF SetLookup, Unwritten
  <2> QED BY <1>1, <1>5, <1>10, <2>1 DEF SetLookup
<1>11. CASE Change(o)
  <2>1. CASE RenameStores(o)
    <3>1. May("set")  BY <2>1 DEF RenameStores
    <3>2. row'.refresh = row.refresh /\ held' = held
      BY <2>1 DEF RenameStores, Shape
    <3>3. \/ op' = [op EXCEPT ![o] = Idle]
          \/ \E n \in Names : op' = [op EXCEPT ![o].pc = "set", ![o].token = GenerateToken(n)]
      BY <2>1 DEF RenameStores
    <3> QED BY <1>5, <1>7, <1>8, <3>1, <3>2, <3>3
  <2>2. CASE ChangeReads(o)
    <3>1. May("password")  BY <2>2 DEF ChangeReads
    <3> QED BY <1>5, <1>8, <2>2, <3>1 DEF ChangeReads
  <2>3. CASE ChangePassword(o)
    BY <1>5, <2>3 DEF ChangePassword
  <2> QED BY <1>11, <2>1, <2>2, <2>3 DEF Change
<1>12. CASE Logout(o)
  <2>1. May("unlook") /\ May("clear")  BY DEF Compared
  <2>2. CASE LogoutReads(o)   BY <1>5, <2>2 DEF LogoutReads
  <2>3. CASE LogoutForgets(o) BY <1>5, <1>8, <2>1, <2>3 DEF LogoutForgets
  <2>4. CASE LogoutUnlooks(o) BY <1>5, <1>8, <2>1, <2>4 DEF LogoutUnlooks
  <2>5. CASE LogoutClears(o)  BY <1>5, <2>5 DEF LogoutClears
  <2> QED BY <1>12, <2>2, <2>3, <2>4, <2>5 DEF Logout
<1>13. CASE Refresh(o)
  <2>1. May("verify") /\ May("scan")  BY DEF Compared
  <2>2. op[o].pc \in {"verify", "scan"} => op[o].kind = "refresh"
    BY DEF Shape, Fits
  <2>3. CASE RefreshLooks(o)
    BY <1>5, <1>8, <2>1, <2>3 DEF RefreshLooks
  <2>4. CASE RefreshVerifies(o)
    <3>1. row.refresh = op[o].refresh => May("update")  BY DEF Compared
    <3> QED BY <1>5, <1>7, <1>8, <2>1, <2>4, <3>1 DEF RefreshVerifies
  <2>5. CASE RefreshStores(o)
    <3>1. May("set")  BY <2>5 DEF RefreshStores, Compared
    <3>2. row'.refresh = row.refresh  BY <2>5 DEF RefreshStores, Shape
    <3> QED BY <1>5, <1>8, <2>5, <3>1, <3>2 DEF RefreshStores
  <2>6. CASE RefreshScans(o)
    <3>1. row.refresh = op[o].refresh => May("row")
      BY <2>2, <2>6 DEF RefreshScans, Compared
    <3> QED BY <1>5, <1>7, <1>8, <2>6, <3>1 DEF RefreshScans
  <2>7. CASE RefreshStoresOnly(o)
    <3>1. ~Unwritten(o)  BY <2>7 DEF RefreshStoresOnly, Unwritten
    <3>2. row'.refresh = row.refresh  BY <2>7 DEF RefreshStoresOnly, Shape
    <3> QED BY <1>1, <1>5, <2>7, <3>1, <3>2 DEF RefreshStoresOnly
  <2> QED BY <1>13, <2>3, <2>4, <2>5, <2>6, <2>7 DEF Refresh
<1> QED BY <1>6, <1>9, <1>10, <1>11, <1>12, <1>13 DEF Plain

\* A request that is no longer alone is otherwise the same.
LEMMA NotAloneKeeps ==
    ASSUME Shape, NEW o \in Ops, NEW k, NEW pc, NEW t, NEW r, NEW p, Begin(o, k, pc, t, r, p)
    PROVE  \A q \in Ops \ {o} : /\ op'[q].kind = op[q].kind /\ op'[q].pc = op[q].pc
                                /\ op'[q].refresh = op[q].refresh /\ op'[q].dead = op[q].dead
<1> SUFFICES ASSUME NEW q \in Ops \ {o}
             PROVE  /\ op'[q].kind = op[q].kind /\ op'[q].pc = op[q].pc
                    /\ op'[q].refresh = op[q].refresh /\ op'[q].dead = op[q].dead
  OBVIOUS
<1>1. op[q] \in OpType
  BY DEF Shape
<1>2. op'[q] = [op[q] EXCEPT !.alone = FALSE]
  BY DEF Begin
<1> QED BY <1>1, <1>2 DEF OpType

\* A request that begins without a refresh token is like one that goes on.
LEMMA BeginGoesOn ==
    ASSUME Shape, NEW o \in Ops, NEW k \in Kinds \ {"refresh"}, NEW pc \in Steps \ {"row"},
           NEW t, NEW p, Begin(o, k, pc, t, 0, p)
    PROVE  GoesOn(o)
<1>1. /\ op'[o].kind = k /\ op'[o].pc = pc /\ op'[o].refresh = 0
      /\ row' = row /\ held' = held
  BY DEF Begin, table
<1>2. \A q \in Ops \ {o} : /\ op'[q].kind = op[q].kind /\ op'[q].pc = op[q].pc
                           /\ op'[q].refresh = op[q].refresh /\ op'[q].dead = op[q].dead
  BY NotAloneKeeps
<1> QED BY <1>1, <1>2 DEF GoesOn, Unwritten

\* A token is compared with the row when it is presented; nobody who presents
\* one has that of a login under way.
LEMMA BeginRefreshKeeps ==
    ASSUME IInv, NEW o \in Ops, BeginRefresh(o)
    PROVE  Fresh' /\ Presented' /\ RevokedRefreshIsDead'
<1> USE DEF IInv
<1>1. PICK r \in held.refresh : Begin(o, "refresh", "look", None, r, 0)
  BY DEF BeginRefresh
<1>2. /\ op'[o].kind = "refresh" /\ op'[o].pc = "look" /\ op'[o].refresh = r
      /\ op'[o].dead = (r # row.refresh) /\ row' = row /\ held' = held
  BY <1>1 DEF Begin, table
<1>3. \A q \in Ops \ {o} : /\ op'[q].kind = op[q].kind /\ op'[q].pc = op[q].pc
                           /\ op'[q].refresh = op[q].refresh /\ op'[q].dead = op[q].dead
  BY <1>1, NotAloneKeeps
<1>4. Fresh'
  BY <1>2, <1>3 DEF Fresh, Unwritten
<1>5. Presented'
  BY <1>2, <1>3 DEF Presented
<1>6. RevokedRefreshIsDead'
  BY <1>2, <1>3 DEF RevokedRefreshIsDead
<1> QED BY <1>4, <1>5, <1>6

\* A login's refresh token is a new number.
LEMMA LoginReadsKeeps ==
    ASSUME IInv, NEW o \in Ops, LoginReads(o), op[o].pass = password
    PROVE  Fresh' /\ Presented' /\ RevokedRefreshIsDead'
<1> USE DEF IInv
<1>1. /\ op' = [op EXCEPT ![o].pc = "row", ![o].token = GenerateToken(name),
                          ![o].refresh = issued + 1]
      /\ op[o].kind = "login" /\ row' = row /\ held' = held
  BY DEF LoginReads, table
<1>2. /\ op'[o].kind = "login" /\ op'[o].refresh = issued + 1
      /\ \A q \in Ops \ {o} : op'[q] = op[q]
  BY <1>1 DEF Shape, OpType
<1>3. /\ issued + 1 \notin held.refresh \cup {row.refresh, 0}
      /\ \A q \in Ops : op[q].refresh # issued + 1
  BY DEF Shape, OpType
<1>4. Fresh'
  <2> SUFFICES ASSUME NEW p \in Ops, Unwritten(p)'
               PROVE  /\ op'[p].refresh \notin held.refresh \cup {row.refresh, 0}
                      /\ \A q \in Ops \ {p} : op'[q].refresh # op'[p].refresh
    BY <1>1 DEF Fresh
  <2>1. CASE p = o  BY <1>2, <1>3, <2>1
  <2>2. CASE p # o  BY <1>2, <1>3, <2>2 DEF Fresh, Unwritten
  <2> QED BY <2>1, <2>2
<1>5. Presented'
  BY <1>1, <1>2 DEF Presented
<1>6. RevokedRefreshIsDead'
  BY <1>2 DEF RevokedRefreshIsDead
<1> QED BY <1>4, <1>5, <1>6

\* The row's new refresh token is nobody else's, so no token that was revoked
\* comes to life.
LEMMA LoginStoresKeeps ==
    ASSUME IInv, NEW o \in Ops, LoginStores(o)
    PROVE  Fresh' /\ Presented' /\ RevokedRefreshIsDead'
<1> USE DEF IInv
<1>1. /\ op' = [op EXCEPT ![o].pc = "set"] /\ row'.refresh = op[o].refresh /\ held' = held
      /\ Unwritten(o)
  BY DEF LoginStores, Goto, Unwritten
<1>2. /\ op'[o].kind = "login" /\ op'[o].pc = "set" /\ op'[o].refresh = op[o].refresh
      /\ \A q \in Ops \ {o} : op'[q] = op[q]
  BY <1>1 DEF Shape, OpType, Unwritten
<1>3. Fresh'
  BY <1>1, <1>2 DEF Fresh, Unwritten
<1>4. Presented'
  BY <1>1, <1>2 DEF Fresh, Presented
<1>5. RevokedRefreshIsDead'
  BY <1>2 DEF RevokedRefreshIsDead
<1> QED BY <1>3, <1>4, <1>5

LEMMA IInvKept == ASSUME IInv, [Next]_vars PROVE IInv'
<1> USE DEF IInv
<1>1. Shape'
  BY ShapeKept
<1>2. ASSUME NEW o \in Ops, GoesOn(o) PROVE Fresh' /\ Presented' /\ RevokedRefreshIsDead'
  BY <1>1, <1>2, GoingOn
<1>3. ASSUME NEW o \in Ops, Arrive(o) PROVE Fresh' /\ Presented' /\ RevokedRefreshIsDead'
  <2>1. CASE Authorize(o)
    <3>1. PICK k \in {"visit", "logout", "rename"}, t \in held.access : Begin(o, k, "get", t, 0, 0)
      BY <2>1 DEF Authorize
    <3>2. k \in Kinds \ {"refresh"} /\ "get" \in Steps \ {"row"}
      BY DEF Kinds, Steps
    <3> QED BY <1>2, <3>1, <3>2, BeginGoesOn
  <2>2. CASE BeginLogin(o)
    <3>1. PICK p \in 0 .. password : Begin(o, "login", "read", None, 0, p)
      BY <2>2 DEF BeginLogin
    <3>2. "login" \in Kinds \ {"refresh"} /\ "read" \in Steps \ {"row"}
      BY DEF Kinds, Steps
    <3> QED BY <1>2, <3>1, <3>2, BeginGoesOn
  <2>3. CASE BeginChange(o)
    <3>1. "change" \in Kinds \ {"refresh"} /\ "read" \in Steps \ {"row"}
      BY DEF Kinds, Steps
    <3> QED BY <1>2, <2>3, <3>1, BeginGoesOn DEF BeginChange
  <2>4. CASE BeginRefresh(o)
    BY <2>4, BeginRefreshKeeps
  <2> QED BY <1>3, <2>1, <2>2, <2>3, <2>4 DEF Arrive
<1>4. ASSUME NEW o \in Ops, Plain(o) PROVE Fresh' /\ Presented' /\ RevokedRefreshIsDead'
  BY <1>2, <1>4, PlainGoesOn
<1>5. ASSUME NEW o \in Ops, LoginReads(o) PROVE Fresh' /\ Presented' /\ RevokedRefreshIsDead'
  <2>1. CASE op[o].pass = password
    BY <1>5, <2>1, LoginReadsKeeps
  <2>2. CASE op[o].pass # password
    <3>1. op' = [op EXCEPT ![o] = Idle] /\ row' = row /\ held' = held
      BY <1>5, <2>2 DEF LoginReads, Stop, table
    <3>2. op'[o] = Idle /\ \A q \in Ops \ {o} : op'[q] = op[q]
      BY <3>1 DEF Shape
    <3>3. GoesOn(o)
      BY <3>1, <3>2 DEF GoesOn, Unwritten, Idle
    <3> QED BY <1>2, <3>3
  <2> QED BY <2>1, <2>2
<1>6. ASSUME UNCHANGED <<op, row, held>> PROVE Fresh' /\ Presented' /\ RevokedRefreshIsDead'
  BY <1>6 DEF Fresh, Unwritten, Presented, RevokedRefreshIsDead
<1>7. CASE Lose \/ Tick \/ UNCHANGED vars
  <2>1. UNCHANGED <<op, row, held>>
    BY <1>7 DEF Lose, Tick, vars, table
  <2> QED BY <1>1, <1>6, <2>1
<1>8. ASSUME NEW o \in Ops, Login(o) PROVE Fresh' /\ Presented' /\ RevokedRefreshIsDead'
  BY <1>4, <1>5, <1>8, LoginStoresKeeps DEF Login, Plain
<1> QED BY <1>1, <1>3, <1>4, <1>7, <1>8 DEF Next, Plain

\* A refresh token that was not the row's when it was presented yields no
\* access token, whatever runs beside the request: both paths of
\* RefreshAccessToken compare it with the row, and no login ever stores a
\* token that was given out before.
THEOREM RevokedRefreshHolds == Spec => []RevokedRefreshIsDead
<1>1. Init => IInv
  <2> SUFFICES ASSUME Init PROVE IInv  OBVIOUS
  <2>1. \A o \in Ops : op[o] = Idle
    BY DEF Init
  <2> QED BY <2>1, InitShape DEF IInv, Fresh, Presented, Unwritten, RevokedRefreshIsDead, Idle
<1>2. IInv /\ [Next]_vars => IInv'
  BY IInvKept
<1>3. IInv => RevokedRefreshIsDead
  BY DEF IInv
<1> QED BY <1>1, <1>2, <1>3, PTL DEF Spec

-----------------------------------------------------------------------------
(* What row and keys agree on, and what a request owes them.                 *)

\* Where a request of each kind may be.
Belongs(k, pc) ==
    /\ k = "none" <=> pc = "idle"
    /\ pc \in {"get", "compare", "refill"} => k \in {"visit", "logout", "rename"}
    /\ pc \in {"look", "verify", "scan", "update"} => k = "refresh"
    /\ pc \in {"row", "set"} => k \in {"login", "rename", "refresh"}
    /\ pc = "store" => k = "login"
    /\ pc = "read" => k \in {"login", "change", "logout"}
    /\ pc = "password" => k = "change"
    /\ pc \in {"forget", "unlook", "clear"} => k = "logout"

\* Where it has an access token.
WithToken == {"get", "compare", "refill", "row", "set", "store", "update"}

Kinded ==
    /\ None \notin held.access /\ now >= 1
    /\ \A o \in Ops : /\ Belongs(op[o].kind, op[o].pc)
                      /\ op[o].pc \in WithToken => op[o].token # None

\* A request is alone when no other is under way, and in step nothing but
\* visits run side by side.
Sole == \A o \in Ops : op[o].alone =>
            op[o].kind # "none" /\ \A p \in Ops \ {o} : op[p].kind = "none"
Calm == inStep => \A o \in Ops : op[o].kind \in {"none", "visit"} \/ op[o].alone

Agree   == /\ cached \in {None, row.token} \cup behind
           /\ cached # None => row.token # None
           /\ row.token = None <=> row.refresh = 0
Current == row.token # None => opened = password

\* What row and keys are when a request that nothing disturbed is where it is.
Owed(k, pc, t, r, p) ==
    /\ pc = "refill" => row.token = t
    /\ pc = "row" /\ k = "login" => p = password /\ r # 0
    /\ pc = "row" /\ k = "rename" /\ inStep => row.token # None
    /\ (pc = "update" \/ (pc = "row" /\ k = "refresh")) /\ inStep => row.refresh # 0
    /\ pc = "set" => row.token = t
    /\ pc = "set" /\ (inStep \/ k = "login") => row.refresh # 0 /\ opened = password
    /\ pc = "store" => /\ cached \in {None, row.token} /\ row.token # None
                       /\ row.refresh # 0 /\ opened = password
    /\ pc \in {"unlook", "clear"} => cached = None

Sound == \A o \in Ops : op[o].alone \/ (inStep /\ op[o].kind # "none") =>
             Owed(op[o].kind, op[o].pc, op[o].token, op[o].refresh, op[o].pass)

\* The logout proper, of a changed password or of a request that was let in.
LoggingOut(k, pc) == k = "logout" /\ pc \notin {"get", "compare", "refill"}

\* In step row and keys agree, but while a token written to the row is not yet
\* the key's; and a session is the present password's, but while its end is
\* under way.
Settled == inStep => /\ (\A o \in Ops : op[o].pc # "set") => Agree
                     /\ (\A o \in Ops : ~LoggingOut(op[o].kind, op[o].pc)) => Current

SInv == IInv /\ Kinded /\ Sole /\ Calm /\ Sound /\ Settled

-----------------------------------------------------------------------------
(* One step of a request, in general.                                        *)

\* In step, where one request alone decides.
LEMMA Deciding ==
    ASSUME SInv, NEW o \in Ops, op[o].kind # "none", inStep
    PROVE  /\ op[o].pc # "set" => Agree
           /\ ~LoggingOut(op[o].kind, op[o].pc) => Current
<1>1. ASSUME NEW p \in Ops \ {o} PROVE op[p].kind \in {"none", "visit"}
  BY <1>1 DEF SInv, Calm, Sole
<1>2. ASSUME NEW p \in Ops \ {o} PROVE op[p].pc # "set" /\ ~LoggingOut(op[p].kind, op[p].pc)
  BY <1>1, <1>2 DEF SInv, Kinded, Belongs, LoggingOut
<1> QED BY <1>2 DEF SInv, Settled

\* The request o becomes one of kind k at pc, with these tokens.
Turns(o, k, pc, t, r, p, a) ==
    /\ \A q \in Ops \ {o} : op'[q] = op[q]
    /\ op'[o].kind = k /\ op'[o].pc = pc /\ op'[o].token = t
    /\ op'[o].refresh = r /\ op'[o].pass = p /\ op'[o].alone = a

\* What a step has to show of the request that makes it.
Pays(o, k, pc, t, r, p, a) ==
    /\ op[o].kind # "none" /\ (a => op[o].alone /\ k # "none") /\ Belongs(k, pc)
    /\ pc \in WithToken => t # None
    /\ None \notin held'.access /\ now' = now
    /\ inStep' /\ k \notin {"none", "visit"} => a
    /\ inStep' => inStep \/ (op[o].alone /\ k = "none")
    /\ op[o].kind = "visit" => row'.token = row.token
    /\ a \/ (inStep' /\ k # "none") => Owed(k, pc, t, r, p)'
    /\ inStep' /\ pc # "set" => Agree'
    /\ inStep' /\ ~LoggingOut(k, pc) => Current'

LEMMA StepSettles ==
    ASSUME SInv, NEW o \in Ops, NEW k, NEW pc, NEW t, NEW r, NEW p, NEW a \in BOOLEAN,
           Turns(o, k, pc, t, r, p, a), Pays(o, k, pc, t, r, p, a)
    PROVE  Kinded' /\ Sole' /\ Calm' /\ Sound' /\ Settled'
<1>1. Kinded'
  BY DEF SInv, Kinded, Turns, Pays
<1>2. Sole'
  BY DEF SInv, Sole, Turns, Pays
<1>3. Calm'
  <2> SUFFICES ASSUME inStep', NEW q \in Ops PROVE op'[q].kind \in {"none", "visit"} \/ op'[q].alone
    BY DEF Calm
  <2>1. CASE q = o  BY <2>1 DEF Turns, Pays
  <2>2. CASE q # o  BY <2>2 DEF SInv, Calm, Sole, Turns, Pays
  <2> QED BY <2>1, <2>2
<1>4. Sound'
  <2> SUFFICES ASSUME NEW q \in Ops, op'[q].alone \/ (inStep' /\ op'[q].kind # "none"),
                      NEW k1, NEW pc1, NEW t1, NEW r1, NEW p1,
                      op'[q].kind = k1, op'[q].pc = pc1, op'[q].token = t1,
                      op'[q].refresh = r1, op'[q].pass = p1
               PROVE  Owed(k1, pc1, t1, r1, p1)'
    BY DEF Sound, Owed
  <2>1. CASE q = o
    BY <2>1 DEF Turns, Pays, Owed
  <2>2. CASE q # o
    <3>1. op'[q] = op[q] /\ op[q].kind # "none"
      BY <2>2 DEF SInv, Sole, Turns
    <3>2. ~op[q].alone /\ ~op[o].alone
      BY <2>2, <3>1 DEF SInv, Sole, Pays
    <3>3. inStep /\ inStep' /\ op[q].kind = "visit" /\ op[o].kind = "visit"
      BY <2>2, <3>1, <3>2 DEF SInv, Calm, Pays
    <3>4. row'.token = row.token /\ op[q].pc \in {"get", "compare", "refill"} \cup (Steps \ {"row", "update", "set", "store", "unlook", "clear"})
      BY <3>3 DEF SInv, IInv, Shape, OpType, Kinded, Belongs, Pays
    <3>5. op[q].pc = "refill" => row.token = op[q].token
      BY <3>3 DEF SInv, Sound, Owed
    <3> QED BY <3>1, <3>4, <3>5 DEF Owed
  <2> QED BY <2>1, <2>2
<1>5. Settled'
  BY DEF Settled, Turns, Pays
<1> QED BY <1>1, <1>2, <1>3, <1>4, <1>5

\* The forms a step has.
LEMMA TurnGoto ==
    ASSUME Shape, NEW o \in Ops, NEW pc, op' = [op EXCEPT ![o].pc = pc]
    PROVE  Turns(o, op[o].kind, pc, op[o].token, op[o].refresh, op[o].pass, op[o].alone)
BY DEF Shape, OpType, Turns

LEMMA TurnStop ==
    ASSUME Shape, NEW o \in Ops, Stop(o)
    PROVE  Turns(o, "none", "idle", None, 0, 0, FALSE)
BY DEF Shape, Stop, Idle, Turns

LEMMA TurnFails ==
    ASSUME Shape, NEW o \in Ops, NEW pc, Fails(o, pc)
    PROVE  /\ Turns(o, op[o].kind, pc, op[o].token, op[o].refresh, op[o].pass, FALSE)
           /\ ~inStep'
BY DEF Shape, OpType, Fails, Turns

LEMMA TurnToken ==
    ASSUME Shape, NEW o \in Ops, NEW pc, NEW t, op' = [op EXCEPT ![o].pc = pc, ![o].token = t]
    PROVE  Turns(o, op[o].kind, pc, t, op[o].refresh, op[o].pass, op[o].alone)
BY DEF Shape, OpType, Turns

\* A request that ends, or that a failure disturbed.
LEMMA StopSettles ==
    ASSUME SInv, NEW o \in Ops, Stop(o), op[o].kind # "none",
           None \notin held'.access, now' = now, inStep' => inStep \/ op[o].alone,
           op[o].kind = "visit" => row'.token = row.token,
           inStep' => Agree' /\ Current'
    PROVE  Kinded' /\ Sole' /\ Calm' /\ Sound' /\ Settled'
<1>1. Turns(o, "none", "idle", None, 0, 0, FALSE)
  BY TurnStop DEF SInv, IInv
<1>2. Pays(o, "none", "idle", None, 0, 0, FALSE)
  BY DEF Pays, Belongs, WithToken, LoggingOut
<1> QED BY <1>1, <1>2, StepSettles

LEMMA FailSettles ==
    ASSUME SInv, NEW o \in Ops, NEW pc, Fails(o, pc), op[o].kind # "none", Belongs(op[o].kind, pc),
           pc \in WithToken => op[o].token # None,
           held' = held, now' = now, op[o].kind = "visit" => row'.token = row.token
    PROVE  Kinded' /\ Sole' /\ Calm' /\ Sound' /\ Settled'
<1>1. Turns(o, op[o].kind, pc, op[o].token, op[o].refresh, op[o].pass, FALSE) /\ ~inStep'
  BY TurnFails DEF SInv, IInv
<1>2. Pays(o, op[o].kind, pc, op[o].token, op[o].refresh, op[o].pass, FALSE)
  BY <1>1 DEF Pays, SInv, Kinded
<1> QED BY <1>1, <1>2, StepSettles

-----------------------------------------------------------------------------
(* The steps of the requests.                                                *)

\* What every step starts from.
LEMMA Before ==
    ASSUME SInv, NEW o \in Ops, op[o].pc # "idle"
    PROVE  /\ Shape /\ op[o] \in OpType /\ op[o].kind # "none" /\ op[o].alone \in BOOLEAN
           /\ Belongs(op[o].kind, op[o].pc) /\ None \notin held.access /\ now \in Nat /\ now >= 1
           /\ op[o].pc \in WithToken => op[o].token # None
           /\ inStep => op[o].kind = "visit" \/ op[o].alone
           /\ op[o].alone \/ inStep =>
                 Owed(op[o].kind, op[o].pc, op[o].token, op[o].refresh, op[o].pass)
BY DEF SInv, IInv, Shape, OpType, Kinded, Belongs, Calm, Sound

LEMMA GeneratedIsToken ==
    ASSUME SInv, NEW n PROVE GenerateToken(n) # None
<1>1. now # 0
  BY DEF SInv, IInv, Shape, Kinded
<1>2. GenerateToken(n).at = now /\ None.at = 0
  BY DEF GenerateToken, None
<1> QED BY <1>1, <1>2

\* A step that changes neither row nor keys, nor who has them.
LEMMA GotoSettles ==
    ASSUME SInv, NEW o \in Ops, NEW pc, Goto(o, pc), op[o].pc \notin {"idle", "set"},
           UNCHANGED <<row, cached, behind, opened, password, held, now, inStep>>,
           Belongs(op[o].kind, pc), pc \in WithToken => op[o].token # None,
           pc # "update", LoggingOut(op[o].kind, op[o].pc) => LoggingOut(op[o].kind, pc),
           op[o].alone \/ inStep => Owed(op[o].kind, pc, op[o].token, op[o].refresh, op[o].pass)
    PROVE  Kinded' /\ Sole' /\ Calm' /\ Sound' /\ Settled'
<1>0. PICK k, t, r, p, a : k = op[o].kind /\ t = op[o].token /\ r = op[o].refresh
                          /\ p = op[o].pass /\ a = op[o].alone
  OBVIOUS
<1>1. Turns(o, k, pc, t, r, p, a)
  BY <1>0, Before, TurnGoto DEF Goto
<1>2. inStep => Agree /\ (~LoggingOut(k, op[o].pc) => Current)
  BY <1>0, Before, Deciding
<1>3. Pays(o, k, pc, t, r, p, a)
  BY <1>0, <1>2, Before DEF Pays, Owed, Agree, Current
<1> QED BY <1>0, <1>1, <1>3, Before, StepSettles

\* One that ends and changes neither.
LEMMA EndSettles ==
    ASSUME SInv, NEW o \in Ops, Stop(o), op[o].pc \notin {"idle", "set"},
           UNCHANGED <<row, cached, behind, opened, password, held, now>>, inStep' => inStep,
           LoggingOut(op[o].kind, op[o].pc) => row.token = None
    PROVE  Kinded' /\ Sole' /\ Calm' /\ Sound' /\ Settled'
<1>1. inStep => Agree /\ Current
  BY Before, Deciding DEF Current
<1> QED BY <1>1, Before, StopSettles DEF Agree, Current

\* The middleware lets a request in.
LEMMA PassSettles ==
    ASSUME SInv, NEW o \in Ops, Passed(o), op[o].pc \in {"get", "refill"},
           UNCHANGED <<row, opened, password, held, now>>, inStep' => inStep,
           inStep' => Agree' /\ row.token # None
    PROVE  Kinded' /\ Sole' /\ Calm' /\ Sound' /\ Settled'
<1>1. op[o].token # None /\ op[o].kind \in {"visit", "logout", "rename"}
  BY Before DEF WithToken, Belongs
<1>2. inStep => Agree /\ Current
  BY Before, Deciding DEF LoggingOut
<1>3. inStep' => Agree' /\ Current' /\ row.token # None
  BY <1>1, <1>2 DEF Current
<1>4. CASE op[o].kind = "visit"
  <2>1. Stop(o)
    BY <1>4 DEF Passed
  <2> QED BY <1>3, <2>1, Before, StopSettles
<1>5. ASSUME NEW pc \in {"read", "row"}, Goto(o, pc), op[o].kind = IF pc = "read" THEN "logout" ELSE "rename"
      PROVE  Kinded' /\ Sole' /\ Calm' /\ Sound' /\ Settled'
  <2>0. PICK k, t, r, p, a : k = op[o].kind /\ t = op[o].token /\ r = op[o].refresh
                            /\ p = op[o].pass /\ a = op[o].alone
    OBVIOUS
  <2>1. Turns(o, k, pc, t, r, p, a)
    BY <1>5, <2>0, Before, TurnGoto DEF Goto
  <2>2. Pays(o, k, pc, t, r, p, a)
    BY <1>1, <1>3, <1>5, <2>0, Before DEF Pays, Owed, Belongs
  <2>3. a \in BOOLEAN
    BY <2>0, Before
  <2> QED BY ONLY SInv, o \in Ops, <2>1, <2>2, <2>3, StepSettles
<1>6. CASE op[o].kind = "logout"
  <2>1. Goto(o, "read")
    BY <1>6 DEF Passed
  <2> QED BY <1>5, <1>6, <2>1
<1>7. CASE op[o].kind = "rename"
  <2>1. Goto(o, "row")
    BY <1>7 DEF Passed
  <2> QED BY <1>5, <1>7, <2>1
<1> QED BY <1>1, <1>4, <1>6, <1>7

LEMMA CheckSettles ==
    ASSUME SInv, NEW o \in Ops, Check(o)
    PROVE  Kinded' /\ Sole' /\ Calm' /\ Sound' /\ Settled'
<1> USE DEF table, redis, key, history, env, Put
<1>1. CASE CheckCache(o)
  <2>1. op[o].pc = "get" /\ UNCHANGED <<row, cached, behind, opened, password, held, now>>
    BY <1>1 DEF CheckCache
  <2>2. CASE cached # None /\ cached = op[o].token /\ Passed(o) /\ UNCHANGED <<failures, inStep>>
    <3>1. inStep => Agree
      BY <2>1, Before, Deciding
    <3>2. inStep' => Agree' /\ row.token # None
      BY <2>1, <2>2, <3>1 DEF Agree
    <3> QED BY <2>1, <2>2, <3>2, PassSettles
  <2>3. CASE cached # None /\ cached # op[o].token /\ Stop(o) /\ UNCHANGED <<failures, inStep>>
    BY <2>1, <2>3, EndSettles DEF LoggingOut
  <2>4. CASE cached = None /\ Goto(o, "compare") /\ UNCHANGED <<failures, inStep>>
    BY <2>1, <2>4, Before, GotoSettles DEF LoggingOut, Belongs, WithToken, Owed
  <2>5. CASE Fails(o, "compare")
    BY <2>1, <2>5, Before, FailSettles DEF Belongs, WithToken
  <2> QED BY <1>1, <2>2, <2>3, <2>4, <2>5 DEF CheckCache
<1>2. CASE CheckRow(o)
  <2>1. op[o].pc = "compare" /\ UNCHANGED <<row, cached, behind, opened, password, held, now, inStep>>
    BY <1>2 DEF CheckRow
  <2>2. CASE row.token = op[o].token /\ Goto(o, "refill")
    BY <2>1, <2>2, Before, GotoSettles DEF LoggingOut, Belongs, WithToken, Owed
  <2>3. CASE Stop(o)
    BY <2>1, <2>3, EndSettles DEF LoggingOut
  <2> QED BY <1>2, <2>2, <2>3 DEF CheckRow
<1>3. CASE Refill(o)
  <2>1. op[o].pc = "refill" /\ Passed(o) /\ UNCHANGED <<row, opened, password, held, now>>
    BY <1>3 DEF Refill
  <2>2. inStep => row.token = op[o].token
    BY <2>1, Before DEF Owed
  <2>3. (cached' = op[o].token /\ inStep' = inStep) \/ ~inStep'
    BY <1>3 DEF Refill, Put
  <2>4. inStep => Agree /\ op[o].token # None
    BY <2>1, Before, Deciding DEF WithToken
  <2>5. inStep' => Agree' /\ row.token # None
    BY <2>1, <2>2, <2>3, <2>4 DEF Agree
  <2>6. inStep' => inStep
    BY <2>3
  <2> QED BY <2>1, <2>5, <2>6, PassSettles
<1> QED BY <1>1, <1>2, <1>3 DEF Check

LEMMA LoginSettles ==
    ASSUME SInv, NEW o \in Ops, Login(o)
    PROVE  Kinded' /\ Sole' /\ Calm' /\ Sound' /\ Settled'
<1> USE DEF table, redis, key, history, env, Put
<1>1. CASE LoginReads(o)
  <2>1. /\ op[o].kind = "login" /\ op[o].pc = "read"
        /\ UNCHANGED <<row, cached, behind, opened, password, held, now, inStep>>
    BY <1>1 DEF LoginReads
  <2>2. CASE op[o].pass # password
    <3>1. Stop(o)
      BY <1>1, <2>2 DEF LoginReads
    <3> QED BY <2>1, <3>1, EndSettles DEF LoggingOut
  <2>3. CASE op[o].pass = password
    <3>1. op' = [op EXCEPT ![o].pc = "row", ![o].token = GenerateToken(name), ![o].refresh = issued + 1]
      BY <1>1, <2>3 DEF LoginReads
    <3>0. PICK t, r, p, a : t = GenerateToken(name) /\ r = issued + 1 /\ p = op[o].pass /\ a = op[o].alone
      OBVIOUS
    <3>2. Turns(o, "login", "row", t, r, p, a)
      BY <2>1, <3>0, <3>1, Before DEF Shape, OpType, Turns
    <3>3. issued + 1 # 0
      BY <2>1, Before DEF Shape
    <3>4. inStep => Agree /\ Current
      BY <2>1, Before, Deciding DEF LoggingOut
    <3>5. Pays(o, "login", "row", t, r, p, a)
      BY <2>1, <2>3, <3>0, <3>3, <3>4, Before, GeneratedIsToken DEF Pays, Owed, Belongs, Agree, Current
    <3> QED BY <2>1, <3>0, <3>2, <3>5, Before, StepSettles
  <2> QED BY <2>2, <2>3
<1>2. CASE LoginStores(o)
  <2>1. /\ op[o].kind = "login" /\ op[o].pc = "row" /\ op' = [op EXCEPT ![o].pc = "set"]
        /\ row' = [token |-> op[o].token, refresh |-> op[o].refresh] /\ opened' = op[o].pass
        /\ UNCHANGED <<password, held, now, inStep>>
    BY <1>2 DEF LoginStores, Goto
  <2>0. PICK k, t, r, p, a : k = op[o].kind /\ t = op[o].token /\ r = op[o].refresh
                            /\ p = op[o].pass /\ a = op[o].alone
    OBVIOUS
  <2>2. Turns(o, k, "set", t, r, p, a)
    BY <2>0, <2>1, Before, TurnGoto
  <2>3. /\ row'.token = op[o].token /\ row'.refresh = op[o].refresh /\ op[o].token # None
        /\ op[o].alone \/ inStep => op[o].pass = password /\ op[o].refresh # 0
    BY <2>1, Before DEF Owed, WithToken
  <2>4. Pays(o, k, "set", t, r, p, a)
    BY <2>0, <2>1, <2>3, Before DEF Pays, Owed, Belongs, Current
  <2> QED BY <2>0, <2>1, <2>2, <2>4, Before, StepSettles
<1>3. CASE SetToken(o)
  <2>1. /\ op[o].pc = "set" /\ UNCHANGED <<row, opened, password, now>> /\ op[o].token # None
        /\ op[o].kind \in {"login", "rename", "refresh"}
    BY <1>3, Before DEF SetToken, Belongs, WithToken
  <2>2. /\ op[o].alone \/ inStep => row.token = op[o].token
        /\ inStep \/ (op[o].alone /\ op[o].kind = "login") => row.refresh # 0 /\ opened = password
    BY <2>1, Before DEF Owed
  <2>3. CASE op[o].kind = "login"
    <3>1. CASE Fails(o, "store") /\ held' = held
      BY <2>1, <2>3, <3>1, Before, FailSettles DEF Belongs, WithToken
    <3>2. CASE Put(op[o].token) /\ Goto(o, "store") /\ UNCHANGED <<failures, inStep, held>>
      <4>0. PICK k, t, r, p, a : k = op[o].kind /\ t = op[o].token /\ r = op[o].refresh
                                /\ p = op[o].pass /\ a = op[o].alone
        OBVIOUS
      <4>1. Turns(o, k, "store", t, r, p, a)
        BY <2>1, <3>2, <4>0, Before, TurnGoto DEF Goto
      <4>2. Pays(o, k, "store", t, r, p, a)
        BY <2>1, <2>2, <2>3, <3>2, <4>0, Before DEF Pays, Owed, Belongs, Agree, Current
      <4> QED BY <2>1, <4>0, <4>1, <4>2, Before, StepSettles
    <3> QED BY <1>3, <2>3, <3>1, <3>2 DEF SetToken
  <2>4. CASE op[o].kind # "login"
    <3>0. op[o].kind \notin {"login", "logout"}
      BY <2>1, <2>4
    <3>1. Stop(o) /\ held'.access = held.access \cup {op[o].token}
          /\ (inStep' => cached' = op[o].token /\ inStep)
      <4>1. Give(o) /\ \/ cached' = op[o].token /\ Complete(o)
                       \/ Stop(o) /\ inStep' = FALSE
        BY <1>3, <2>4 DEF SetToken
      <4>2. held'.access = held.access \cup {op[o].token}
        BY <4>1 DEF Give
      <4>3. CASE cached' = op[o].token /\ Complete(o)
        <5>1. inStep' => inStep
          BY <3>0, <4>3 DEF Complete
        <5> QED BY <4>2, <4>3, <5>1 DEF Complete
      <4> QED BY <4>1, <4>2, <4>3
    <3>2. inStep' => Agree' /\ Current'
      BY <2>1, <2>2, <3>1 DEF Agree, Current
    <3> QED BY <2>1, <3>1, <3>2, Before, StopSettles
  <2> QED BY <2>3, <2>4
<1>4. CASE SetLookup(o)
  <2>1. /\ op[o].pc = "store" /\ Stop(o) /\ UNCHANGED <<row, cached, opened, password, now>>
        /\ held'.access = held.access \cup {op[o].token} /\ op[o].token # None
        /\ inStep' => inStep \/ op[o].alone
    BY <1>4, Before DEF SetLookup, Give, Complete, WithToken
  <2>2. op[o].alone \/ inStep => /\ cached \in {None, row.token} /\ row.token # None
                                 /\ row.refresh # 0 /\ opened = password
    BY <2>1, Before DEF Owed
  <2> QED BY <2>1, <2>2, Before, StopSettles DEF Agree, Current
<1> QED BY <1>1, <1>2, <1>3, <1>4 DEF Login

LEMMA LogoutSettles ==
    ASSUME SInv, NEW o \in Ops, Logout(o)
    PROVE  Kinded' /\ Sole' /\ Calm' /\ Sound' /\ Settled'
<1> USE DEF table, redis, key, history, env, Put
<1>1. CASE LogoutReads(o)
  <2>1. /\ op[o].kind = "logout" /\ op[o].pc = "read"
        /\ UNCHANGED <<row, cached, behind, opened, password, held, now, inStep>>
    BY <1>1 DEF LogoutReads
  <2>2. CASE row.token = None /\ Stop(o)
    BY <2>1, <2>2, EndSettles
  <2>3. CASE op' = [op EXCEPT ![o].pc = "forget", ![o].refresh = row.refresh]
    <3>0. PICK t, r, p, a : t = op[o].token /\ r = row.refresh /\ p = op[o].pass /\ a = op[o].alone
      OBVIOUS
    <3>1. Turns(o, "logout", "forget", t, r, p, a)
      BY <2>1, <2>3, <3>0, Before DEF Shape, OpType, Turns
    <3>2. inStep => Agree
      BY <2>1, Before, Deciding
    <3>3. Pays(o, "logout", "forget", t, r, p, a)
      BY <2>1, <3>0, <3>2, Before DEF Pays, Owed, Belongs, Agree, LoggingOut, WithToken
    <3>4. a \in BOOLEAN
      BY <2>1, <3>0, Before
    <3> QED BY <3>1, <3>3, <3>4, StepSettles
  <2> QED BY <1>1, <2>2, <2>3 DEF LogoutReads
<1>2. ASSUME op[o].pc = "forget", Goto(o, "unlook"), cached' = None,
             UNCHANGED <<row, opened, password, held, now, inStep>>
      PROVE  Kinded' /\ Sole' /\ Calm' /\ Sound' /\ Settled'
  <2>0. PICK k, t, r, p, a : k = op[o].kind /\ t = op[o].token /\ r = op[o].refresh
                            /\ p = op[o].pass /\ a = op[o].alone
    OBVIOUS
  <2>1. Turns(o, k, "unlook", t, r, p, a)
    BY <1>2, <2>0, Before, TurnGoto DEF Goto
  <2>2. k = "logout"
    BY <1>2, <2>0, Before DEF Belongs
  <2>3. inStep => Agree
    BY <1>2, Before, Deciding
  <2>4. Pays(o, k, "unlook", t, r, p, a)
    BY <1>2, <2>0, <2>2, <2>3, Before DEF Pays, Owed, Belongs, Agree, LoggingOut, WithToken
  <2>5. a \in BOOLEAN
    BY <1>2, <2>0, Before
  <2> QED BY <2>1, <2>4, <2>5, StepSettles
<1>3. CASE LogoutForgets(o)
  <2>1. op[o].pc = "forget" /\ UNCHANGED <<row, opened, password, held, now>> /\ op[o].kind = "logout"
    BY <1>3, Before DEF LogoutForgets, Belongs
  <2>2. CASE Fails(o, "unlook")
    BY <2>1, <2>2, FailSettles DEF Belongs, WithToken
  <2>3. CASE Put(None) /\ Goto(o, "unlook") /\ UNCHANGED <<failures, inStep>>
    BY <1>2, <2>1, <2>3
  <2> QED BY <1>3, <2>2, <2>3 DEF LogoutForgets
<1>4. CASE LogoutUnlooks(o)
  <2>1. /\ op[o].pc = "unlook" /\ op[o].kind = "logout"
        /\ UNCHANGED <<row, cached, behind, opened, password, held, now>>
    BY <1>4, Before DEF LogoutUnlooks, Belongs
  <2>2. CASE Fails(o, "clear")
    BY <2>1, <2>2, FailSettles DEF Belongs, WithToken
  <2>3. CASE Goto(o, "clear") /\ UNCHANGED <<failures, inStep>>
    <3>1. op[o].alone \/ inStep => cached = None
      BY <2>1, Before DEF Owed
    <3>2. Owed(op[o].kind, "clear", op[o].token, op[o].refresh, op[o].pass) <=> cached = None
      BY DEF Owed
    <3>3. "clear" \notin WithToken /\ Belongs(op[o].kind, "clear") /\ LoggingOut(op[o].kind, "clear")
      BY <2>1 DEF WithToken, Belongs, LoggingOut
    <3> QED BY <2>1, <2>3, <3>1, <3>2, <3>3, GotoSettles
  <2> QED BY <1>4, <2>2, <2>3 DEF LogoutUnlooks
<1>5. CASE LogoutClears(o)
  <2>1. /\ op[o].pc = "clear" /\ op[o].kind = "logout" /\ row' = [token |-> None, refresh |-> 0]
        /\ Stop(o) /\ UNCHANGED <<cached, behind, opened, password, held, now>>
        /\ inStep' => inStep \/ op[o].alone
    BY <1>5, Before DEF LogoutClears, Belongs, Complete
  <2>2. op[o].alone \/ inStep => cached = None
    BY <2>1, Before DEF Owed
  <2>3. row'.token = None /\ row'.refresh = 0
    BY <2>1
  <2>4. inStep' => Agree' /\ Current'
    BY <2>1, <2>2, <2>3 DEF Agree, Current
  <2> QED BY <2>1, <2>4, Before, StopSettles
<1> QED BY <1>1, <1>3, <1>4, <1>5 DEF Logout

LEMMA ChangeSettles ==
    ASSUME SInv, NEW o \in Ops, Change(o)
    PROVE  Kinded' /\ Sole' /\ Calm' /\ Sound' /\ Settled'
<1> USE DEF table, redis, key, history, env, Put
<1>1. CASE RenameStores(o)
  <2>1. /\ op[o].kind = "rename" /\ op[o].pc = "row"
        /\ UNCHANGED <<cached, behind, opened, password, held, now, inStep>>
    BY <1>1 DEF RenameStores
  <2>2. CASE Stop(o) /\ row' = row
    BY <2>1, <2>2, EndSettles DEF LoggingOut
  <2>3. ASSUME NEW n, row' = [row EXCEPT !.token = GenerateToken(n)],
               op' = [op EXCEPT ![o].pc = "set", ![o].token = GenerateToken(n)]
        PROVE  Kinded' /\ Sole' /\ Calm' /\ Sound' /\ Settled'
    <3>0. PICK t, r, p, a : t = GenerateToken(n) /\ r = op[o].refresh /\ p = op[o].pass /\ a = op[o].alone
      OBVIOUS
    <3>1. Turns(o, "rename", "set", t, r, p, a)
      BY <2>1, <2>3, <3>0, Before, TurnToken
    <3>2. row'.token = t /\ row'.refresh = row.refresh /\ t # None
      BY <2>1, <2>3, <3>0, Before, GeneratedIsToken DEF Shape
    <3>3. inStep => row.refresh # 0 /\ opened = password
      <4>1. inStep => Agree /\ Current
        BY <2>1, Before, Deciding DEF LoggingOut
      <4>2. inStep => row.token # None
        BY <2>1, Before DEF Owed
      <4> QED BY <4>1, <4>2 DEF Agree, Current
    <3>4. Pays(o, "rename", "set", t, r, p, a)
      BY <2>1, <3>0, <3>2, <3>3, Before DEF Pays, Owed, Belongs, Current
    <3>5. a \in BOOLEAN
      BY <2>1, <3>0, Before
    <3> QED BY <3>1, <3>4, <3>5, StepSettles
  <2> QED BY <1>1, <2>2, <2>3 DEF RenameStores
<1>2. CASE ChangeReads(o)
  <2>1. /\ op[o].kind = "change" /\ op[o].pc = "read"
        /\ UNCHANGED <<row, cached, behind, opened, password, held, now, inStep>>
    BY <1>2 DEF ChangeReads
  <2>2. CASE Stop(o)
    BY <2>1, <2>2, EndSettles DEF LoggingOut
  <2>3. CASE Goto(o, "password")
    <3>1. Owed(op[o].kind, "password", op[o].token, op[o].refresh, op[o].pass)
      BY DEF Owed
    <3>2. "password" \notin WithToken /\ Belongs(op[o].kind, "password") /\ ~LoggingOut(op[o].kind, op[o].pc)
      BY <2>1 DEF WithToken, Belongs, LoggingOut
    <3> QED BY <2>1, <2>3, <3>1, <3>2, GotoSettles
  <2> QED BY <1>2, <2>2, <2>3 DEF ChangeReads
<1>3. CASE ChangePassword(o)
  <2>1. /\ op[o].pc = "password" /\ op[o].kind = "change"
        /\ op' = [op EXCEPT ![o].kind = "logout", ![o].pc = "read"]
        /\ UNCHANGED <<row, cached, behind, opened, held, now, inStep>>
    BY <1>3, Before DEF ChangePassword, Belongs
  <2>0. PICK t, r, p, a : t = op[o].token /\ r = op[o].refresh /\ p = op[o].pass /\ a = op[o].alone
    OBVIOUS
  <2>2. Turns(o, "logout", "read", t, r, p, a)
    BY <2>0, <2>1, Before DEF Shape, OpType, Turns
  <2>3. inStep => Agree
    BY <2>1, Before, Deciding
  <2>4. Pays(o, "logout", "read", t, r, p, a)
    BY <2>0, <2>1, <2>3, Before DEF Pays, Owed, Belongs, Agree, LoggingOut, WithToken
  <2>5. a \in BOOLEAN
    BY <2>0, <2>1, Before
  <2> QED BY <2>2, <2>4, <2>5, StepSettles
<1> QED BY <1>1, <1>2, <1>3 DEF Change

LEMMA RefreshSettles ==
    ASSUME SInv, NEW o \in Ops, Refresh(o)
    PROVE  Kinded' /\ Sole' /\ Calm' /\ Sound' /\ Settled'
<1> USE DEF table, redis, key, history, env, Put
<1>1. CASE RefreshLooks(o)
  <2>1. /\ op[o].pc = "look" /\ op[o].kind = "refresh"
        /\ UNCHANGED <<row, cached, behind, opened, password, held, now>>
    BY <1>1, Before DEF RefreshLooks, Belongs
  <2>2. CASE Fails(o, "scan")
    BY <2>1, <2>2, FailSettles DEF Belongs, WithToken
  <2>3. ASSUME NEW pc \in {"verify", "scan"}, Goto(o, pc), UNCHANGED inStep
        PROVE  Kinded' /\ Sole' /\ Calm' /\ Sound' /\ Settled'
    <3>1. Owed(op[o].kind, pc, op[o].token, op[o].refresh, op[o].pass)
      BY DEF Owed
    <3>2. pc \notin WithToken /\ Belongs(op[o].kind, pc) /\ ~LoggingOut(op[o].kind, op[o].pc)
      BY <2>1 DEF WithToken, Belongs, LoggingOut
    <3> QED BY <2>1, <2>3, <3>1, <3>2, GotoSettles
  <2> QED BY <1>1, <2>2, <2>3 DEF RefreshLooks
<1>2. ASSUME NEW pc \in {"update", "row"}, op[o].kind = "refresh", op[o].pc \in {"verify", "scan"},
             op' = [op EXCEPT ![o].pc = pc, ![o].token = GenerateToken(name)],
             row.refresh = op[o].refresh, UNCHANGED <<row, cached, behind, opened, password, held, now, inStep>>
      PROVE  Kinded' /\ Sole' /\ Calm' /\ Sound' /\ Settled'
  <2>0. PICK t, r, p, a : t = GenerateToken(name) /\ r = op[o].refresh /\ p = op[o].pass /\ a = op[o].alone
    OBVIOUS
  <2>1. Turns(o, "refresh", pc, t, r, p, a)
    BY <1>2, <2>0, Before, TurnToken
  <2>2. row.refresh # 0 /\ t # None
    BY <1>2, <2>0, Before, GeneratedIsToken DEF SInv, IInv, Presented, Shape
  <2>3. inStep => Agree /\ Current
    BY <1>2, Before, Deciding DEF LoggingOut
  <2>4. Pays(o, "refresh", pc, t, r, p, a)
    BY <1>2, <2>0, <2>2, <2>3, Before DEF Pays, Owed, Belongs, Agree, Current
  <2>5. a \in BOOLEAN
    BY <1>2, <2>0, Before
  <2> QED BY <2>1, <2>4, <2>5, StepSettles
<1>3. CASE RefreshVerifies(o)
  <2>1. /\ op[o].pc = "verify" /\ op[o].kind = "refresh"
        /\ UNCHANGED <<row, cached, behind, opened, password, held, now, inStep>>
    BY <1>3, Before DEF RefreshVerifies, Belongs
  <2>2. CASE row.refresh = op[o].refresh
    BY <1>2, <1>3, <2>1, <2>2 DEF RefreshVerifies
  <2>3. CASE row.refresh # op[o].refresh
    <3>1. Goto(o, "scan")
      BY <1>3, <2>3 DEF RefreshVerifies
    <3>2. Owed(op[o].kind, "scan", op[o].token, op[o].refresh, op[o].pass)
      BY DEF Owed
    <3>3. "scan" \notin WithToken /\ Belongs(op[o].kind, "scan") /\ ~LoggingOut(op[o].kind, op[o].pc)
      BY <2>1 DEF WithToken, Belongs, LoggingOut
    <3> QED BY <2>1, <3>1, <3>2, <3>3, GotoSettles
  <2> QED BY <2>2, <2>3
<1>4. CASE RefreshScans(o)
  <2>1. /\ op[o].pc = "scan" /\ op[o].kind = "refresh"
        /\ UNCHANGED <<row, cached, behind, opened, password, held, now, inStep>>
    BY <1>4, Before DEF RefreshScans, Belongs
  <2>2. CASE row.refresh = op[o].refresh
    BY <1>2, <1>4, <2>1, <2>2 DEF RefreshScans
  <2>3. CASE row.refresh # op[o].refresh
    BY <1>4, <2>1, <2>3, EndSettles DEF RefreshScans, LoggingOut
  <2> QED BY <2>2, <2>3
<1>5. CASE RefreshStores(o)
  <2>1. /\ op[o].pc = "update" /\ op[o].kind = "refresh" /\ op[o].token # None
        /\ UNCHANGED <<cached, behind, opened, password, held, now>>
    BY <1>5, Before DEF RefreshStores, Belongs, WithToken
  <2>2. CASE Fails(o, "set")
    BY <2>1, <2>2, FailSettles DEF Belongs
  <2>3. CASE row' = [row EXCEPT !.token = op[o].token] /\ Goto(o, "set") /\ UNCHANGED inStep
    <3>0. PICK t, r, p, a : t = op[o].token /\ r = op[o].refresh /\ p = op[o].pass /\ a = op[o].alone
      OBVIOUS
    <3>1. Turns(o, "refresh", "set", t, r, p, a)
      BY <2>1, <2>3, <3>0, Before, TurnGoto DEF Goto
    <3>2. row'.token = t /\ row'.refresh = row.refresh
      BY <2>1, <2>3, <3>0, Before DEF Shape
    <3>3. inStep => row.refresh # 0 /\ opened = password
      <4>1. inStep => Agree /\ Current
        BY <2>1, Before, Deciding DEF LoggingOut
      <4>2. inStep => row.refresh # 0
        BY <2>1, Before DEF Owed
      <4> QED BY <4>1, <4>2 DEF Agree, Current
    <3>4. Pays(o, "refresh", "set", t, r, p, a)
      BY <2>1, <2>3, <3>0, <3>2, <3>3, Before DEF Pays, Owed, Belongs, Current
    <3>5. a \in BOOLEAN
      BY <2>1, <3>0, Before
    <3> QED BY <3>1, <3>4, <3>5, StepSettles
  <2> QED BY <1>5, <2>2, <2>3 DEF RefreshStores
<1>6. CASE RefreshStoresOnly(o)
  <2>1. /\ op[o].pc = "row" /\ op[o].kind = "refresh" /\ op[o].token # None /\ Stop(o)
        /\ held'.access = held.access \cup {op[o].token}
        /\ UNCHANGED <<cached, opened, password, now>>
    BY <1>6, Before DEF RefreshStoresOnly, Give, WithToken
  <2>2. CASE ~inStep'
    BY <2>1, <2>2, Before, StopSettles
  <2>3. CASE row' = [row EXCEPT !.token = op[o].token] /\ behind' = behind \cup {row.token} /\ inStep' = inStep
    <3>1. row'.token = op[o].token /\ row'.refresh = row.refresh
      BY <2>1, <2>3, Before DEF Shape
    <3>2. inStep => Agree /\ Current /\ row.refresh # 0
      BY <2>1, Before, Deciding DEF LoggingOut, Owed
    <3>3. inStep' => Agree' /\ Current'
      BY <2>1, <2>3, <3>1, <3>2 DEF Agree, Current
    <3> QED BY <2>1, <2>3, <3>3, Before, StopSettles
  <2> QED BY <1>6, <2>2, <2>3 DEF RefreshStoresOnly
<1> QED BY <1>1, <1>3, <1>4, <1>5, <1>6 DEF Refresh

-----------------------------------------------------------------------------
(* The beginning of a request, the clock and the keys.                       *)

LEMMA BeginSettles ==
    ASSUME SInv, NEW o \in Ops, NEW k \in Kinds, NEW pc \in {"get", "read", "look"}, NEW t, NEW r, NEW p,
           Begin(o, k, pc, t, r, p), Belongs(k, pc), pc = "get" => t # None, k = "logout" => pc = "get"
    PROVE  Kinded' /\ Sole' /\ Calm' /\ Sound' /\ Settled'
<1>1. /\ op[o] = Idle /\ op[o].kind = "none" /\ op[o].pc = "idle"
      /\ UNCHANGED <<row, cached, behind, opened, password, held, now>>
      /\ k # "none"
  BY DEF Begin, Idle, table, redis, key, Kinds
<1>2. /\ op'[o].kind = k /\ op'[o].pc = pc /\ op'[o].token = t /\ op'[o].alone = (Busy = {})
      /\ op'[o].refresh = r /\ op'[o].pass = p
  BY DEF Begin
<1>3. ASSUME NEW q \in Ops \ {o}
      PROVE  /\ op'[q].kind = op[q].kind /\ op'[q].pc = op[q].pc /\ op'[q].token = op[q].token
             /\ op'[q].refresh = op[q].refresh /\ op'[q].pass = op[q].pass /\ op'[q].alone = FALSE
  <2>1. op[q] \in OpType
    BY DEF SInv, IInv, Shape
  <2>2. op'[q] = [op[q] EXCEPT !.alone = FALSE]
    BY DEF Begin
  <2> QED BY <2>1, <2>2 DEF OpType
<1>4. inStep' => inStep /\ (\/ Busy = {}
                            \/ k = "visit" /\ \A q \in Busy : op[q].kind = "visit")
  BY DEF Begin
<1>5. Kinded'
  <2>1. None \notin held'.access /\ now' >= 1
    BY <1>1 DEF SInv, Kinded
  <2>2. ASSUME NEW q \in Ops
        PROVE  Belongs(op'[q].kind, op'[q].pc) /\ (op'[q].pc \in WithToken => op'[q].token # None)
    <3>1. CASE q = o
      BY <1>2, <3>1 DEF WithToken
    <3>2. CASE q # o
      BY <1>3, <3>2 DEF SInv, Kinded
    <3> QED BY <3>1, <3>2
  <2> QED BY <2>1, <2>2 DEF Kinded
<1>6. Sole'
  <2> SUFFICES ASSUME NEW q \in Ops, op'[q].alone
               PROVE  op'[q].kind # "none" /\ \A s \in Ops \ {q} : op'[s].kind = "none"
    BY DEF Sole
  <2>1. q = o
    BY <1>3
  <2>2. Busy = {}
    BY <1>2, <2>1
  <2>3. \A s \in Ops : op[s].kind = "none"
    BY <2>2 DEF Busy
  <2>4. op'[q].kind # "none"
    BY <1>1, <1>2, <2>1
  <2>5. \A s \in Ops \ {q} : op'[s].kind = op[s].kind
    BY <1>3, <2>1
  <2> QED BY <2>3, <2>4, <2>5
<1>7. Calm'
  BY <1>2, <1>3, <1>4 DEF Calm, Busy
<1>8. Sound'
  <2> SUFFICES ASSUME NEW q \in Ops, op'[q].alone \/ (inStep' /\ op'[q].kind # "none"),
                      NEW k1, NEW pc1, NEW t1, NEW r1, NEW p1,
                      op'[q].kind = k1, op'[q].pc = pc1, op'[q].token = t1,
                      op'[q].refresh = r1, op'[q].pass = p1
               PROVE  Owed(k1, pc1, t1, r1, p1)'
    BY DEF Sound, Owed
  <2>1. CASE q = o
    BY <1>2, <2>1 DEF Owed
  <2>2. CASE q # o
    <3>1. inStep' /\ inStep /\ op[q].kind # "none"
      BY <1>3, <1>4, <2>2
    <3>2. Owed(k1, pc1, t1, r1, p1)
      BY <1>3, <2>2, <3>1 DEF SInv, Sound
    <3> QED BY <1>1, <3>1, <3>2 DEF Owed
  <2> QED BY <2>1, <2>2
<1>9. Settled'
  <2> SUFFICES ASSUME inStep' PROVE Agree' /\ Current'
    BY DEF Settled
  <2>1. inStep /\ \A q \in Ops : op[q].kind \in {"none", "visit"}
    BY <1>4 DEF Busy
  <2>2. \A q \in Ops : op[q].pc # "set" /\ ~LoggingOut(op[q].kind, op[q].pc)
    BY <2>1 DEF SInv, Kinded, Belongs, LoggingOut
  <2>3. Agree /\ Current
    BY <2>1, <2>2 DEF SInv, Settled
  <2> QED BY <1>1, <2>3 DEF Agree, Current
<1> QED BY <1>5, <1>6, <1>7, <1>8, <1>9

LEMMA ArriveSettles ==
    ASSUME SInv, NEW o \in Ops, Arrive(o)
    PROVE  Kinded' /\ Sole' /\ Calm' /\ Sound' /\ Settled'
<1>1. CASE Authorize(o)
  <2>1. PICK k \in {"visit", "logout", "rename"}, t \in held.access : Begin(o, k, "get", t, 0, 0)
    BY <1>1 DEF Authorize
  <2>2. k \in Kinds /\ Belongs(k, "get") /\ t # None
    BY DEF Kinds, Belongs, SInv, Kinded
  <2> QED BY <2>1, <2>2, BeginSettles
<1>2. CASE BeginLogin(o)
  <2>1. PICK p \in 0 .. password : Begin(o, "login", "read", None, 0, p)
    BY <1>2 DEF BeginLogin
  <2>2. "login" \in Kinds /\ Belongs("login", "read")
    BY DEF Kinds, Belongs
  <2> QED BY <2>1, <2>2, BeginSettles
<1>3. CASE BeginChange(o)
  <2>1. "change" \in Kinds /\ Belongs("change", "read")
    BY DEF Kinds, Belongs
  <2> QED BY <1>3, <2>1, BeginSettles DEF BeginChange
<1>4. CASE BeginRefresh(o)
  <2>1. PICK r \in held.refresh : Begin(o, "refresh", "look", None, r, 0)
    BY <1>4 DEF BeginRefresh
  <2>2. "refresh" \in Kinds /\ Belongs("refresh", "look")
    BY DEF Kinds, Belongs
  <2> QED BY <2>1, <2>2, BeginSettles
<1> QED BY <1>1, <1>2, <1>3, <1>4 DEF Arrive

LEMMA ElseSettles ==
    ASSUME SInv, Lose \/ Tick \/ UNCHANGED vars
    PROVE  Kinded' /\ Sole' /\ Calm' /\ Sound' /\ Settled'
<1>1. /\ UNCHANGED <<row, op, opened, password, held, inStep>>
      /\ (cached' = None \/ UNCHANGED <<cached, behind>>) /\ now' \in {now, now + 1}
  BY DEF Lose, Put, Tick, vars, table, redis, key, history
<1>2. now' >= 1
  BY <1>1 DEF SInv, IInv, Shape, Kinded
<1>3. Kinded' /\ Sole' /\ Calm'
  BY <1>1, <1>2 DEF SInv, Kinded, Sole, Calm
<1>4. Agree => Agree'
  BY <1>1 DEF Agree
<1>5. Settled'
  BY <1>1, <1>4 DEF SInv, Settled, Current
<1>6. Sound'
  BY <1>1 DEF SInv, Sound, Owed
<1> QED BY <1>3, <1>5, <1>6

LEMMA SInvInit == ASSUME Init PROVE SInv
<1>1. \A o \in Ops : op[o] = Idle
  BY DEF Init
<1>2. IInv
  BY <1>1, InitShape DEF Init, IInv, Fresh, Presented, Unwritten, RevokedRefreshIsDead, Idle
<1>3. Kinded
  BY <1>1 DEF Init, Kinded, Idle, Belongs, WithToken
<1>4. Sole /\ Calm /\ Sound
  BY <1>1 DEF Sole, Calm, Sound, Idle
<1>5. Settled
  BY DEF Init, Settled, Agree, Current
<1> QED BY <1>2, <1>3, <1>4, <1>5 DEF SInv

LEMMA SInvKept == ASSUME SInv, [Next]_vars PROVE SInv'
<1>1. IInv'
  BY IInvKept DEF SInv
<1>2. ASSUME NEW o \in Ops, Arrive(o) \/ Check(o) \/ Login(o) \/ Logout(o) \/ Refresh(o) \/ Change(o)
      PROVE  Kinded' /\ Sole' /\ Calm' /\ Sound' /\ Settled'
  BY <1>2, ArriveSettles, CheckSettles, LoginSettles, LogoutSettles, RefreshSettles, ChangeSettles
<1>3. Kinded' /\ Sole' /\ Calm' /\ Sound' /\ Settled'
  BY <1>2, ElseSettles DEF Next
<1> QED BY <1>1, <1>3 DEF SInv

\* What row, keys and requests are to one another, whatever runs side by side
\* and whatever fails.
THEOREM SessionInvariant == Spec => []SInv
<1>1. Init => SInv
  BY SInvInit
<1>2. SInv /\ [Next]_vars => SInv'
  BY SInvKept
<1> QED BY <1>1, <1>2, PTL DEF Spec

\* Where nothing ran side by side and nothing failed since a login or logout
\* last ran undisturbed, the key account:<id> is missing or holds the row's
\* token or one that a refresh without its key has since replaced in the row
\* alone, whichever way the requests ended and however often the key expired.
THEOREM CacheAgreesHolds == Spec => []CacheAgrees
<1>1. SInv => CacheAgrees
  <2> SUFFICES ASSUME SInv, inStep, Busy = {}
               PROVE  /\ cached \in {None, row.token} \cup behind
                      /\ cached # None => row.token # None
                      /\ (row.token = None) = (row.refresh = 0)
    BY DEF CacheAgrees
  <2>1. \A o \in Ops : op[o].pc = "idle"
    BY DEF SInv, Kinded, Belongs, Busy
  <2>2. Agree
    BY <2>1 DEF SInv, Settled
  <2> QED BY <2>2 DEF Agree
<1> QED BY <1>1, SessionInvariant, PTL

\* A session that is open, where nothing ran side by side and nothing failed,
\* was opened with the present password: to change it ends the others.
THEOREM OldPasswordHolds == Spec => []OldPasswordIsOut
<1>1. SInv => OldPasswordIsOut
  <2> SUFFICES ASSUME SInv, inStep, Busy = {}, row.token # None PROVE opened = password
    BY DEF OldPasswordIsOut
  <2>1. \A o \in Ops : ~LoggingOut(op[o].kind, op[o].pc)
    BY DEF Busy, LoggingOut
  <2>2. Current
    BY <2>1 DEF SInv, Settled
  <2> QED BY <2>2 DEF Current
<1> QED BY <1>1, SessionInvariant, PTL

-----------------------------------------------------------------------------
(* The counters.                                                             *)

\* Logins that may yet have a refresh token generated, requests that may yet
\* change the password, and the requests begun that leave room for them.
Reading  == {o \in Ops : op[o].kind = "login" /\ op[o].pc = "read"}
Changing == {o \in Ops : op[o].kind = "change"}
Covers(s, S, n) == IsFiniteSet(S) /\ Cardinality(S) + n <= s

HasToken(k, pc) == k = "login" /\ pc \in {"row", "set", "store"}

Ranged ==
    /\ started \in 0 .. MaxOps /\ failures \in 0 .. MaxFailures /\ losses \in 0 .. MaxLosses
    /\ inStep \in BOOLEAN /\ cached \in Tokens /\ behind \subseteq Tokens
    /\ lookup \subseteq 1 .. issued
    /\ opened \in 0 .. password /\ \A o \in Ops : op[o].pass <= password
    /\ \A o \in Ops : HasToken(op[o].kind, op[o].pc) => op[o].refresh # 0
    /\ Covers(started, Reading, issued) /\ Covers(started, Changing, password)

\* A set of requests that loses one, loses one to the counter, or gets one.
LEMMA Covering ==
    ASSUME NEW s \in Nat, NEW S, NEW n \in Nat, Covers(s, S, n), NEW o, NEW T
    PROVE  /\ T \subseteq S => Covers(s, T, n) /\ Covers(s + 1, T, n)
           /\ T \subseteq S \ {o} /\ o \in S => Covers(s, T, n + 1)
           /\ T = S \cup {o} => Covers(s + 1, T, n)
<1>1. IsFiniteSet(S) /\ Cardinality(S) \in Nat /\ Cardinality(S) + n <= s
  BY FS_CardinalityType DEF Covers
<1>2. ASSUME NEW U, U \subseteq S
      PROVE  IsFiniteSet(U) /\ Cardinality(U) \in Nat /\ Cardinality(U) <= Cardinality(S)
  BY <1>1, <1>2, FS_Subset, FS_CardinalityType
<1>3. ASSUME T \subseteq S PROVE Covers(s, T, n) /\ Covers(s + 1, T, n)
  <2>1. IsFiniteSet(T) /\ Cardinality(T) \in Nat /\ Cardinality(T) <= Cardinality(S)
    BY <1>2, <1>3
  <2> QED BY <1>1, <2>1 DEF Covers
<1>4. ASSUME T \subseteq S \ {o}, o \in S PROVE Covers(s, T, n + 1)
  <2>1. IsFiniteSet(S \ {o}) /\ Cardinality(S \ {o}) = Cardinality(S) - 1
    BY <1>1, <1>4, FS_RemoveElement
  <2>2. IsFiniteSet(T) /\ Cardinality(T) \in Nat /\ Cardinality(T) <= Cardinality(S \ {o})
    BY <1>4, <2>1, FS_Subset, FS_CardinalityType
  <2> QED BY <1>1, <2>1, <2>2 DEF Covers
<1>5. ASSUME T = S \cup {o} PROVE Covers(s + 1, T, n)
  <2>1. IsFiniteSet(T) /\ Cardinality(T) = IF o \in S THEN Cardinality(S) ELSE Cardinality(S) + 1
    BY <1>1, <1>5, FS_AddElement
  <2> QED BY <1>1, <2>1 DEF Covers
<1> QED BY <1>3, <1>4, <1>5

\* What a step of the request o makes of it, and of what is counted.
Orderly(o) ==
    /\ \A p \in Ops \ {o} : op'[p] = op[p]
    /\ op'[o].pass \in {op[o].pass, 0} /\ op'[o].kind \in {op[o].kind, "none", "logout"}
    /\ op'[o].pc = "read" => op'[o].kind = "logout"
    /\ HasToken(op'[o].kind, op'[o].pc) => op'[o].refresh # 0

Counting(o) ==
    /\ Orderly(o)
    /\ issued' = issued \/ (o \in Reading /\ issued' = issued + 1)
    /\ password' = password \/ (o \in Changing /\ op'[o].kind = "logout" /\ password' = password + 1)
    /\ opened' \in {opened, op[o].pass} /\ cached' \in {cached, None, op[o].token}
    /\ behind' \subseteq behind \cup {row.token}
    /\ lookup' \subseteq lookup \/ (op[o].pc = "store" /\ lookup' = lookup \cup {op[o].refresh})
    /\ failures' = failures \/ (failures < MaxFailures /\ failures' = failures + 1)
    /\ started' = started /\ losses' = losses /\ inStep' \in BOOLEAN

LEMMA CountingKeeps ==
    ASSUME SInv, Ranged, Shape', NEW o \in Ops, op[o].pc # "idle", Counting(o)
    PROVE  Ranged'
<1>1. started \in Nat /\ issued \in Nat /\ password \in Nat /\ op[o] \in OpType
      /\ issued' \in Nat /\ password' \in Nat /\ issued <= issued' /\ password <= password'
  BY Bounds DEF SInv, IInv, Shape, Ranged, Counting, Orderly
<1>2. started' \in 0 .. MaxOps /\ failures' \in 0 .. MaxFailures /\ losses' \in 0 .. MaxLosses
  BY Bounds DEF Ranged, Counting, Orderly
<1>3. inStep' \in BOOLEAN /\ cached' \in Tokens /\ behind' \subseteq Tokens
  <2>1. row.token \in Tokens
    BY DEF SInv, IInv, Shape
  <2> QED BY <1>1, <2>1, NoneIsAccess DEF Ranged, Counting, Orderly, OpType
<1>4. lookup' \subseteq 1 .. issued'
  <2>1. 1 .. issued \subseteq 1 .. issued'
    BY <1>1
  <2>2. op[o].pc = "store" => op[o].refresh \in 1 .. issued
    <3>1. op[o].pc = "store" => op[o].refresh # 0
      BY DEF SInv, Kinded, Belongs, Ranged, HasToken
    <3> QED BY <1>1, <3>1 DEF OpType
  <2> QED BY <2>1, <2>2 DEF Ranged, Counting, Orderly
<1>5. opened' \in 0 .. password'
  <2>1. op[o].pass \in Nat /\ op[o].pass <= password /\ opened \in 0 .. password
    BY <1>1 DEF Ranged, OpType
  <2>2. opened' = opened \/ opened' = op[o].pass
    BY DEF Counting, Orderly
  <2> QED BY <1>1, <2>1, <2>2
<1>6. \A p \in Ops : op'[p].pass <= password'
  <2>1. \A p \in Ops : op[p].pass \in Nat /\ op[p].pass <= password
    BY DEF SInv, IInv, Shape, OpType, Ranged
  <2>2. \A p \in Ops : op'[p].pass = op[p].pass \/ op'[p].pass = 0
    BY DEF Counting, Orderly
  <2> QED BY <1>1, <2>1, <2>2
<1>7. \A p \in Ops : HasToken(op'[p].kind, op'[p].pc) => op'[p].refresh # 0
  BY DEF Ranged, Counting, Orderly
<1>8. PICK R, C, s, n, k : R = Reading /\ C = Changing /\ s = started /\ n = issued /\ k = password
  OBVIOUS
<1>9. PICK R1, C1 : R1 = {p \in Ops : op'[p].kind = "login" /\ op'[p].pc = "read"}
                    /\ C1 = {p \in Ops : op'[p].kind = "change"}
  OBVIOUS
<1>10. Covers(s, R, n) /\ Covers(s, C, k) /\ s \in Nat /\ n \in Nat /\ k \in Nat
  BY <1>1, <1>8 DEF Ranged
<1>11. R1 \subseteq R \ {o} /\ C1 \subseteq C /\ (op'[o].kind = "logout" => C1 \subseteq C \ {o})
  BY <1>8, <1>9 DEF Counting, Orderly, Reading, Changing
<1>12. Covers(s, R1, issued')
  <2>1. CASE issued' = issued
    BY <1>8, <1>10, <1>11, <2>1, Covering
  <2>2. CASE o \in Reading /\ issued' = issued + 1
    BY <1>8, <1>10, <1>11, <2>2, Covering
  <2> QED BY <2>1, <2>2 DEF Counting, Orderly
<1>13. Covers(s, C1, password')
  <2>1. CASE password' = password
    BY <1>8, <1>10, <1>11, <2>1, Covering
  <2>2. CASE o \in Changing /\ op'[o].kind = "logout" /\ password' = password + 1
    BY <1>8, <1>10, <1>11, <2>2, Covering
  <2> QED BY <2>1, <2>2 DEF Counting, Orderly
<1>14. Reading' = R1 /\ Changing' = C1 /\ started' = s
  BY <1>8, <1>9 DEF Reading, Changing, Counting, Orderly
<1> QED BY <1>2, <1>3, <1>4, <1>5, <1>6, <1>7, <1>12, <1>13, <1>14 DEF Ranged

\* A request begins.
LEMMA BeginKeeps ==
    ASSUME SInv, Ranged, NEW o \in Ops, NEW k \in Kinds, NEW pc, NEW t, NEW r, NEW p \in Nat,
           Begin(o, k, pc, t, r, p), p <= password, ~HasToken(k, pc)
    PROVE  Ranged'
<1>1. /\ op[o] = Idle /\ started < MaxOps /\ started' = started + 1
      /\ UNCHANGED <<password, cached, behind, lookup, issued, failures, losses, opened>>
  BY DEF Begin, table, redis, key
<1>2. started \in Nat /\ issued \in Nat /\ password \in Nat /\ started' \in 0 .. MaxOps
  BY <1>1, Bounds DEF SInv, IInv, Shape, Ranged
<1>3. inStep' \in BOOLEAN
  <2>1. inStep' = (inStep /\ (\/ Busy = {}
                              \/ \A x \in Busy : op[x].kind = "visit" /\ k = "visit"))
    BY DEF Begin
  <2> QED BY <2>1, Zenon
<1>4. op'[o].kind = k /\ op'[o].pc = pc /\ op'[o].pass = p
  BY DEF Begin
<1>5. ASSUME NEW q \in Ops \ {o}
      PROVE  /\ op'[q].kind = op[q].kind /\ op'[q].pc = op[q].pc
             /\ op'[q].refresh = op[q].refresh /\ op'[q].pass = op[q].pass
  <2>1. op[q] \in OpType
    BY DEF SInv, IInv, Shape
  <2>2. op'[q] = [op[q] EXCEPT !.alone = FALSE]
    BY DEF Begin
  <2> QED BY <2>1, <2>2 DEF OpType
<1>6. \A q \in Ops : op'[q].pass <= password'
  <2>1. \A q \in Ops : op[q].pass <= password
    BY DEF Ranged
  <2> QED BY <1>1, <1>4, <1>5, <2>1
<1>7. \A q \in Ops : HasToken(op'[q].kind, op'[q].pc) => op'[q].refresh # 0
  BY <1>4, <1>5 DEF Ranged
<1>8. PICK R, C, s, n, m : R = Reading /\ C = Changing /\ s = started /\ n = issued /\ m = password
  OBVIOUS
<1>9. PICK R1, C1 : R1 = {q \in Ops : op'[q].kind = "login" /\ op'[q].pc = "read"}
                    /\ C1 = {q \in Ops : op'[q].kind = "change"}
  OBVIOUS
<1>10. Covers(s, R, n) /\ Covers(s, C, m) /\ s \in Nat /\ n \in Nat /\ m \in Nat
  BY <1>2, <1>8 DEF Ranged
<1>11. (R1 \subseteq R \/ R1 = R \cup {o}) /\ (C1 \subseteq C \/ C1 = C \cup {o})
  <2>1. R \subseteq R1 \cup {o} /\ R1 \subseteq R \cup {o} /\ C \subseteq C1 \cup {o} /\ C1 \subseteq C \cup {o}
    BY <1>5, <1>8, <1>9 DEF Reading, Changing
  <2>2. o \notin R /\ o \notin C
    BY <1>1, <1>8 DEF Reading, Changing, Idle
  <2> QED BY <2>1, <2>2
<1>12. Covers(s + 1, R1, n) /\ Covers(s + 1, C1, m)
  BY <1>10, <1>11, Covering
<1>13. Reading' = R1 /\ Changing' = C1 /\ started' = s + 1
  BY <1>1, <1>8, <1>9 DEF Reading, Changing
<1> QED BY <1>1, <1>2, <1>3, <1>6, <1>7, <1>8, <1>12, <1>13 DEF Ranged

\* The forms a step has.
LEMMA TurnOrderly ==
    ASSUME NEW o \in Ops, NEW k, NEW pc, NEW t, NEW r, NEW p, NEW a, Turns(o, k, pc, t, r, p, a),
           k \in {op[o].kind, "none", "logout"}, p \in {op[o].pass, 0},
           pc = "read" => k = "logout", HasToken(k, pc) => r # 0
    PROVE  Orderly(o)
BY DEF Turns, Orderly

LEMMA GotoOrderly ==
    ASSUME Shape, NEW o \in Ops, NEW pc, op' = [op EXCEPT ![o].pc = pc],
           pc = "read" => op[o].kind = "logout", HasToken(op[o].kind, pc) => op[o].refresh # 0
    PROVE  Orderly(o)
BY TurnGoto, TurnOrderly

LEMMA StopOrderly ==
    ASSUME Shape, NEW o \in Ops, Stop(o)
    PROVE  Orderly(o)
<1>1. Turns(o, "none", "idle", None, 0, 0, FALSE) /\ ~HasToken("none", "idle")
  BY TurnStop DEF HasToken
<1> QED BY <1>1, TurnOrderly

LEMMA FailsOrderly ==
    ASSUME Shape, NEW o \in Ops, NEW pc, Fails(o, pc),
           pc = "read" => op[o].kind = "logout", HasToken(op[o].kind, pc) => op[o].refresh # 0
    PROVE  /\ Orderly(o) /\ inStep' \in BOOLEAN
           /\ failures < MaxFailures /\ failures' = failures + 1
<1>1. Orderly(o)
  BY TurnFails, TurnOrderly
<1> QED BY <1>1 DEF Fails

LEMMA TokenOrderly ==
    ASSUME Shape, NEW o \in Ops, NEW pc, NEW t, op' = [op EXCEPT ![o].pc = pc, ![o].token = t],
           pc # "read", ~HasToken(op[o].kind, pc)
    PROVE  Orderly(o)
BY TurnToken, TurnOrderly

LEMMA CompleteOrderly ==
    ASSUME Shape, NEW o \in Ops, Complete(o)
    PROVE  Orderly(o) /\ inStep' \in BOOLEAN
<1>1. inStep' = (inStep \/ (op[o].alone /\ op[o].kind \in {"login", "logout"}))
  BY DEF Complete
<1>2. inStep' \in BOOLEAN
  BY <1>1, Zenon
<1> QED BY <1>2, StopOrderly DEF Complete

LEMMA PassedOrderly ==
    ASSUME Shape, NEW o \in Ops, Passed(o), op[o].kind \in {"visit", "logout", "rename"}
    PROVE  Orderly(o)
<1>1. CASE op[o].kind = "visit"
  <2>1. Stop(o)
    BY <1>1 DEF Passed
  <2> QED BY <2>1, StopOrderly
<1>2. CASE op[o].kind = "logout"
  <2>1. op' = [op EXCEPT ![o].pc = "read"] /\ ~HasToken("logout", "read")
    BY <1>2 DEF Passed, Goto, HasToken
  <2> QED BY <1>2, <2>1, GotoOrderly
<1>3. CASE op[o].kind = "rename"
  <2>1. op' = [op EXCEPT ![o].pc = "row"] /\ ~HasToken("rename", "row")
    BY <1>3 DEF Passed, Goto, HasToken
  <2> QED BY <1>3, <2>1, GotoOrderly
<1> QED BY <1>1, <1>2, <1>3

LEMMA StepCounts ==
    ASSUME SInv, Ranged, NEW o \in Ops,
           Check(o) \/ Login(o) \/ Logout(o) \/ Refresh(o) \/ Change(o)
    PROVE  op[o].pc # "idle" /\ Counting(o)
<1> USE DEF table, redis, key, history, env, Put
<1>1. Shape /\ Belongs(op[o].kind, op[o].pc) /\ inStep \in BOOLEAN
      /\ (HasToken(op[o].kind, op[o].pc) => op[o].refresh # 0)
  BY DEF SInv, IInv, Kinded, Ranged
<1>2. CASE Check(o)
  <2>1. CASE CheckCache(o)
    <3>1. op[o].pc = "get" /\ op[o].kind \in {"visit", "logout", "rename"}
          /\ UNCHANGED <<table, redis, issued, started, losses, opened>>
      BY <1>1, <2>1 DEF CheckCache, Belongs
    <3>2. CASE (Passed(o) \/ Stop(o) \/ Goto(o, "compare")) /\ UNCHANGED <<failures, inStep>>
      <4>1. Orderly(o)
        BY <1>1, <3>1, <3>2, PassedOrderly, StopOrderly, GotoOrderly DEF Goto, HasToken
      <4> QED BY <1>1, <3>1, <3>2, <4>1 DEF Counting
    <3>3. CASE Fails(o, "compare")
      <4>1. Orderly(o) /\ inStep' \in BOOLEAN /\ failures < MaxFailures /\ failures' = failures + 1
        BY <1>1, <3>3, FailsOrderly DEF HasToken
      <4> QED BY <3>1, <4>1 DEF Counting
    <3> QED BY <2>1, <3>1, <3>2, <3>3 DEF CheckCache
  <2>2. CASE CheckRow(o)
    <3>1. op[o].pc = "compare" /\ UNCHANGED <<table, redis, issued, failures, started, losses, history>>
      BY <2>2 DEF CheckRow
    <3>2. Orderly(o)
      BY <1>1, <2>2, StopOrderly, GotoOrderly DEF CheckRow, Goto, HasToken
    <3> QED BY <1>1, <3>1, <3>2 DEF Counting
  <2>3. CASE Refill(o)
    <3>1. op[o].pc = "refill" /\ op[o].kind \in {"visit", "logout", "rename"} /\ Passed(o)
          /\ UNCHANGED <<table, lookup, issued, started, losses, opened>>
      BY <1>1, <2>3 DEF Refill, Belongs
    <3>2. Orderly(o)
      BY <1>1, <3>1, PassedOrderly
    <3>3. /\ cached' \in {cached, op[o].token} /\ behind' \subseteq behind /\ inStep' \in BOOLEAN
          /\ failures' = failures \/ (failures < MaxFailures /\ failures' = failures + 1)
      BY <1>1, <2>3 DEF Refill
    <3> QED BY <3>1, <3>2, <3>3 DEF Counting
  <2> QED BY <1>2, <2>1, <2>2, <2>3 DEF Check
<1>3. CASE Login(o)
  <2>1. CASE LoginReads(o)
    <3>1. op[o].kind = "login" /\ op[o].pc = "read" /\ o \in Reading
          /\ UNCHANGED <<table, redis, failures, started, losses, history>>
      BY <2>1 DEF LoginReads, Reading
    <3>2. CASE Stop(o) /\ UNCHANGED issued
      <4>1. Orderly(o)
        BY <1>1, <3>2, StopOrderly
      <4> QED BY <1>1, <3>1, <3>2, <4>1 DEF Counting
    <3>3. CASE /\ issued' = issued + 1
               /\ op' = [op EXCEPT ![o].pc = "row", ![o].token = GenerateToken(name), ![o].refresh = issued + 1]
      <4>1. PICK t, r : t = GenerateToken(name) /\ r = issued + 1
        OBVIOUS
      <4>2. Turns(o, "login", "row", t, r, op[o].pass, op[o].alone)
        BY <1>1, <3>1, <3>3, <4>1 DEF Shape, OpType, Turns
      <4>3. r # 0
        BY <1>1, <4>1 DEF Shape
      <4>4. Orderly(o)
        BY <3>1, <4>2, <4>3, TurnOrderly
      <4> QED BY <1>1, <3>1, <3>3, <4>4 DEF Counting
    <3> QED BY <2>1, <3>2, <3>3 DEF LoginReads
  <2>2. CASE LoginStores(o)
    <3>1. op[o].kind = "login" /\ op[o].pc = "row" /\ opened' = op[o].pass /\ op' = [op EXCEPT ![o].pc = "set"]
          /\ UNCHANGED <<password, redis, issued, failures, started, losses, inStep>>
      BY <2>2 DEF LoginStores, Goto
    <3>2. Orderly(o)
      BY <1>1, <3>1, GotoOrderly DEF HasToken
    <3> QED BY <1>1, <3>1, <3>2 DEF Counting
  <2>3. CASE SetToken(o)
    <3>1. op[o].pc = "set" /\ UNCHANGED <<table, lookup, issued, started, losses, opened>>
      BY <2>3 DEF SetToken
    <3>2. CASE op[o].kind = "login"
      <4>1. CASE Put(op[o].token) /\ Goto(o, "store") /\ UNCHANGED <<failures, inStep>>
        <5>1. Orderly(o)
          BY <1>1, <3>1, <3>2, <4>1, GotoOrderly DEF Goto, HasToken
        <5> QED BY <1>1, <3>1, <4>1, <5>1 DEF Counting
      <4>2. CASE Fails(o, "store") /\ UNCHANGED key
        <5>1. Orderly(o) /\ inStep' \in BOOLEAN /\ failures < MaxFailures /\ failures' = failures + 1
          BY <1>1, <3>1, <3>2, <4>2, FailsOrderly DEF HasToken
        <5> QED BY <3>1, <4>2, <5>1 DEF Counting
      <4> QED BY <2>3, <3>2, <4>1, <4>2 DEF SetToken
    <3>3. CASE op[o].kind # "login"
      <4>1. CASE Put(op[o].token) /\ Complete(o) /\ UNCHANGED failures
        <5>1. Orderly(o) /\ inStep' \in BOOLEAN
          BY <1>1, <4>1, CompleteOrderly
        <5> QED BY <3>1, <4>1, <5>1 DEF Counting
      <4>2. CASE /\ failures < MaxFailures /\ failures' = failures + 1
                 /\ Stop(o) /\ inStep' = FALSE /\ UNCHANGED key
        <5>1. Orderly(o)
          BY <1>1, <4>2, StopOrderly
        <5> QED BY <3>1, <4>2, <5>1 DEF Counting
      <4> QED BY <2>3, <3>3, <4>1, <4>2 DEF SetToken
    <3> QED BY <3>2, <3>3
  <2>4. CASE SetLookup(o)
    <3>1. op[o].pc = "store" /\ UNCHANGED <<table, key, issued, started, losses, opened>>
      BY <2>4 DEF SetLookup
    <3>2. CASE lookup' = lookup \cup {op[o].refresh} /\ Complete(o) /\ UNCHANGED failures
      <4>1. Orderly(o) /\ inStep' \in BOOLEAN
        BY <1>1, <3>2, CompleteOrderly
      <4> QED BY <3>1, <3>2, <4>1 DEF Counting
    <3>3. CASE /\ failures < MaxFailures /\ failures' = failures + 1
               /\ Stop(o) /\ inStep' = FALSE /\ UNCHANGED lookup
      <4>1. Orderly(o)
        BY <1>1, <3>3, StopOrderly
      <4> QED BY <3>1, <3>3, <4>1 DEF Counting
    <3> QED BY <2>4, <3>2, <3>3 DEF SetLookup
  <2> QED BY <1>3, <2>1, <2>2, <2>3, <2>4 DEF Login
<1>4. CASE Logout(o)
  <2>1. CASE LogoutReads(o)
    <3>1. op[o].kind = "logout" /\ op[o].pc = "read"
          /\ UNCHANGED <<table, redis, issued, failures, started, losses, history>>
      BY <2>1 DEF LogoutReads
    <3>2. CASE Stop(o)
      <4>1. Orderly(o)
        BY <1>1, <3>2, StopOrderly
      <4> QED BY <1>1, <3>1, <4>1 DEF Counting
    <3>3. CASE op' = [op EXCEPT ![o].pc = "forget", ![o].refresh = row.refresh]
      <4>1. Turns(o, "logout", "forget", op[o].token, row.refresh, op[o].pass, op[o].alone)
        BY <1>1, <3>1, <3>3 DEF Shape, OpType, Turns
      <4>2. Orderly(o)
        BY <3>1, <4>1, TurnOrderly DEF HasToken
      <4> QED BY <1>1, <3>1, <4>2 DEF Counting
    <3> QED BY <2>1, <3>2, <3>3 DEF LogoutReads
  <2>2. CASE LogoutForgets(o)
    <3>1. op[o].pc = "forget" /\ op[o].kind = "logout" /\ UNCHANGED <<table, lookup, issued, started, losses, opened>>
      BY <1>1, <2>2 DEF LogoutForgets, Belongs
    <3>2. CASE Put(None) /\ Goto(o, "unlook") /\ UNCHANGED <<failures, inStep>>
      <4>1. Orderly(o)
        BY <1>1, <3>2, GotoOrderly DEF Goto, HasToken
      <4> QED BY <1>1, <3>1, <3>2, <4>1 DEF Counting
    <3>3. CASE Fails(o, "unlook") /\ UNCHANGED key
      <4>1. Orderly(o) /\ inStep' \in BOOLEAN /\ failures < MaxFailures /\ failures' = failures + 1
        BY <1>1, <3>3, FailsOrderly DEF HasToken
      <4> QED BY <3>1, <3>3, <4>1 DEF Counting
    <3> QED BY <2>2, <3>2, <3>3 DEF LogoutForgets
  <2>3. CASE LogoutUnlooks(o)
    <3>1. op[o].pc = "unlook" /\ op[o].kind = "logout" /\ UNCHANGED <<table, key, issued, started, losses, opened>>
      BY <1>1, <2>3 DEF LogoutUnlooks, Belongs
    <3>2. CASE lookup' = lookup \ {op[o].refresh} /\ Goto(o, "clear") /\ UNCHANGED <<failures, inStep>>
      <4>1. Orderly(o)
        BY <1>1, <3>2, GotoOrderly DEF Goto, HasToken
      <4> QED BY <1>1, <3>1, <3>2, <4>1 DEF Counting
    <3>3. CASE Fails(o, "clear") /\ UNCHANGED lookup
      <4>1. Orderly(o) /\ inStep' \in BOOLEAN /\ failures < MaxFailures /\ failures' = failures + 1
        BY <1>1, <3>3, FailsOrderly DEF HasToken
      <4> QED BY <3>1, <3>3, <4>1 DEF Counting
    <3> QED BY <2>3, <3>2, <3>3 DEF LogoutUnlooks
  <2>4. CASE LogoutClears(o)
    <3>1. op[o].pc = "clear" /\ Complete(o) /\ UNCHANGED <<password, redis, issued, failures, started, losses, opened>>
      BY <2>4 DEF LogoutClears
    <3>2. Orderly(o) /\ inStep' \in BOOLEAN
      BY <1>1, <3>1, CompleteOrderly
    <3> QED BY <3>1, <3>2 DEF Counting
  <2> QED BY <1>4, <2>1, <2>2, <2>3, <2>4 DEF Logout
<1>5. CASE Refresh(o)
  <2>1. CASE RefreshLooks(o)
    <3>1. op[o].pc = "look" /\ op[o].kind = "refresh" /\ UNCHANGED <<table, redis, issued, started, losses, opened>>
      BY <1>1, <2>1 DEF RefreshLooks, Belongs
    <3>2. CASE Goto(o, IF op[o].refresh \in lookup THEN "verify" ELSE "scan") /\ UNCHANGED <<failures, inStep>>
      <4>1. PICK pc \in {"verify", "scan"} : op' = [op EXCEPT ![o].pc = pc]
        BY <3>2 DEF Goto
      <4>2. Orderly(o)
        BY <1>1, <4>1, GotoOrderly DEF HasToken
      <4> QED BY <1>1, <3>1, <3>2, <4>2 DEF Counting
    <3>3. CASE Fails(o, "scan")
      <4>1. Orderly(o) /\ inStep' \in BOOLEAN /\ failures < MaxFailures /\ failures' = failures + 1
        BY <1>1, <3>3, FailsOrderly DEF HasToken
      <4> QED BY <3>1, <4>1 DEF Counting
    <3> QED BY <2>1, <3>2, <3>3 DEF RefreshLooks
  <2>2. CASE RefreshVerifies(o)
    <3>1. op[o].pc = "verify" /\ op[o].kind = "refresh"
          /\ UNCHANGED <<table, redis, issued, failures, started, losses, history>>
      BY <1>1, <2>2 DEF RefreshVerifies, Belongs
    <3>2. Orderly(o)
      BY <1>1, <2>2, <3>1, TokenOrderly, GotoOrderly DEF RefreshVerifies, Goto, HasToken
    <3> QED BY <1>1, <3>1, <3>2 DEF Counting
  <2>3. CASE RefreshStores(o)
    <3>1. op[o].pc = "update" /\ op[o].kind = "refresh"
          /\ UNCHANGED <<password, redis, issued, started, losses, opened>>
      BY <1>1, <2>3 DEF RefreshStores, Belongs
    <3>2. CASE Goto(o, "set") /\ UNCHANGED <<failures, inStep>>
      <4>1. Orderly(o)
        BY <1>1, <3>1, <3>2, GotoOrderly DEF Goto, HasToken
      <4> QED BY <1>1, <3>1, <3>2, <4>1 DEF Counting
    <3>3. CASE Fails(o, "set")
      <4>1. Orderly(o) /\ inStep' \in BOOLEAN /\ failures < MaxFailures /\ failures' = failures + 1
        BY <1>1, <3>1, <3>3, FailsOrderly DEF HasToken
      <4> QED BY <3>1, <4>1 DEF Counting
    <3> QED BY <2>3, <3>2, <3>3 DEF RefreshStores
  <2>4. CASE RefreshScans(o)
    <3>1. op[o].pc = "scan" /\ op[o].kind = "refresh"
          /\ UNCHANGED <<table, redis, issued, failures, started, losses, history>>
      BY <1>1, <2>4 DEF RefreshScans, Belongs
    <3>2. Orderly(o)
      BY <1>1, <2>4, <3>1, TokenOrderly, StopOrderly DEF RefreshScans, HasToken
    <3> QED BY <1>1, <3>1, <3>2 DEF Counting
  <2>5. CASE RefreshStoresOnly(o)
    <3>1. op[o].pc = "row" /\ Stop(o) /\ inStep' \in BOOLEAN
          /\ UNCHANGED <<password, cached, lookup, issued, started, losses, opened>>
          /\ behind' \subseteq behind \cup {row.token}
          /\ (failures' = failures \/ (failures < MaxFailures /\ failures' = failures + 1))
      BY <1>1, <2>5 DEF RefreshStoresOnly
    <3>2. Orderly(o)
      BY <1>1, <3>1, StopOrderly
    <3> QED BY <3>1, <3>2 DEF Counting
  <2> QED BY <1>5, <2>1, <2>2, <2>3, <2>4, <2>5 DEF Refresh
<1>6. CASE Change(o)
  <2>1. CASE RenameStores(o)
    <3>1. op[o].kind = "rename" /\ op[o].pc = "row"
          /\ UNCHANGED <<password, redis, issued, failures, started, losses, history>>
      BY <2>1 DEF RenameStores
    <3>2. CASE Stop(o)
      <4>1. Orderly(o)
        BY <1>1, <3>2, StopOrderly
      <4> QED BY <1>1, <3>1, <4>1 DEF Counting
    <3>3. ASSUME NEW n \in Names, op' = [op EXCEPT ![o].pc = "set", ![o].token = GenerateToken(n)]
          PROVE  Counting(o)
      <4>1. PICK t : t = GenerateToken(n)
        OBVIOUS
      <4>2. Orderly(o)
        BY <1>1, <3>1, <3>3, <4>1, TokenOrderly DEF HasToken
      <4> QED BY <1>1, <3>1, <4>2 DEF Counting
    <3> QED BY <2>1, <3>1, <3>2, <3>3 DEF RenameStores
  <2>2. CASE ChangeReads(o)
    <3>1. op[o].kind = "change" /\ op[o].pc = "read"
          /\ UNCHANGED <<table, redis, issued, failures, started, losses, history>>
      BY <2>2 DEF ChangeReads
    <3>2. Orderly(o)
      BY <1>1, <2>2, <3>1, StopOrderly, GotoOrderly DEF ChangeReads, Goto, HasToken
    <3> QED BY <1>1, <3>1, <3>2 DEF Counting
  <2>3. CASE ChangePassword(o)
    <3>1. op[o].pc = "password" /\ op[o].kind = "change" /\ password' = password + 1
          /\ op' = [op EXCEPT ![o].kind = "logout", ![o].pc = "read"]
          /\ UNCHANGED <<redis, issued, failures, started, losses, history>>
      BY <1>1, <2>3 DEF ChangePassword, Belongs
    <3>2. Turns(o, "logout", "read", op[o].token, op[o].refresh, op[o].pass, op[o].alone)
      BY <1>1, <3>1 DEF Shape, OpType, Turns
    <3>3. Orderly(o) /\ op'[o].kind = "logout"
      BY <3>2, TurnOrderly DEF HasToken, Turns
    <3>4. o \in Changing
      BY <3>1 DEF Changing
    <3> QED BY <1>1, <3>1, <3>3, <3>4 DEF Counting
  <2> QED BY <1>6, <2>1, <2>2, <2>3 DEF Change
<1> QED BY <1>2, <1>3, <1>4, <1>5, <1>6

LEMMA RangedKept == ASSUME SInv, Ranged, [Next]_vars PROVE Ranged'
<1>1. Shape'
  BY ShapeKept DEF SInv, IInv
<1>2. ASSUME NEW o \in Ops, Check(o) \/ Login(o) \/ Logout(o) \/ Refresh(o) \/ Change(o) PROVE Ranged'
  BY <1>1, <1>2, StepCounts, CountingKeeps
<1>3. ASSUME NEW o \in Ops, Arrive(o) PROVE Ranged'
  <2>0. password \in Nat /\ 0 \in Nat /\ 0 <= password
    BY DEF SInv, IInv, Shape
  <2>1. CASE Authorize(o)
    <3>1. PICK k \in {"visit", "logout", "rename"}, t \in held.access : Begin(o, k, "get", t, 0, 0)
      BY <2>1 DEF Authorize
    <3>2. k \in Kinds /\ ~HasToken(k, "get")
      BY DEF Kinds, HasToken
    <3> QED BY <2>0, <3>1, <3>2, BeginKeeps
  <2>2. CASE BeginLogin(o)
    <3>1. PICK p \in 0 .. password : Begin(o, "login", "read", None, 0, p)
      BY <2>2 DEF BeginLogin
    <3>2. "login" \in Kinds /\ ~HasToken("login", "read") /\ p \in Nat /\ p <= password
      BY <2>0 DEF Kinds, HasToken
    <3> QED BY <3>1, <3>2, BeginKeeps
  <2>3. CASE BeginChange(o)
    <3>1. PICK p : p = password
      OBVIOUS
    <3>2. Begin(o, "change", "read", None, 0, p) /\ p \in Nat /\ p <= password
      BY <2>0, <2>3, <3>1 DEF BeginChange
    <3>3. "change" \in Kinds /\ ~HasToken("change", "read")
      BY DEF Kinds, HasToken
    <3> QED BY <3>2, <3>3, BeginKeeps
  <2>4. CASE BeginRefresh(o)
    <3>1. PICK r \in held.refresh : Begin(o, "refresh", "look", None, r, 0)
      BY <2>4 DEF BeginRefresh
    <3>2. "refresh" \in Kinds /\ ~HasToken("refresh", "look")
      BY DEF Kinds, HasToken
    <3> QED BY <2>0, <3>1, <3>2, BeginKeeps
  <2> QED BY <1>3, <2>1, <2>2, <2>3, <2>4 DEF Arrive
<1>4. CASE Lose \/ Tick \/ UNCHANGED vars
  <2>1. /\ UNCHANGED <<op, password, issued, started, failures, inStep, opened>>
        /\ cached' \in {cached, None} /\ behind' \subseteq behind /\ lookup' \subseteq lookup
        /\ losses' = losses \/ (losses < MaxLosses /\ losses' = losses + 1)
    BY <1>4 DEF Lose, Put, Tick, vars, table, redis, key, history
  <2>2. losses' \in 0 .. MaxLosses
    BY <2>1, Bounds DEF Ranged
  <2> QED BY <2>1, <2>2, NoneIsAccess DEF Ranged, Reading, Changing
<1> QED BY <1>2, <1>3, <1>4 DEF Next

\* The variables keep their types; refresh tokens are numbered by logins and
\* the password by its changes, so that neither exceeds the requests begun.
THEOREM TypeCorrect == Spec => []TypeOK
<1>1. Init => Ranged
  <2> SUFFICES ASSUME Init PROVE Ranged
    OBVIOUS
  <2>1. \A o \in Ops : op[o] = Idle
    BY DEF Init
  <2>2. Reading = {} /\ Changing = {}
    BY <2>1 DEF Reading, Changing, Idle
  <2>3. /\ started = 0 /\ failures = 0 /\ losses = 0 /\ inStep = TRUE /\ cached = None
        /\ lookup = {} /\ behind = {} /\ opened = 0 /\ password = 0 /\ issued = 0
    BY DEF Init
  <2>4. Covers(0, {}, 0)
    BY FS_EmptySet DEF Covers
  <2>5. \A o \in Ops : op[o].pass <= password /\ ~HasToken(op[o].kind, op[o].pc)
    BY <2>1, <2>3 DEF Idle, HasToken
  <2> QED BY <2>2, <2>3, <2>4, <2>5, NoneIsAccess, Bounds DEF Ranged
<1>2. SInv /\ Ranged /\ [Next]_vars => Ranged'
  BY RangedKept
<1>3. SInv /\ Ranged => TypeOK
  <2> SUFFICES ASSUME SInv, Ranged PROVE TypeOK
    OBVIOUS
  <2>1. Shape /\ issued \in 0 .. started /\ password \in 0 .. started /\ started \in 0 .. MaxOps
    <3>1. Cardinality(Reading) \in Nat /\ Cardinality(Changing) \in Nat
      BY FS_CardinalityType DEF Ranged, Covers
    <3>2. Shape
      BY DEF SInv, IInv
    <3> QED BY <3>1, <3>2, Bounds DEF Ranged, Covers, Shape
  <2>2. issued \in 0 .. MaxOps /\ password \in 0 .. MaxOps /\ opened \in 0 .. MaxOps
        /\ \A p \in Nat : p <= password => p \in 0 .. MaxOps
    BY <2>1, Bounds DEF Ranged
  <2>3. \A o \in Ops : op[o] \in OpType /\ op[o].pass \in 0 .. MaxOps
    BY <2>1, <2>2 DEF Shape, OpType, Ranged
  <2>4. op \in [Ops -> [kind : Kinds \cup {"none"}, pc : Steps, token : Tokens, refresh : 0 .. issued,
                        pass : 0 .. MaxOps, alone : BOOLEAN, dead : BOOLEAN]]
    BY <2>1, <2>3 DEF Shape, OpType
  <2> QED BY <2>1, <2>2, <2>4 DEF Shape, Ranged, TypeOK, Steps
<1> QED BY <1>1, <1>2, <1>3, SessionInvariant, PTL DEF Spec

=============================================================================
