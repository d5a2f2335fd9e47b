------------------------ MODULE AuthSessions_proofs ------------------------
(***************************************************************************)
(* Proofs about logging in and changing the password, for any number of    *)
(* clients, slots, nonces and tokens and any lockout schedule: a nonce is  *)
(* answered once, guesses past the threshold cost at least the base        *)
(* lockout each, tables evict the least recent entry only, no session is   *)
(* used past its life, and a password change leaves one session.           *)
(***************************************************************************)
EXTENDS AuthSessions, FiniteSetTheorems, WellFoundedInduction, TLAPS

-----------------------------------------------------------------------------
(* The lockout schedule is a recursive function.  What is proved of it is  *)
(* proved by induction, which rests on the numbers being well-founded.     *)

(* A set of numbers that holds 0 and the successor of each is all of them: *)
(* else it would miss a least one.                                         *)
LEMMA SetInduction ==
    ASSUME NEW T, 0 \in T, \A n \in Nat : n \in T => n + 1 \in T
    PROVE  Nat \subseteq T
<1> SUFFICES ASSUME NEW z \in Nat \ T PROVE FALSE
  OBVIOUS
<1> DEFINE R == OpToRel(<, Nat)
           rest == Nat \ T
<1>1. IsWellFoundedOn(R, Nat)
  BY NatLessThanWellFounded
<1>2. \A x, y \in Nat : x < y => <<x, y>> \in R
  BY DEF OpToRel
<1>3. rest \subseteq Nat /\ rest # {}
  OBVIOUS
<1> HIDE DEF R, rest
<1>4. PICK x \in rest : \A y \in rest : <<y, x>> \notin R
  BY <1>1, <1>3, WFMin
<1>5. x \in Nat /\ x # 0 /\ x \notin T
  BY <1>4 DEF rest
<1>6. x - 1 \in Nat /\ x - 1 < x /\ (x - 1) + 1 = x
  BY <1>5
<1>7. x - 1 \in T
  BY <1>2, <1>4, <1>5, <1>6 DEF rest
<1> QED
  BY <1>5, <1>6, <1>7

(* So a step may be iterated from any value on: the approximations up to   *)
(* each number exist, agree, and are put together.                         *)
Iterates(f, S, v, step) ==
    /\ f \in [Nat -> S] /\ f[0] = v
    /\ \A n \in Nat : f[n + 1] = step[f[n]]

LEMMA SomethingIterates ==
    ASSUME NEW S, NEW v \in S, NEW step \in [S -> S]
    PROVE  \E f : Iterates(f, S, v, step)
<1> DEFINE Upto(n, g) == /\ g \in [0..n -> S] /\ g[0] = v
                         /\ \A k \in 0..n : k < n => g[k + 1] = step[g[k]]
           T == {n \in Nat : \E g : Upto(n, g)}
<1>1. Nat \subseteq T
  <2>1. 0 \in T
    <3>1. Upto(0, [k \in 0..0 |-> v])
      OBVIOUS
    <3> QED
      BY <3>1
  <2>2. ASSUME NEW n \in Nat, n \in T PROVE n + 1 \in T
    <3>1. PICK g : Upto(n, g)
      BY <2>2
    <3> DEFINE h == [k \in 0..(n + 1) |-> IF k <= n THEN g[k] ELSE step[g[n]]]
    <3>2. Upto(n + 1, h)
      <4>1. h \in [0..(n + 1) -> S]
        BY <3>1
      <4>2. h[0] = v
        BY <3>1
      <4>3. ASSUME NEW k \in 0..(n + 1), k < n + 1 PROVE h[k + 1] = step[h[k]]
        <5>1. CASE k < n
          BY <3>1, <5>1
        <5>2. CASE k = n
          BY <3>1, <5>2
        <5> QED
          BY <4>3, <5>1, <5>2
      <4> QED
        BY <4>1, <4>2, <4>3
    <3> QED
      BY <3>2
  <2> HIDE DEF T
  <2> QED
    BY <2>1, <2>2, SetInduction
<1>2. ASSUME NEW m \in Nat, NEW n \in Nat, m <= n, NEW g, NEW h, Upto(m, g), Upto(n, h)
      PROVE  g[m] = h[m]
  <2> DEFINE U == {k \in Nat : k <= m => g[k] = h[k]}
  <2>1. 0 \in U
    BY <1>2
  <2>2. ASSUME NEW k \in Nat, k \in U PROVE k + 1 \in U
    BY <1>2, <2>2
  <2>3. Nat \subseteq U
    <3> HIDE DEF U
    <3> QED
      BY <2>1, <2>2, SetInduction
  <2> QED
    BY <2>3
<1> DEFINE best(n) == CHOOSE g : Upto(n, g)
           f == [n \in Nat |-> best(n)[n]]
<1>3. \A n \in Nat : Upto(n, best(n))
  BY <1>1
<1> HIDE DEF best
<1>4. f \in [Nat -> S] /\ f[0] = v
  BY <1>3
<1>5. ASSUME NEW n \in Nat PROVE f[n + 1] = step[f[n]]
  <2>1. Upto(n, best(n)) /\ Upto(n + 1, best(n + 1))
    BY <1>3
  <2>2. best(n)[n] = best(n + 1)[n]
    BY <1>2, <2>1
  <2>3. best(n + 1)[n + 1] = step[best(n + 1)[n]]
    BY <2>1
  <2> QED
    BY <2>2, <2>3
<1> HIDE DEF f
<1> QED
  BY <1>4, <1>5 DEF Iterates

(* The lockout doubles, and never falls below the base                     *)
(* (auth.c:421-430).                                *)
LEMMA DurationIs ==
    \A n \in Nat : Duration[n] = IF n = 0 THEN LockBase
       ELSE IF Duration[n - 1] < LockMax THEN 2 * Duration[n - 1] ELSE Duration[n - 1]
<1> DEFINE step == [v \in Nat |-> IF v < LockMax THEN 2 * v ELSE v]
           Def(f) == [n \in Nat |-> IF n = 0 THEN LockBase
                        ELSE IF f[n - 1] < LockMax THEN 2 * f[n - 1] ELSE f[n - 1]]
<1>1. step \in [Nat -> Nat]
  BY LockoutAssumption
<1>2. PICK f \in [Nat -> Nat] : f[0] = LockBase /\ \A n \in Nat : f[n + 1] = step[f[n]]
  <2>1. LockBase \in Nat
    BY LockoutAssumption
  <2> HIDE DEF step
  <2>2. PICK f : Iterates(f, Nat, LockBase, step)
    BY <1>1, <2>1, SomethingIterates
  <2> QED
    BY <2>2 DEF Iterates
<1>3. f = Def(f)
  <2>1. ASSUME NEW n \in Nat PROVE f[n] = Def(f)[n]
    <3>1. CASE n = 0
      BY <1>2, <3>1
    <3>2. CASE n # 0
      <4>1. n - 1 \in Nat /\ (n - 1) + 1 = n
        BY <3>2
      <4>2. f[n] = step[f[n - 1]] /\ f[n - 1] \in Nat
        BY <1>2, <4>1
      <4> QED
        BY <3>2, <4>2
    <3> QED
      BY <3>1, <3>2
  <2> QED
    BY <2>1
<1>4. Duration = CHOOSE g : g = Def(g)
  BY DEF Duration
<1>5. Duration = Def(Duration)
  BY <1>3, <1>4
<1> QED
  BY <1>5

LEMMA DurationType ==
    \A n \in Nat : Duration[n] \in Nat /\ LockBase <= Duration[n]
<1> DEFINE T == {n \in Nat : Duration[n] \in Nat /\ LockBase <= Duration[n]}
<1>1. 0 \in T
  BY DurationIs, LockoutAssumption
<1>2. ASSUME NEW n \in Nat, n \in T PROVE n + 1 \in T
  <2>1. Duration[n + 1] = IF Duration[n] < LockMax THEN 2 * Duration[n] ELSE Duration[n]
    BY DurationIs
  <2> QED
    BY <1>2, <2>1, LockoutAssumption
<1> HIDE DEF T
<1>3. Nat \subseteq T
  BY <1>1, <1>2, SetInduction
<1> QED
  BY <1>3 DEF T
-----------------------------------------------------------------------------
(* The inductive invariant.  Nonces are serial numbers: those pending are  *)
(* distinct, were issued and have not been answered.                       *)
InTable == {s \in ChallengeSlots : challenges[s] # Free}

NoncesAreFresh ==
    /\ \A s \in InTable : /\ challenges[s].nonce <= nonces
                          /\ answered[challenges[s].nonce] = 0
    /\ \A s, t \in InTable : s # t => challenges[s].nonce # challenges[t].nonce
    /\ \A n \in 1..MaxNonces : nonces < n => answered[n] = 0

(* A guess uses up a nonce, so there are no more of them than were issued. *)
GuessesHaveNonces == guesses + Cardinality(InTable) <= nonces

(* The counter is the number of guesses until it is full.                  *)
FailsCountGuesses == fails = IF guesses < FailMax THEN guesses ELSE FailMax

(* From the threshold on, the time waited and the lockout that runs pay    *)
(* for one guess more than were made.                                      *)
WaitIsCovered ==
    guesses >= Threshold => waited + locked >= ((guesses - Threshold) + 1) * LockBase

LoginIsSound ==
    /\ NoncesAreFresh /\ GuessesHaveNonces /\ NonceAnsweredOnce
    /\ FailsCountGuesses /\ WaitIsCovered /\ GuessesAreBounded

(* Tokens are serial numbers, and a request that is about to open its      *)
(* session finds none.                                                     *)
SessionsAreSound ==
    /\ \A s \in SessionSlots : sessions[s] # Free => sessions[s].token <= tokens
    /\ http.at = "open" => \A s \in SessionSlots : sessions[s] = Free

IInv ==
    /\ TypeOK
    /\ LoginIsSound
    /\ SessionsAreSound

loginVars == <<challenges, nonces, answered, fails, locked, guesses, waited>>

-----------------------------------------------------------------------------
LEMMA LockoutIsEnough ==
    \A n \in Nat : Lockout(n) \in 0..LockMax /\ (Threshold <= n => LockBase <= Lockout(n))
<1> TAKE n \in Nat
<1>1. CASE n < Threshold
  BY <1>1, LockoutAssumption DEF Lockout
<1>2. CASE Threshold <= n
  <2>1. n - Threshold \in Nat
    BY <1>2, LockoutAssumption
  <2> DEFINE d == Duration[n - Threshold]
  <2>2. d \in Nat /\ LockBase <= d
    BY <2>1, DurationType
  <2>3. Lockout(n) = IF d > LockMax THEN LockMax ELSE d
    BY <1>2, LockoutAssumption DEF Lockout
  <2> HIDE DEF d
  <2> QED
    BY <2>2, <2>3, LockoutAssumption
<1> QED
  BY <1>1, <1>2, LockoutAssumption

LEMMA Shapes ==
    /\ NoRequest \in Requests /\ NoRequest.at = "idle"
    /\ \A r \in Requests :
          /\ r.at \in {"idle", "commit", "drop", "open"}
          /\ r.at = "commit" => r.client \in Clients /\ r.work \in Credential
          /\ r.at \in {"drop", "open"} => r.client \in Clients
          /\ r.at = "idle" => r = NoRequest
          /\ r.at = "drop" => /\ [r EXCEPT !.at = "open"] \in Requests
                              /\ [r EXCEPT !.at = "open"].at = "open"
    /\ \A c \in Clients : /\ [at |-> "drop", client |-> c] \in Requests
                          /\ [at |-> "drop", client |-> c].at = "drop"
    /\ \A c \in Clients, w \in Credential :
          /\ [at |-> "commit", client |-> c, work |-> w] \in Requests
          /\ [at |-> "commit", client |-> c, work |-> w].at = "commit"
  BY DEF Requests, NoRequest

LEMMA Ageing ==
    /\ \A limit \in Nat : \A age \in 0..limit : /\ Older(age, limit) \in 0..limit
                                                /\ age <= Older(age, limit)
    /\ \A x \in Session :
          /\ [x EXCEPT !.idle = 0] \in Session
          /\ [x EXCEPT !.idle = 0].token = x.token
          /\ [x EXCEPT !.idle = 0].life = x.life
    /\ \A x \in Session : \A i \in 0..(Idle + 1) : \A l \in 0..(Absolute + 1) :
          /\ [x EXCEPT !.idle = i, !.life = l] \in Session
          /\ [x EXCEPT !.idle = i, !.life = l].token = x.token
          /\ [x EXCEPT !.idle = i, !.life = l].idle = i
    /\ \A x \in Challenge : \A a \in 0..ChallengeTTL :
          /\ [x EXCEPT !.age = a] \in Challenge
          /\ [x EXCEPT !.age = a].nonce = x.nonce
<1>1. \A limit \in Nat : \A age \in 0..limit :
            Older(age, limit) \in 0..limit /\ age <= Older(age, limit)
  BY DEF Older
<1>2. /\ \A x \in Session :
            /\ [x EXCEPT !.idle = 0] \in Session
            /\ [x EXCEPT !.idle = 0].token = x.token
            /\ [x EXCEPT !.idle = 0].life = x.life
  BY TimersAssumption DEF Session
<1>3. /\ \A x \in Session : \A i \in 0..(Idle + 1) : \A l \in 0..(Absolute + 1) :
            /\ [x EXCEPT !.idle = i, !.life = l] \in Session
            /\ [x EXCEPT !.idle = i, !.life = l].token = x.token
            /\ [x EXCEPT !.idle = i, !.life = l].idle = i
  BY DEF Session
<1>4. \A x \in Challenge : \A a \in 0..ChallengeTTL :
          /\ [x EXCEPT !.age = a] \in Challenge
          /\ [x EXCEPT !.age = a].nonce = x.nonce
  BY DEF Challenge
<1> QED
  BY <1>1, <1>2, <1>3, <1>4

(* A request checks the session of its cookie: it is touched or dropped,   *)
(* and no session that has run out is touched.                             *)
LEMMA Checking ==
    ASSUME TypeOK, NEW c \in Clients
    PROVE  /\ Checked(c) \in [SessionSlots -> Session \cup {Free}]
           /\ \A s \in SessionSlots : Checked(c)[s] # Free =>
                 /\ sessions[s] # Free
                 /\ Checked(c)[s].token = sessions[s].token
                 /\ Checked(c)[s] = sessions[s] \/ ~Expired(s)
<1>1. ASSUME NEW s \in SessionSlots
      PROVE  /\ Checked(c)[s] \in Session \cup {Free}
             /\ Checked(c)[s] # Free => /\ sessions[s] # Free
                                        /\ Checked(c)[s].token = sessions[s].token
                                        /\ Checked(c)[s] = sessions[s] \/ ~Expired(s)
  <2>1. sessions[s] \in Session \cup {Free}
    BY DEF TypeOK
  <2>2. CASE s \notin SlotsOf(c)
    BY <2>1, <2>2 DEF Checked
  <2>3. CASE s \in SlotsOf(c) /\ Expired(s)
    BY <2>3 DEF Checked
  <2>4. CASE s \in SlotsOf(c) /\ ~Expired(s)
    <3>1. sessions[s] \in Session /\ Checked(c)[s] = [sessions[s] EXCEPT !.idle = 0]
      BY <2>1, <2>4 DEF SlotsOf, Checked
    <3> QED
      BY <2>1, <2>4, <3>1, Ageing DEF SlotsOf
  <2> QED
    BY <2>2, <2>3, <2>4
<1> QED
  BY <1>1 DEF Checked

(* A new session takes one slot, under a new token.                        *)
LEMMA Creating ==
    ASSUME TypeOK, NEW c \in Clients, CreateSession(c)
    PROVE  /\ tokens' = tokens + 1 /\ tokens' \in 0..MaxTokens
           /\ cookie' \in [Clients -> 0..MaxTokens]
           /\ sessions' \in [SessionSlots -> Session \cup {Free}]
           /\ \E s \in SessionSlot :
                 /\ s \in SessionSlots
                 /\ sessions'[s] # Free /\ sessions'[s].token = tokens'
                 /\ \A t \in SessionSlots \ {s} : sessions'[t] = sessions[t]
<1> USE BoundsAssumption, TimersAssumption
<1>1. tokens' = tokens + 1 /\ tokens + 1 \in 1..MaxTokens
  BY DEF TypeOK, CreateSession
<1>2. cookie' \in [Clients -> 0..MaxTokens]
  BY <1>1 DEF TypeOK, CreateSession
<1> DEFINE new == [token |-> tokens + 1, idle |-> 0, life |-> 0]
<1>3. new \in Session /\ new.token = tokens + 1
  BY <1>1 DEF Session
<1>4. new # Free
  BY <1>3, ValuesAssumption
<1>5. PICK s \in SessionSlot : sessions' = [sessions EXCEPT ![s] = new]
  BY DEF CreateSession
<1>6. s \in SessionSlots
  BY DEF SessionSlot
<1>7. sessions \in [SessionSlots -> Session \cup {Free}]
  BY DEF TypeOK
<1> HIDE DEF new
<1>8. /\ sessions' \in [SessionSlots -> Session \cup {Free}]
      /\ sessions'[s] = new
      /\ \A t \in SessionSlots \ {s} : sessions'[t] = sessions[t]
  BY <1>3, <1>5, <1>6, <1>7
<1>9. tokens' \in 0..MaxTokens
  BY <1>1
<1>10. sessions'[s] # Free /\ sessions'[s].token = tokens'
  BY <1>1, <1>3, <1>4, <1>8
<1> QED
  BY <1>1, <1>2, <1>5, <1>6, <1>8, <1>9, <1>10

LEMMA CreatingIsSound ==
    ASSUME TypeOK, SessionsAreSound, NEW c \in Clients, CreateSession(c), http'.at # "open"
    PROVE  /\ tokens' \in 0..MaxTokens
           /\ cookie' \in [Clients -> 0..MaxTokens]
           /\ sessions' \in [SessionSlots -> Session \cup {Free}]
           /\ SessionsAreSound'
<1>1. /\ tokens' = tokens + 1 /\ tokens' \in 0..MaxTokens
      /\ cookie' \in [Clients -> 0..MaxTokens]
      /\ sessions' \in [SessionSlots -> Session \cup {Free}]
  BY Creating
<1>2. PICK s \in SessionSlots :
            /\ sessions'[s] # Free /\ sessions'[s].token = tokens'
            /\ \A t \in SessionSlots \ {s} : sessions'[t] = sessions[t]
  BY Creating
<1>3. tokens \in Nat
  BY BoundsAssumption DEF TypeOK
<1>4. \A t \in SessionSlots : sessions[t] # Free =>
            sessions[t].token \in Nat /\ sessions[t].token <= tokens
  <2>1. \A t \in SessionSlots : sessions[t] # Free => sessions[t] \in Session
    BY DEF TypeOK
  <2> QED
    BY <2>1, BoundsAssumption DEF Session, SessionsAreSound
<1>5. \A t \in SessionSlots : sessions'[t] # Free => sessions'[t].token <= tokens'
  BY <1>1, <1>2, <1>3, <1>4
<1> QED
  BY <1>1, <1>5 DEF SessionsAreSound

-----------------------------------------------------------------------------
LEMMA LoginFrame ==
    ASSUME LoginIsSound, UNCHANGED loginVars
    PROVE  LoginIsSound'
  BY DEF LoginIsSound, NoncesAreFresh, InTable, GuessesHaveNonces, NonceAnsweredOnce,
         FailsCountGuesses, WaitIsCovered, GuessesAreBounded, loginVars

(* Sessions that stay have the tokens they had.                            *)
LEMMA SessionFrame ==
    ASSUME SessionsAreSound, tokens' = tokens, http'.at = "open" => http.at = "open",
           \A s \in SessionSlots : sessions'[s] # Free =>
                sessions[s] # Free /\ sessions'[s].token = sessions[s].token
    PROVE  SessionsAreSound'
  BY DEF SessionsAreSound

LEMMA InitIsSound == Init => IInv
<1> SUFFICES ASSUME Init PROVE IInv
  OBVIOUS
<1> USE BoundsAssumption, TimersAssumption, LockoutAssumption
<1>1. /\ credential \in Credential \cup {NoCredential} /\ window \in BOOLEAN /\ salts \in 0..MaxSalts
  <2>1. CASE credential = NoCredential /\ window \in BOOLEAN /\ salts = 0
    BY <2>1
  <2>2. CASE /\ credential \in [password : Passwords, derived : {1}, salt : {1}]
             /\ window = FALSE /\ salts = 1
    <3>1. 1 \in 1..MaxSalts /\ 1 \in 0..MaxSalts
      OBVIOUS
    <3>2. [password : Passwords, derived : {1}, salt : {1}] \subseteq Credential
      BY <3>1 DEF Credential
    <3> QED
      BY <2>2, <3>1, <3>2
  <2> QED
    BY <2>1, <2>2 DEF Init
<1>2. TypeOK
  <2>1. [nonce |-> 0, salt |-> 0] \in [nonce : 0..MaxNonces, salt : 0..MaxSalts]
    OBVIOUS
  <2>2. 0 \in 0..MaxWait
    BY DEF MaxWait
  <2> QED
    BY <1>1, <2>1, <2>2, Shapes DEF Init, TypeOK
<1>3. InTable = {} /\ Cardinality({}) = 0
  BY FS_EmptySet DEF Init, InTable
<1>4. LoginIsSound
  BY <1>3
  DEF Init, LoginIsSound, NoncesAreFresh, GuessesHaveNonces, NonceAnsweredOnce,
      FailsCountGuesses, WaitIsCovered, GuessesAreBounded
<1>5. SessionsAreSound
  BY Shapes DEF Init, SessionsAreSound
<1> QED
  BY <1>2, <1>4, <1>5 DEF IInv

LEMMA GetChallengeKeeps == ASSUME IInv, NEW c \in Clients, GetChallenge(c) PROVE IInv'
<1> USE BoundsAssumption, TimersAssumption
<1>1. PICK s \in ChallengeSlot :
            challenges' = [challenges EXCEPT ![s] = [nonce |-> nonces + 1, age |-> 0]]
  BY DEF GetChallenge
<1>2. s \in ChallengeSlots
  BY DEF ChallengeSlot
<1> DEFINE new == [nonce |-> nonces + 1, age |-> 0]
<1>3. /\ nonces \in Nat /\ nonces + 1 \in 1..MaxNonces /\ nonces' = nonces + 1
      /\ new \in Challenge /\ new.nonce = nonces + 1
  <2>1. nonces \in 0..MaxNonces
    BY DEF IInv, TypeOK
  <2>2. nonces < MaxNonces /\ nonces' = nonces + 1
    BY DEF GetChallenge
  <2>3. nonces \in Nat /\ nonces + 1 \in 1..MaxNonces
    BY <2>1, <2>2
  <2> QED
    BY <2>2, <2>3 DEF Challenge
<1>4. new # Free
  BY <1>3, ValuesAssumption
<1>5. /\ challenges' \in [ChallengeSlots -> Challenge \cup {Free}]
      /\ challenges'[s] = new
      /\ \A t \in ChallengeSlots \ {s} : challenges'[t] = challenges[t]
  <2>1. challenges \in [ChallengeSlots -> Challenge \cup {Free}]
    BY DEF IInv, TypeOK
  <2>2. challenges' = [challenges EXCEPT ![s] = new]
    BY <1>1
  <2> HIDE DEF new
  <2> QED
    BY <1>2, <1>3, <2>1, <2>2
<1> HIDE DEF new
<1>6. login' \in [Clients -> [nonce : 0..MaxNonces, salt : 0..MaxSalts]]
  <2>1. credential.salt \in 0..MaxSalts
    BY DEF GetChallenge, IInv, TypeOK, Credential
  <2>2. [nonce |-> nonces + 1, salt |-> credential.salt] \in [nonce : 0..MaxNonces, salt : 0..MaxSalts]
    BY <1>3, <2>1
  <2> QED
    BY <2>2 DEF GetChallenge, IInv, TypeOK
<1>7. UNCHANGED <<credential, window, fails, locked, sessions, offer, http, console,
                  cookie, salted, tokens, salts, answered, guesses, waited>>
  BY DEF GetChallenge, history
<1>8. TypeOK'
  <2>1. nonces' \in 0..MaxNonces
    BY <1>3
  <2>2. challenges' \in [ChallengeSlots -> Challenge \cup {Free}]
    BY <1>5
  <2> QED
    BY <1>6, <1>7, <2>1, <2>2 DEF IInv, TypeOK
<1>9. NoncesAreFresh'
  <2>1. \A t \in InTable' \ {s} : t \in InTable /\ challenges'[t] = challenges[t]
    BY <1>5 DEF InTable
  <2>2. \A t \in InTable : challenges[t].nonce \in 1..MaxNonces
    BY DEF InTable, IInv, TypeOK, Challenge
  <2>3. \A t \in InTable : challenges[t].nonce # nonces + 1 /\ challenges[t].nonce <= nonces + 1
    BY <1>3, <2>2 DEF IInv, LoginIsSound, NoncesAreFresh
  <2>4. answered[nonces + 1] = 0
    BY <1>3 DEF IInv, LoginIsSound, NoncesAreFresh
  <2>5. \A t \in InTable' : challenges'[t].nonce <= nonces' /\ answered'[challenges'[t].nonce] = 0
    BY <1>3, <1>5, <1>7, <2>1, <2>3, <2>4 DEF IInv, LoginIsSound, NoncesAreFresh
  <2>6. \A t, u \in InTable' : t # u => challenges'[t].nonce # challenges'[u].nonce
    BY <1>3, <1>5, <2>1, <2>3 DEF IInv, LoginIsSound, NoncesAreFresh
  <2>7. \A n \in 1..MaxNonces : nonces' < n => answered'[n] = 0
    BY <1>3, <1>7 DEF IInv, LoginIsSound, NoncesAreFresh
  <2> QED
    BY <2>5, <2>6, <2>7 DEF NoncesAreFresh
<1>10. GuessesHaveNonces'
  <2>1. InTable \in SUBSET ChallengeSlots /\ InTable' \subseteq InTable \cup {s}
    BY <1>2, <1>5 DEF InTable
  <2>2. IsFiniteSet(InTable)
    BY <2>1, SlotsAssumption, FS_Subset
  <2>3. IsFiniteSet(InTable \cup {s}) /\ Cardinality(InTable \cup {s}) <= Cardinality(InTable) + 1
    <3>1. Cardinality(InTable) \in Nat
      BY <2>2, FS_CardinalityType
    <3>2. /\ IsFiniteSet(InTable \cup {s})
          /\ \/ Cardinality(InTable \cup {s}) = Cardinality(InTable)
             \/ Cardinality(InTable \cup {s}) = Cardinality(InTable) + 1
      BY <2>2, FS_AddElement
    <3> QED
      BY <3>1, <3>2
  <2>4. IsFiniteSet(InTable') /\ Cardinality(InTable') <= Cardinality(InTable \cup {s})
    BY <2>1, <2>3, FS_Subset
  <2>5. /\ Cardinality(InTable) \in Nat /\ Cardinality(InTable') \in Nat
        /\ Cardinality(InTable \cup {s}) \in Nat
    BY <2>2, <2>3, <2>4, FS_CardinalityType
  <2>6. guesses \in Nat
    BY DEF IInv, TypeOK
  <2> QED
    BY <1>3, <1>7, <2>3, <2>4, <2>5, <2>6 DEF IInv, LoginIsSound, GuessesHaveNonces
<1>11. LoginIsSound'
  BY <1>7, <1>9, <1>10
  DEF IInv, LoginIsSound, NonceAnsweredOnce, FailsCountGuesses, WaitIsCovered, GuessesAreBounded
<1>12. SessionsAreSound'
  BY <1>7, SessionFrame DEF IInv
<1> QED
  BY <1>8, <1>11, <1>12 DEF IInv

(* What evaluating an answer does: its challenge is used up and its nonce  *)
(* marked as answered.                                                     *)
LEMMA Evaluating ==
    ASSUME IInv, NEW c \in Clients, Evaluate(c)
    PROVE  /\ challenges' \in [ChallengeSlots -> Challenge \cup {Free}]
           /\ answered' \in [1..MaxNonces -> Nat]
           /\ NonceAnsweredOnce'
           /\ nonces' = nonces => NoncesAreFresh'
           /\ IsFiniteSet(InTable) /\ Cardinality(InTable) \in Nat
           /\ Cardinality(InTable') \in Nat /\ Cardinality(InTable') = Cardinality(InTable) - 1
<1> USE BoundsAssumption
<1>1. PICK s \in PendingFor(c) : challenges' = [challenges EXCEPT ![s] = Free]
  BY DEF Evaluate, Consumed
<1> DEFINE n == login[c].nonce
<1>2. s \in InTable /\ s \in ChallengeSlots /\ challenges[s].nonce = n /\ n \in 1..MaxNonces
  BY DEF PendingFor, InTable, IInv, TypeOK, Challenge
<1>3. answered' = [answered EXCEPT ![n] = answered[n] + 1]
  BY DEF Evaluate
<1>4. answered[n] = 0 /\ n <= nonces
  BY <1>2 DEF IInv, LoginIsSound, NoncesAreFresh
<1> HIDE DEF n
<1>5. answered' \in [1..MaxNonces -> Nat] /\ answered'[n] = 1
      /\ \A m \in 1..MaxNonces \ {n} : answered'[m] = answered[m]
  BY <1>2, <1>3, <1>4 DEF IInv, TypeOK
<1>6. /\ challenges' \in [ChallengeSlots -> Challenge \cup {Free}]
      /\ InTable' = InTable \ {s}
      /\ \A t \in InTable' : challenges'[t] = challenges[t]
  BY <1>1, <1>2 DEF IInv, TypeOK, InTable
<1>7. NonceAnsweredOnce'
  BY <1>5 DEF IInv, LoginIsSound, NonceAnsweredOnce
<1>8. ASSUME nonces' = nonces PROVE NoncesAreFresh'
  <2>1. \A t \in InTable' : challenges[t].nonce \in 1..MaxNonces \ {n}
    BY <1>2, <1>6 DEF IInv, TypeOK, Challenge, InTable, LoginIsSound, NoncesAreFresh
  <2>2. \A m \in 1..MaxNonces : nonces < m => answered'[m] = 0
    BY <1>2, <1>4, <1>5 DEF IInv, LoginIsSound, NoncesAreFresh, TypeOK
  <2> QED
    BY <1>5, <1>6, <1>8, <2>1, <2>2 DEF IInv, LoginIsSound, NoncesAreFresh
<1>9. InTable \in SUBSET ChallengeSlots
  BY DEF InTable
<1>10. IsFiniteSet(InTable) /\ Cardinality(InTable) \in Nat
  BY <1>9, SlotsAssumption, FS_Subset, FS_CardinalityType
<1>11. Cardinality(InTable') = Cardinality(InTable) - 1 /\ IsFiniteSet(InTable')
  BY <1>2, <1>6, <1>10, FS_RemoveElement
<1>12. Cardinality(InTable') \in Nat
  BY <1>11, FS_CardinalityType
<1> QED
  BY <1>5, <1>6, <1>7, <1>8, <1>10, <1>11, <1>12

LEMMA LoginRightKeeps ==
    ASSUME IInv, NEW c \in Clients, NEW p \in Passwords, LoginRight(c, p) PROVE IInv'
<1> USE BoundsAssumption, LockoutAssumption
<1>1. /\ Evaluate(c) /\ CreateSession(c)
      /\ fails' = 0 /\ locked' = 0 /\ guesses' = 0 /\ waited' = 0
      /\ UNCHANGED <<credential, window, offer, http, console, login, salted, nonces, salts>>
      /\ http = NoRequest
  BY DEF LoginRight, Evaluate, HttpIdle
<1>2. /\ challenges' \in [ChallengeSlots -> Challenge \cup {Free}]
      /\ answered' \in [1..MaxNonces -> Nat]
      /\ NonceAnsweredOnce' /\ NoncesAreFresh'
      /\ Cardinality(InTable) \in Nat
      /\ Cardinality(InTable') \in Nat /\ Cardinality(InTable') = Cardinality(InTable) - 1
  BY <1>1, Evaluating
<1>3. /\ tokens' \in 0..MaxTokens
      /\ cookie' \in [Clients -> 0..MaxTokens]
      /\ sessions' \in [SessionSlots -> Session \cup {Free}]
      /\ SessionsAreSound'
  <2>1. http'.at # "open"
    BY <1>1, Shapes
  <2> QED
    BY <1>1, <2>1, CreatingIsSound DEF IInv
<1>4. 0 \in 0..MaxWait /\ 0 \in 0..MaxNonces /\ 0 \in 0..FailMax /\ 0 \in 0..LockMax
  BY DEF MaxWait
<1>5. TypeOK'
  <2>1. fails' \in 0..FailMax /\ locked' \in 0..LockMax /\ guesses' \in 0..MaxNonces
        /\ waited' \in 0..MaxWait
    BY <1>1, <1>4
  <2>2. UNCHANGED <<credential, window, offer, http, console, login, salted, nonces, salts>>
    BY <1>1
  <2>3. challenges' \in [ChallengeSlots -> Challenge \cup {Free}]
        /\ answered' \in [1..MaxNonces -> Nat]
    BY <1>2
  <2> QED
    BY <1>3, <2>1, <2>2, <2>3 DEF IInv, TypeOK
<1>6. LoginIsSound'
  <2>1. GuessesHaveNonces'
    <3>1. guesses \in Nat /\ nonces \in Nat
      BY DEF IInv, TypeOK
    <3> QED
      BY <1>1, <1>2, <3>1 DEF IInv, LoginIsSound, GuessesHaveNonces
  <2> QED
    BY <1>1, <1>2, <2>1
    DEF LoginIsSound, FailsCountGuesses, WaitIsCovered, GuessesAreBounded
<1> QED
  BY <1>3, <1>5, <1>6 DEF IInv

LEMMA LoginWrongKeeps ==
    ASSUME IInv, NEW c \in Clients, NEW p \in Passwords, LoginWrong(c, p) PROVE IInv'
<1> USE BoundsAssumption, LockoutAssumption
<1>1. /\ Evaluate(c)
      /\ fails' = Counted(fails) /\ locked' = Lockout(fails') /\ guesses' = guesses + 1
      /\ locked = 0 /\ UNCHANGED waited
      /\ UNCHANGED <<credential, window, offer, http, console, login, salted, nonces, salts>>
      /\ UNCHANGED <<sessions, cookie, tokens>>
  BY DEF LoginWrong, Evaluate
<1>2. /\ challenges' \in [ChallengeSlots -> Challenge \cup {Free}]
      /\ answered' \in [1..MaxNonces -> Nat]
      /\ NonceAnsweredOnce' /\ NoncesAreFresh'
      /\ Cardinality(InTable) \in Nat
      /\ Cardinality(InTable') \in Nat /\ Cardinality(InTable') = Cardinality(InTable) - 1
  BY <1>1, Evaluating
<1>3. fails \in 0..FailMax /\ guesses \in Nat /\ waited \in Nat /\ nonces \in 0..MaxNonces
  BY DEF IInv, TypeOK, MaxWait
<1>4. fails' \in 0..FailMax /\ FailsCountGuesses'
  BY <1>1, <1>3 DEF IInv, LoginIsSound, FailsCountGuesses, Counted
<1>5. locked' \in 0..LockMax /\ (Threshold <= guesses' => LockBase <= locked')
  <2>1. Threshold <= guesses' => Threshold <= fails'
    BY <1>1, <1>3, <1>4 DEF FailsCountGuesses
  <2> QED
    BY <1>1, <1>4, <2>1, LockoutIsEnough
<1>6. GuessesHaveNonces' /\ guesses' \in 0..MaxNonces
  BY <1>1, <1>2, <1>3 DEF IInv, LoginIsSound, GuessesHaveNonces
<1>7. WaitIsCovered' /\ GuessesAreBounded'
  <2>1. CASE guesses >= Threshold
    <3> DEFINE paid == ((guesses - Threshold) + 1) * LockBase
    <3>1. waited >= paid
      BY <1>1, <1>3, <2>1 DEF IInv, LoginIsSound, WaitIsCovered
    <3>2. /\ (guesses' - Threshold) * LockBase = paid
          /\ ((guesses' - Threshold) + 1) * LockBase = paid + LockBase
          /\ paid \in Int
      BY <1>1, <1>3
    <3>3. LockBase <= locked' /\ waited' = waited /\ guesses' >= Threshold
      BY <1>1, <1>3, <1>5, <2>1
    <3> HIDE DEF paid
    <3> QED
      BY <1>3, <1>5, <3>1, <3>2, <3>3 DEF WaitIsCovered, GuessesAreBounded
  <2>2. CASE guesses + 1 = Threshold
    <3>1. guesses' = Threshold /\ ~(guesses' > Threshold)
      BY <1>1, <2>2
    <3>2. ((guesses' - Threshold) + 1) * LockBase = LockBase
      BY <3>1
    <3>3. waited' + locked' >= LockBase
      BY <1>1, <1>3, <1>5, <3>1
    <3> QED
      BY <3>1, <3>2, <3>3, Zenon DEF WaitIsCovered, GuessesAreBounded
  <2>3. CASE guesses + 1 < Threshold
    BY <1>1, <1>3, <2>3 DEF WaitIsCovered, GuessesAreBounded
  <2> QED
    BY <1>3, <2>1, <2>2, <2>3
<1>8. TypeOK'
  BY <1>1, <1>2, <1>4, <1>5, <1>6 DEF IInv, TypeOK
<1>9. LoginIsSound'
  BY <1>2, <1>4, <1>6, <1>7 DEF LoginIsSound
<1>10. SessionsAreSound'
  BY <1>1, SessionFrame DEF IInv
<1> QED
  BY <1>8, <1>9, <1>10 DEF IInv

-----------------------------------------------------------------------------
(* Requests of a session, and setting the password.                        *)
LEMMA SessionStepKeeps ==
    ASSUME IInv, NEW c \in Clients, SessionStep(c) PROVE IInv'
<1> USE BoundsAssumption
<1>1. CASE Request(c)
  <2>1. sessions' = Checked(c)
    BY <1>1 DEF Request
  <2>2. UNCHANGED <<credential, window, challenges, fails, locked, offer, http, console,
                    login, cookie, salted, nonces, tokens, salts, answered, guesses, waited>>
    BY <1>1 DEF Request, clients, serials, history
  <2>3. TypeOK'
    BY <2>1, <2>2, Checking DEF IInv, TypeOK
  <2>4. LoginIsSound'
    BY <2>2, LoginFrame DEF IInv, loginVars
  <2>5. SessionsAreSound'
    BY <2>1, <2>2, Checking, SessionFrame DEF IInv
  <2> QED
    BY <2>3, <2>4, <2>5 DEF IInv
<1>2. CASE Logout(c)
  <2>1. \A s \in SessionSlots : sessions'[s] \in {sessions[s], Free}
    BY <1>2 DEF Logout
  <2>2. /\ sessions' \in [SessionSlots -> Session \cup {Free}]
        /\ cookie' \in [Clients -> 0..MaxTokens]
    <3>1. sessions' = [s \in SessionSlots |-> IF s \in SlotsOf(c) THEN Free ELSE sessions[s]]
      BY <1>2 DEF Logout
    <3>2. 0 \in 0..MaxTokens
      OBVIOUS
    <3> QED
      BY <1>2, <3>1, <3>2 DEF Logout, IInv, TypeOK
  <2>3. UNCHANGED <<credential, window, challenges, fails, locked, offer, http, console,
                    login, salted, nonces, tokens, salts, answered, guesses, waited>>
    BY <1>2 DEF Logout, serials, history
  <2>4. TypeOK'
    BY <2>2, <2>3 DEF IInv, TypeOK
  <2>5. LoginIsSound'
    BY <2>3, LoginFrame DEF IInv, loginVars
  <2>6. SessionsAreSound'
    BY <2>1, <2>3, SessionFrame DEF IInv
  <2> QED
    BY <2>4, <2>5, <2>6 DEF IInv
<1> QED
  BY <1>1, <1>2 DEF SessionStep

LEMMA PasswordStepKeeps ==
    ASSUME IInv, NEW c \in Clients, PasswordStep(c) PROVE IInv'
<1> USE BoundsAssumption, TimersAssumption
<1>1. CASE NewSalt(c)
  <2>1. sessions' = Checked(c)
    BY <1>1 DEF NewSalt
  <2>2. UNCHANGED <<credential, window, challenges, fails, locked, http, console,
                    login, cookie, nonces, tokens, answered, guesses, waited>>
    BY <1>1 DEF NewSalt, history
  <2>3. salts + 1 \in 1..MaxSalts /\ salts + 1 \in 0..MaxSalts /\ 0 \in 0..SaltTTL
    BY <1>1 DEF NewSalt, IInv, TypeOK
  <2>4. /\ salts' \in 0..MaxSalts /\ salted' \in [Clients -> 0..MaxSalts]
        /\ offer' \in [salt : 1..MaxSalts, age : 0..SaltTTL] \cup {Free}
    BY <1>1, <2>3 DEF NewSalt, IInv, TypeOK
  <2>5. TypeOK'
    BY <2>1, <2>2, <2>4, Checking DEF IInv, TypeOK
  <2>6. LoginIsSound'
    BY <2>2, LoginFrame DEF IInv, loginVars
  <2>7. SessionsAreSound'
    BY <2>1, <2>2, Checking, SessionFrame DEF IInv
  <2> QED
    BY <2>5, <2>6, <2>7 DEF IInv
<1>2. ASSUME NEW p \in Passwords, PostPassword(c, p) PROVE IInv'
  <2> DEFINE work == [password |-> p, derived |-> salted[c], salt |-> offer.salt]
  <2>1. sessions' = Checked(c) /\ offer' = Free
        /\ http' = [at |-> "commit", client |-> c, work |-> work]
    BY <1>2 DEF PostPassword
  <2>2. UNCHANGED <<credential, window, challenges, fails, locked, console, login, cookie,
                    salted, nonces, tokens, salts, answered, guesses, waited>>
    BY <1>2 DEF PostPassword, clients, serials, history
  <2>3. work \in Credential
    <3>1. salted[c] \in 0..MaxSalts /\ salted[c] # 0
      BY <1>2 DEF PostPassword, IInv, TypeOK
    <3>2. offer \in [salt : 1..MaxSalts, age : 0..SaltTTL]
      BY <1>2 DEF PostPassword, IInv, TypeOK
    <3>3. salted[c] \in 1..MaxSalts
      BY <3>1
    <3> QED
      BY <3>2, <3>3 DEF Credential
  <2> HIDE DEF work
  <2>4. http' \in Requests /\ http'.at = "commit"
    BY <2>1, <2>3, Shapes
  <2>5. TypeOK'
    BY <2>1, <2>2, <2>4, Checking DEF IInv, TypeOK
  <2>6. LoginIsSound'
    BY <2>2, LoginFrame DEF IInv, loginVars
  <2>7. SessionsAreSound'
    BY <2>1, <2>2, <2>4, Checking, SessionFrame DEF IInv
  <2> QED
    BY <2>5, <2>6, <2>7 DEF IInv
<1> QED
  BY <1>1, <1>2 DEF PasswordStep

LEMMA CommitPasswordKeeps == IInv /\ CommitPassword => IInv'
<1> SUFFICES ASSUME IInv, CommitPassword PROVE IInv'
  OBVIOUS
<1>1. UNCHANGED <<challenges, fails, locked, sessions, offer, console, login, cookie, salted,
                  nonces, tokens, salts, answered, guesses, waited>>
  BY DEF CommitPassword, auth, clients, serials, history
<1>2. http \in Requests /\ http.at = "commit" /\ http.work \in Credential /\ http.client \in Clients
  BY Shapes DEF CommitPassword, IInv, TypeOK
<1>3. /\ credential' \in Credential \cup {NoCredential}
      /\ http' \in Requests /\ http'.at # "open"
  BY <1>2, Shapes DEF CommitPassword, IInv, TypeOK
<1>4. window' \in BOOLEAN
  BY DEF CommitPassword, IInv, TypeOK
<1>5. TypeOK'
  BY <1>1, <1>3, <1>4 DEF IInv, TypeOK
<1>6. LoginIsSound'
  BY <1>1, LoginFrame DEF IInv, loginVars
<1>7. SessionsAreSound'
  BY <1>1, <1>3, SessionFrame DEF IInv
<1> QED
  BY <1>5, <1>6, <1>7 DEF IInv

LEMMA DropSessionsKeeps == IInv /\ DropSessions => IInv'
<1> SUFFICES ASSUME IInv, DropSessions PROVE IInv'
  OBVIOUS
<1>1. UNCHANGED <<credential, window, challenges, fails, locked, offer, console, login, cookie,
                  salted, nonces, tokens, salts, answered, guesses, waited>>
  BY DEF DropSessions, clients, serials, history
<1>2. http' \in Requests
  BY Shapes DEF DropSessions, IInv, TypeOK
<1>3. /\ sessions' \in [SessionSlots -> Session \cup {Free}]
      /\ \A s \in SessionSlots : sessions'[s] = Free
  BY DEF DropSessions, NoSessions
<1>4. TypeOK'
  BY <1>1, <1>2, <1>3 DEF IInv, TypeOK
<1>5. LoginIsSound'
  BY <1>1, LoginFrame DEF IInv, loginVars
<1>6. SessionsAreSound'
  BY <1>3 DEF SessionsAreSound
<1> QED
  BY <1>4, <1>5, <1>6 DEF IInv

LEMMA OpenSessionKeeps == IInv /\ OpenSession => IInv'
<1> SUFFICES ASSUME IInv, OpenSession PROVE IInv'
  OBVIOUS
<1> USE BoundsAssumption, LockoutAssumption
<1>1. /\ UNCHANGED <<credential, window, challenges, offer, console, login, salted, nonces,
                     salts, answered>>
      /\ fails' = 0 /\ locked' = 0 /\ guesses' = 0 /\ waited' = 0
      /\ http' = NoRequest /\ CreateSession(http.client)
  BY DEF OpenSession
<1>2. http.client \in Clients /\ http' \in Requests /\ http'.at # "open"
  BY <1>1, Shapes DEF OpenSession, IInv, TypeOK
<1>3. /\ tokens' \in 0..MaxTokens
      /\ cookie' \in [Clients -> 0..MaxTokens]
      /\ sessions' \in [SessionSlots -> Session \cup {Free}]
      /\ SessionsAreSound'
  BY <1>1, <1>2, CreatingIsSound DEF IInv
<1>4. fails' \in 0..FailMax /\ locked' \in 0..LockMax /\ guesses' \in 0..MaxNonces
      /\ waited' \in 0..MaxWait
  BY <1>1 DEF MaxWait
<1>5. TypeOK'
  <2>1. UNCHANGED <<credential, window, challenges, offer, console, login, salted, nonces,
                    salts, answered>>
    BY <1>1
  <2> QED
    BY <1>2, <1>3, <1>4, <2>1 DEF IInv, TypeOK
<1>6. NoncesAreFresh' /\ NonceAnsweredOnce' /\ InTable' = InTable
  BY <1>1 DEF IInv, LoginIsSound, NoncesAreFresh, NonceAnsweredOnce, InTable
<1>7. GuessesHaveNonces'
  <2>1. IsFiniteSet(InTable)
    BY SlotsAssumption, FS_Subset DEF InTable
  <2>2. Cardinality(InTable) \in Nat /\ guesses \in Nat /\ nonces \in Nat
    BY <2>1, FS_CardinalityType DEF IInv, TypeOK
  <2> QED
    BY <1>1, <1>6, <2>2 DEF IInv, LoginIsSound, GuessesHaveNonces
<1>8. FailsCountGuesses' /\ WaitIsCovered' /\ GuessesAreBounded'
  BY <1>1 DEF FailsCountGuesses, WaitIsCovered, GuessesAreBounded
<1> QED
  BY <1>3, <1>5, <1>6, <1>7, <1>8 DEF IInv, LoginIsSound

LEMMA ConsoleKeeps == IInv /\ (ResetAuth \/ ResetAuthDrops \/ Reopen) => IInv'
<1> SUFFICES ASSUME IInv, ResetAuth \/ ResetAuthDrops \/ Reopen PROVE IInv'
  OBVIOUS
<1>1. UNCHANGED <<challenges, fails, locked, offer, http, login, cookie, salted, nonces, tokens,
                  salts, answered, guesses, waited>>
  BY DEF ResetAuth, ResetAuthDrops, Reopen, auth, clients, serials, history
<1>2. sessions' = sessions \/ sessions' = NoSessions
  BY DEF ResetAuth, ResetAuthDrops, Reopen, auth
<1>3. /\ sessions' \in [SessionSlots -> Session \cup {Free}]
      /\ \A s \in SessionSlots : sessions'[s] \in {sessions[s], Free}
  BY <1>2 DEF NoSessions, IInv, TypeOK
<1>4. credential' \in Credential \cup {NoCredential} /\ console' \in {"idle", "drop"}
  BY DEF ResetAuth, ResetAuthDrops, Reopen, IInv, TypeOK
<1>5. window' \in BOOLEAN
  BY DEF ResetAuth, ResetAuthDrops, Reopen, IInv, TypeOK
<1>6. TypeOK'
  BY <1>1, <1>3, <1>4, <1>5 DEF IInv, TypeOK
<1>7. LoginIsSound'
  BY <1>1, LoginFrame DEF IInv, loginVars
<1>8. SessionsAreSound'
  BY <1>1, <1>3, SessionFrame DEF IInv
<1> QED
  BY <1>6, <1>7, <1>8 DEF IInv

(* Time passes: what a lockout loses, the wait gains, unless it has waited *)
(* as long as the bound on it, which covers every guess there may be.      *)
LEMMA TickSessions ==
    ASSUME TypeOK, Tick
    PROVE  /\ sessions' \in [SessionSlots -> Session \cup {Free}]
           /\ \A s \in SessionSlots : sessions'[s] # Free =>
                 /\ sessions[s] # Free /\ sessions'[s].token = sessions[s].token
                 /\ sessions[s].idle <= sessions'[s].idle
<1>1. ASSUME NEW s \in SessionSlots, sessions[s] # Free
      PROVE  /\ sessions'[s] \in Session /\ sessions'[s].token = sessions[s].token
             /\ sessions[s].idle <= sessions'[s].idle
  <2> DEFINE x == sessions[s]
             i == Older(x.idle, Idle + 1)
             l == Older(x.life, Absolute + 1)
  <2>1. x \in Session /\ x.idle \in 0..(Idle + 1) /\ x.life \in 0..(Absolute + 1)
    BY <1>1 DEF TypeOK, Session
  <2>2. Idle + 1 \in Nat /\ Absolute + 1 \in Nat
    BY TimersAssumption
  <2>3. i \in 0..(Idle + 1) /\ l \in 0..(Absolute + 1) /\ x.idle <= i
    BY <2>1, <2>2, Ageing
  <2>4. sessions'[s] = [x EXCEPT !.idle = i, !.life = l]
    BY <1>1 DEF Tick
  <2> HIDE DEF x, i, l
  <2>5. sessions'[s] \in Session /\ sessions'[s].token = x.token /\ sessions'[s].idle = i
    BY <2>1, <2>3, <2>4 DEF Session
  <2> QED
    BY <2>3, <2>5 DEF x
<1>2. ASSUME NEW s \in SessionSlots, sessions[s] = Free PROVE sessions'[s] = Free
  BY <1>2 DEF Tick
<1>3. sessions' \in [SessionSlots -> Session \cup {Free}]
  <2>1. sessions' = [s \in SessionSlots |-> sessions'[s]]
    BY DEF Tick
  <2> QED
    BY <1>1, <1>2, <2>1
<1> QED
  BY <1>1, <1>2, <1>3

LEMMA TickChallenges ==
    ASSUME TypeOK, Tick
    PROVE  /\ challenges' \in [ChallengeSlots -> Challenge \cup {Free}]
           /\ \A s \in ChallengeSlots :
                 /\ challenges[s] = Free <=> challenges'[s] = Free
                 /\ challenges[s] # Free => challenges'[s].nonce = challenges[s].nonce
<1>1. ASSUME NEW s \in ChallengeSlots, challenges[s] # Free
      PROVE  challenges'[s] \in Challenge /\ challenges'[s].nonce = challenges[s].nonce
  <2> DEFINE x == challenges[s]
             a == Older(x.age, ChallengeTTL)
  <2>1. x \in Challenge /\ x.age \in 0..ChallengeTTL
    BY <1>1 DEF TypeOK, Challenge
  <2>2. a \in 0..ChallengeTTL
    BY <2>1, Ageing, TimersAssumption
  <2>3. challenges'[s] = [x EXCEPT !.age = a]
    BY <1>1 DEF Tick
  <2> HIDE DEF x, a
  <2>4. challenges'[s] \in Challenge /\ challenges'[s].nonce = x.nonce
    BY <2>1, <2>2, <2>3 DEF Challenge
  <2> QED
    BY <2>4 DEF x
<1>2. ASSUME NEW s \in ChallengeSlots, challenges[s] = Free PROVE challenges'[s] = Free
  BY <1>2 DEF Tick
<1>3. challenges' \in [ChallengeSlots -> Challenge \cup {Free}]
  <2>1. challenges' = [s \in ChallengeSlots |-> challenges'[s]]
    BY DEF Tick
  <2> QED
    BY <1>1, <1>2, <2>1
<1>4. Free \notin Challenge
  BY ValuesAssumption
<1> QED
  BY <1>1, <1>2, <1>3, <1>4

LEMMA TickKeeps == IInv /\ Tick => IInv'
<1> SUFFICES ASSUME IInv, Tick PROVE IInv'
  OBVIOUS
<1> USE BoundsAssumption, TimersAssumption, LockoutAssumption
<1>1. UNCHANGED <<credential, window, fails, http, console, login, cookie, salted, nonces, tokens,
                  salts, answered, guesses>>
  BY DEF Tick, clients, serials
<1>2. offer' \in [salt : 1..MaxSalts, age : 0..SaltTTL] \cup {Free}
  <2>1. CASE offer = Free
    BY <2>1 DEF Tick
  <2>2. CASE offer # Free
    <3>1. offer \in [salt : 1..MaxSalts, age : 0..SaltTTL]
      BY <2>2 DEF IInv, TypeOK
    <3>2. Older(offer.age, SaltTTL) \in 0..SaltTTL
      BY <3>1, Ageing
    <3> QED
      BY <2>2, <3>1, <3>2 DEF Tick
  <2> QED
    BY <2>1, <2>2
<1>3. locked \in 0..LockMax /\ waited \in 0..MaxWait /\ guesses \in 0..MaxNonces
  BY DEF IInv, TypeOK
<1>4. MaxWait \in Nat
  BY DEF MaxWait
<1>5. /\ locked' = (IF locked > 0 THEN locked - 1 ELSE 0)
      /\ waited' = IF guesses < Threshold THEN 0
                   ELSE IF waited < MaxWait THEN waited + 1 ELSE waited
  BY DEF Tick, Older
<1>6. locked' \in 0..LockMax /\ waited' \in 0..MaxWait
  BY <1>3, <1>4, <1>5
<1>7. TypeOK'
  BY <1>1, <1>2, <1>6, TickSessions, TickChallenges DEF IInv, TypeOK
<1>8. NoncesAreFresh' /\ NonceAnsweredOnce' /\ InTable' = InTable
  <2>1. InTable' = InTable /\ \A s \in InTable : challenges'[s].nonce = challenges[s].nonce
    BY TickChallenges DEF InTable, IInv
  <2> QED
    BY <1>1, <2>1 DEF IInv, LoginIsSound, NoncesAreFresh, NonceAnsweredOnce
<1>9. GuessesHaveNonces' /\ FailsCountGuesses'
  BY <1>1, <1>8 DEF IInv, LoginIsSound, GuessesHaveNonces, FailsCountGuesses
<1>10. WaitIsCovered' /\ GuessesAreBounded'
  <2>1. CASE guesses < Threshold
    BY <1>1, <1>3, <2>1 DEF WaitIsCovered, GuessesAreBounded
  <2>2. CASE guesses >= Threshold
    <3> DEFINE made == (guesses - Threshold) * LockBase
               next == ((guesses - Threshold) + 1) * LockBase
    <3>1. next = made + LockBase /\ made \in Int /\ next \in Int
      BY <1>3, <2>2
    <3>2. next <= MaxWait
      <4>1. (guesses - Threshold) + 1 \in Nat /\ (guesses - Threshold) + 1 <= MaxNonces
        BY <1>3, <2>2
      <4>2. \A a, b, k \in Nat : a <= b => a * k <= b * k
        OBVIOUS
      <4> QED
        BY <4>1, <4>2 DEF MaxWait
    <3>3. waited + locked >= next /\ (guesses > Threshold => waited >= made)
      BY <2>2 DEF IInv, LoginIsSound, WaitIsCovered, GuessesAreBounded
    <3> HIDE DEF made, next
    <3>4. waited' + locked' >= next /\ (guesses > Threshold => waited' >= made)
      BY <1>3, <1>4, <1>5, <2>2, <3>1, <3>2, <3>3
    <3> QED
      BY <1>1, <3>4 DEF WaitIsCovered, GuessesAreBounded, made, next
  <2> QED
    BY <1>3, <2>1, <2>2
<1>11. SessionsAreSound'
  BY <1>1, TickSessions, SessionFrame DEF IInv
<1> QED
  BY <1>7, <1>8, <1>9, <1>10, <1>11 DEF IInv, LoginIsSound

(* The invariant holds of every reachable state.                           *)
THEOREM Inductive == Spec => []IInv
<1>1. ASSUME IInv, [Next]_vars PROVE IInv'
  <2>1. CASE UNCHANGED vars
    <3>1. UNCHANGED <<credential, window, challenges, fails, locked, sessions, offer, http, console,
                      login, cookie, salted, nonces, tokens, salts, answered, guesses, waited>>
      BY <2>1 DEF vars, auth, clients, serials, history
    <3>2. TypeOK'
      BY <1>1, <3>1 DEF IInv, TypeOK
    <3>3. LoginIsSound' /\ SessionsAreSound'
      BY <1>1, <3>1, LoginFrame, SessionFrame DEF IInv, loginVars
    <3> QED
      BY <3>2, <3>3 DEF IInv
  <2>2. ASSUME NEW c \in Clients, LoginStep(c) PROVE IInv'
    BY <1>1, <2>2, GetChallengeKeeps, LoginRightKeeps, LoginWrongKeeps DEF LoginStep
  <2> QED
    BY <1>1, <2>1, <2>2, SessionStepKeeps, PasswordStepKeeps, CommitPasswordKeeps,
       DropSessionsKeeps, OpenSessionKeeps, ConsoleKeeps, TickKeeps DEF Next
<1> QED
  BY <1>1, InitIsSound, PTL DEF Spec

(* A wrong answer past the threshold costs at least the base lockout each, *)
(* however requests are spread over clients, challenges and time           *)
(* (auth.c:18-26, 412-427).                                                *)
THEOREM GuessesCostTime == Spec => []GuessesAreBounded
<1>1. IInv => GuessesAreBounded
  BY DEF IInv, LoginIsSound
<1> QED
  BY <1>1, Inductive, PTL

(* A second answer to a nonce is never evaluated (auth.c:368-385).         *)
THEOREM NoncesAreOneTime == Spec => []NonceAnsweredOnce
<1>1. IInv => NonceAnsweredOnce
  BY DEF IInv, LoginIsSound
<1> QED
  BY <1>1, Inductive, PTL

-----------------------------------------------------------------------------
(* What a step may do to the tables.                                       *)
LEMMA TableSteps ==
    ASSUME IInv, Next
    PROVE  /\ \/ UNCHANGED challenges
              \/ Tick
              \/ \E s \in ChallengeSlots : challenges' = Consumed(s)
              \/ \E s \in ChallengeSlot :
                    challenges' = [challenges EXCEPT ![s] = [nonce |-> nonces + 1, age |-> 0]]
           /\ \/ \A s \in SessionSlots : sessions'[s] \in {sessions[s], Free}
              \/ Tick
              \/ \E c \in Clients : sessions' = Checked(c)
              \/ \E c \in Clients : CreateSession(c)
<1>1. ASSUME NEW c \in Clients, GetChallenge(c)
      PROVE  /\ \E s \in ChallengeSlot :
                    challenges' = [challenges EXCEPT ![s] = [nonce |-> nonces + 1, age |-> 0]]
             /\ sessions' = sessions
  BY <1>1 DEF GetChallenge
<1>2. ASSUME NEW c \in Clients, NEW p \in Passwords, LoginRight(c, p) \/ LoginWrong(c, p)
      PROVE  /\ \E s \in ChallengeSlots : challenges' = Consumed(s)
             /\ sessions' = sessions \/ CreateSession(c)
  BY <1>2 DEF LoginRight, LoginWrong, Evaluate, PendingFor
<1>3. ASSUME NEW c \in Clients, SessionStep(c) \/ PasswordStep(c)
      PROVE  /\ UNCHANGED challenges
             /\ \/ sessions' = Checked(c)
                \/ \A s \in SessionSlots : sessions'[s] \in {sessions[s], Free}
  BY <1>3 DEF SessionStep, PasswordStep, Request, Logout, NewSalt, PostPassword
<1>4. ASSUME CommitPassword \/ DropSessions \/ ResetAuth \/ ResetAuthDrops \/ Reopen
      PROVE  /\ UNCHANGED challenges
             /\ \A s \in SessionSlots : sessions'[s] \in {sessions[s], Free}
  BY <1>4 DEF CommitPassword, DropSessions, ResetAuth, ResetAuthDrops, Reopen, NoSessions, auth
<1>5. ASSUME OpenSession
      PROVE  UNCHANGED challenges /\ \E c \in Clients : CreateSession(c)
  <2>1. http.client \in Clients
    BY <1>5, Shapes DEF OpenSession, IInv, TypeOK
  <2> QED
    BY <1>5, <2>1 DEF OpenSession
<1>6. CASE \E c \in Clients : LoginStep(c)
  BY <1>1, <1>2, <1>6 DEF LoginStep
<1>7. CASE \E c \in Clients : SessionStep(c) \/ PasswordStep(c)
  BY <1>3, <1>7
<1> QED
  BY <1>4, <1>5, <1>6, <1>7 DEF Next

(* One client's traffic does not take another's challenge or session: a    *)
(* table evicts only when it is full, and the least recent entry only      *)
(* (auth.c:160-235).                                                       *)
OnlyChallenges ==
    \A s \in ChallengeSlots :
        ~ReusableChallenge(s) /\ challenges'[s] # Free
            /\ challenges'[s].nonce # challenges[s].nonce =>
        \A t \in ChallengeSlots :
            ~ReusableChallenge(t) /\ ChallengeAge(t) <= ChallengeAge(s)

OnlySessions ==
    \A s \in SessionSlots :
        sessions[s] # Free /\ sessions'[s] # Free
            /\ sessions'[s].token # sessions[s].token =>
        \A t \in SessionSlots :
            sessions[t] # Free /\ sessions[t].idle <= sessions[s].idle

LEMMA ChallengesGiveWay == IInv /\ Next => OnlyChallenges
<1> SUFFICES ASSUME IInv, Next, NEW s \in ChallengeSlots, ~ReusableChallenge(s),
                    challenges'[s] # Free, challenges'[s].nonce # challenges[s].nonce
             PROVE  \A t \in ChallengeSlots :
                        ~ReusableChallenge(t) /\ ChallengeAge(t) <= ChallengeAge(s)
  BY DEF OnlyChallenges
<1>1. ~Tick
  BY TickChallenges DEF IInv, ReusableChallenge
<1>2. ~\E t \in ChallengeSlots : challenges' = Consumed(t)
  BY DEF Consumed, IInv, TypeOK
<1>3. PICK u \in ChallengeSlot :
            challenges' = [challenges EXCEPT ![u] = [nonce |-> nonces + 1, age |-> 0]]
  BY <1>1, <1>2, TableSteps
<1>4. u = s
  BY <1>3 DEF IInv, TypeOK
<1> QED
  BY <1>3, <1>4 DEF ChallengeSlot

LEMMA SessionsGiveWay == IInv /\ Next => OnlySessions
<1> SUFFICES ASSUME IInv, Next, NEW s \in SessionSlots, sessions[s] # Free,
                    sessions'[s] # Free, sessions'[s].token # sessions[s].token
             PROVE  \A t \in SessionSlots :
                        sessions[t] # Free /\ sessions[t].idle <= sessions[s].idle
  BY DEF OnlySessions
<1>1. ~Tick
  BY TickSessions DEF IInv
<1>2. ~\E c \in Clients : sessions' = Checked(c)
  BY Checking DEF IInv
<1>3. PICK c \in Clients : CreateSession(c)
  BY <1>1, <1>2, TableSteps
<1>4. PICK u \in SessionSlot : \A t \in SessionSlots \ {u} : sessions'[t] = sessions[t]
  BY <1>3, Creating DEF IInv
<1>5. u = s
  BY <1>4
<1> QED
  BY <1>4, <1>5 DEF SessionSlot

THEOREM EvictionIsFair == Spec => OnlyTheLeastRecentGivesWay
<1>1. IInv /\ [Next]_vars => [OnlyChallenges /\ OnlySessions]_vars
  BY ChallengesGiveWay, SessionsGiveWay
<1> QED
  BY <1>1, Inductive, PTL DEF Spec, OnlyTheLeastRecentGivesWay, OnlyChallenges, OnlySessions

(* However steadily it is used, no session lets a request in past its      *)
(* absolute lifetime (auth.c:32-43, 447-456).                              *)
UsedInTime ==
    \A s \in SessionSlots :
        sessions[s] # Free /\ sessions'[s] # Free
            /\ sessions'[s].token = sessions[s].token
            /\ sessions'[s].idle < sessions[s].idle =>
        sessions[s].life <= Absolute

LEMMA TouchedInTime == IInv /\ Next => UsedInTime
<1> SUFFICES ASSUME IInv, Next, NEW s \in SessionSlots, sessions[s] # Free, sessions'[s] # Free,
                    sessions'[s].token = sessions[s].token,
                    sessions'[s].idle < sessions[s].idle
             PROVE  sessions[s].life <= Absolute
  BY DEF UsedInTime
<1>1. /\ sessions[s] \in Session /\ sessions[s].idle \in Nat /\ sessions[s].life \in Nat
      /\ Absolute \in Nat /\ sessions[s].token \in Nat
      /\ sessions[s].token <= tokens /\ tokens \in Nat
  <2>1. sessions[s] \in Session
    BY DEF IInv, TypeOK
  <2> QED
    BY <2>1, TimersAssumption, BoundsAssumption DEF Session, IInv, TypeOK, SessionsAreSound
<1>2. ~Tick
  <2> SUFFICES ASSUME Tick PROVE FALSE
    OBVIOUS
  <2>1. sessions[s].idle <= sessions'[s].idle /\ sessions'[s] \in Session
    BY TickSessions DEF IInv
  <2>2. sessions'[s].idle \in Nat
    BY <2>1, TimersAssumption DEF Session
  <2> QED
    BY <1>1, <2>1, <2>2
<1>3. sessions'[s] # sessions[s]
  <2> SUFFICES ASSUME sessions'[s] = sessions[s] PROVE FALSE
    OBVIOUS
  <2>1. sessions[s].idle < sessions[s].idle
    OBVIOUS
  <2> QED
    BY <1>1, <2>1
<1>4. ASSUME NEW c \in Clients, CreateSession(c) PROVE FALSE
  <2>1. PICK u \in SessionSlots : /\ sessions'[u].token = tokens + 1
                                  /\ \A t \in SessionSlots \ {u} : sessions'[t] = sessions[t]
    BY <1>4, Creating DEF IInv
  <2>2. u = s
    BY <1>3, <2>1
  <2> QED
    BY <1>1, <2>1, <2>2
<1>5. PICK c \in Clients : sessions' = Checked(c)
  BY <1>2, <1>3, <1>4, TableSteps
<1>6. ~Expired(s)
  BY <1>3, <1>5, Checking DEF IInv
<1> QED
  BY <1>1, <1>6 DEF Expired

THEOREM SessionsEnd == Spec => NoneUsedPastItsLife
<1>1. IInv /\ [Next]_vars => [UsedInTime]_vars
  BY TouchedInTime
<1> QED
  BY <1>1, Inductive, PTL DEF Spec, NoneUsedPastItsLife, UsedInTime

(* A password change leaves its author logged in and nobody else           *)
(* (auth.c:584-592).                                                       *)
THEOREM OneSessionIsLeft == Spec => ChangeLeavesOneSession
<1>1. IInv => [OpenSession => Cardinality({s \in SessionSlots : sessions'[s] # Free}) = 1]_vars
  <2> SUFFICES ASSUME IInv, OpenSession
               PROVE  Cardinality({s \in SessionSlots : sessions'[s] # Free}) = 1
    OBVIOUS
  <2>1. \A s \in SessionSlots : sessions[s] = Free
    BY DEF OpenSession, IInv, SessionsAreSound
  <2>2. http.client \in Clients /\ CreateSession(http.client)
    BY Shapes DEF OpenSession, IInv, TypeOK
  <2>3. PICK u \in SessionSlots : /\ sessions'[u] # Free
                                  /\ \A t \in SessionSlots \ {u} : sessions'[t] = sessions[t]
    BY <2>2, Creating DEF IInv
  <2>4. {s \in SessionSlots : sessions'[s] # Free} = {u}
    BY <2>1, <2>3
  <2> QED
    BY <2>4, FS_Singleton
<1> QED
  BY <1>1, Inductive, PTL DEF ChangeLeavesOneSession

=============================================================================
