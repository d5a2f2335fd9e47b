---------------------------- MODULE AuthSessions ----------------------------
(***************************************************************************)
(* Logging in and changing the password (auth.c and its handlers in        *)
(* web_ui.c): the challenge table, the lockout, the session table and the  *)
(* one salt on offer, all in RAM under s_auth_lock, against the console's  *)
(* gwcfg-reset-auth.                                                       *)
(*                                                                         *)
(* The web server is one task, so requests do not overlap; changing the    *)
(* password lets go of the locks between its steps, and there the console  *)
(* may run.  What may happen before the first of those steps changes       *)
(* nothing the request looks at later, and is not a step of its own.       *)
(*                                                                         *)
(* A nonce, a token and a salt are serial numbers, 0 for none.  A key is   *)
(* the password and the salt it was derived from, so an answer is right    *)
(* when both are those of the credential.  Clients run the login page:     *)
(* they answer with the nonce and salt they were last given.  Ages count   *)
(* up to the first value that is past the timer's limit.                   *)
(***************************************************************************)
EXTENDS Naturals, FiniteSets

CONSTANTS
    Clients, Passwords,
    SessionSlots, ChallengeSlots,   \* AUTH_SESSION_MAX, AUTH_CHALLENGE_MAX slots
    Threshold, LockBase, LockMax,   \* AUTH_LOCKOUT_*
    FailMax,                        \* UINT8_MAX
    ChallengeTTL, SaltTTL, Idle, Absolute,
    NoCredential, Free,
    MaxNonces, MaxTokens, MaxSalts  \* bounds

ASSUME LockoutAssumption ==
    /\ {Threshold, LockBase, LockMax, FailMax} \subseteq Nat
    /\ 0 < LockBase /\ LockBase <= LockMax
    /\ 0 < Threshold /\ Threshold <= FailMax
ASSUME TimersAssumption == {ChallengeTTL, SaltTTL, Idle, Absolute} \subseteq Nat \ {0}
ASSUME SlotsAssumption == IsFiniteSet(SessionSlots) /\ IsFiniteSet(ChallengeSlots)
ASSUME BoundsAssumption ==
    {MaxNonces, MaxTokens} \subseteq Nat /\ MaxSalts \in Nat \ {0}

VARIABLES
    credential,     \* the auth section of the live configuration:
    window,         \* the credential, and auth.onboarding_open
    challenges,     \* s_pending_challenges
    fails,          \* s_fail_count
    locked,         \* time left of s_locked_until_us
    sessions,       \* s_sessions
    offer,          \* s_pending_salt
    http,           \* the password request the web server is in the middle of
    console,        \* the console command in progress
    login,          \* per client: the challenge it was given and its salt
    cookie,         \* per client: the token in its cookie
    salted,         \* per client: the salt it was given for a new password
    nonces, tokens, salts,  \* serial numbers used
    answered,       \* per nonce: how many answers to it were evaluated
    guesses,        \* wrong answers evaluated since the lockout was reset
    waited          \* time since they reached the threshold

auth == <<challenges, fails, locked, sessions, offer>>
clients == <<login, cookie, salted>>
serials == <<nonces, tokens, salts>>
history == <<answered, guesses, waited>>
vars == <<credential, window, auth, http, console, clients, serials, history>>

Credential == [password : Passwords, derived : 1..MaxSalts, salt : 1..MaxSalts]
Challenge == [nonce : 1..MaxNonces, age : 0..ChallengeTTL]
Session == [token : 1..MaxTokens, idle : 0..(Idle + 1), life : 0..(Absolute + 1)]
NoRequest == [at |-> "idle"]
Requests ==
    {NoRequest} \cup [at : {"commit"}, client : Clients, work : Credential]
    \cup [at : {"drop", "open"}, client : Clients]
MaxWait == MaxNonces * LockBase    \* bound: as long as GuessesAreBounded asks for

ASSUME ValuesAssumption == NoCredential \notin Credential /\ Free \notin Challenge \cup Session

TypeOK ==
    /\ credential \in Credential \cup {NoCredential}
    /\ window \in BOOLEAN
    /\ challenges \in [ChallengeSlots -> Challenge \cup {Free}]
    /\ fails \in 0..FailMax
    /\ locked \in 0..LockMax
    /\ sessions \in [SessionSlots -> Session \cup {Free}]
    /\ offer \in [salt : 1..MaxSalts, age : 0..SaltTTL] \cup {Free}
    /\ http \in Requests
    /\ console \in {"idle", "drop"}
    /\ login \in [Clients -> [nonce : 0..MaxNonces, salt : 0..MaxSalts]]
    /\ cookie \in [Clients -> 0..MaxTokens]
    /\ salted \in [Clients -> 0..MaxSalts]
    /\ nonces \in 0..MaxNonces /\ tokens \in 0..MaxTokens /\ salts \in 0..MaxSalts
    /\ answered \in [1..MaxNonces -> Nat]
    /\ guesses \in 0..MaxNonces
    /\ waited \in 0..MaxWait

(* A device just booted, unclaimed or with a credential in flash.          *)
Init ==
    /\ \/ credential = NoCredential /\ window \in BOOLEAN /\ salts = 0
       \/ /\ credential \in [password : Passwords, derived : {1}, salt : {1}]
          /\ window = FALSE /\ salts = 1
    /\ challenges = [s \in ChallengeSlots |-> Free]
    /\ fails = 0 /\ locked = 0
    /\ sessions = [s \in SessionSlots |-> Free]
    /\ offer = Free
    /\ http = NoRequest
    /\ console = "idle"
    /\ login = [c \in Clients |-> [nonce |-> 0, salt |-> 0]]
    /\ cookie = [c \in Clients |-> 0]
    /\ salted = [c \in Clients |-> 0]
    /\ nonces = 0 /\ tokens = 0
    /\ answered = [n \in 1..MaxNonces |-> 0]
    /\ guesses = 0 /\ waited = 0

HttpIdle == http = NoRequest

-----------------------------------------------------------------------------
(* Slots, tokens and the lockout schedule.                                 *)

(* challenge_issue_locked(): an unused or expired slot, else the oldest.   *)
ChallengeAge(s) == challenges[s].age
ReusableChallenge(s) == challenges[s] = Free \/ ChallengeAge(s) >= ChallengeTTL
AnyChallengeSlot == ChallengeSlots
ChallengeSlot ==
    IF \E s \in ChallengeSlots : ReusableChallenge(s)
    THEN {s \in ChallengeSlots : ReusableChallenge(s)}
    ELSE {s \in ChallengeSlots :
            \A t \in ChallengeSlots : ChallengeAge(t) <= ChallengeAge(s)}

(* session_create_locked(): an unused slot, else the one not seen longest. *)
SessionSlot ==
    IF \E s \in SessionSlots : sessions[s] = Free
    THEN {s \in SessionSlots : sessions[s] = Free}
    ELSE {s \in SessionSlots :
            \A t \in SessionSlots : sessions[t].idle <= sessions[s].idle}

CreateSession(c) ==
    /\ tokens < MaxTokens
    /\ tokens' = tokens + 1
    /\ cookie' = [cookie EXCEPT ![c] = tokens + 1]
    /\ \E s \in SessionSlot :
        sessions' = [sessions EXCEPT ![s] = [token |-> tokens + 1, idle |-> 0, life |-> 0]]

(* The slot of a client's cookie, and whether it has run out of time.      *)
SlotsOf(c) == {s \in SessionSlots : sessions[s] # Free /\ sessions[s].token = cookie[c]}
ExpiredIfIdle(s) == sessions[s].idle > Idle
Expired(s) == sessions[s].idle > Idle \/ sessions[s].life > Absolute

(* auth_check_session(): a session is touched, or dropped if too old.      *)
LoggedIn(c) == \E s \in SlotsOf(c) : ~Expired(s)
Checked(c) ==
    [s \in SessionSlots |->
        IF s \notin SlotsOf(c) THEN sessions[s]
        ELSE IF Expired(s) THEN Free ELSE [sessions[s] EXCEPT !.idle = 0]]

(* Doubling from the threshold on, capped.                                 *)
Duration[n \in Nat] ==
    IF n = 0 THEN LockBase
    ELSE IF Duration[n - 1] < LockMax THEN 2 * Duration[n - 1] ELSE Duration[n - 1]
NoLockout(n) == 0
Lockout(n) ==
    IF n < Threshold THEN 0
    ELSE IF Duration[n - Threshold] > LockMax THEN LockMax ELSE Duration[n - Threshold]

Counted(n) == IF n < FailMax THEN n + 1 ELSE n

-----------------------------------------------------------------------------
(* GET /api/auth/challenge, refused while locked out or unclaimed.         *)
GetChallenge(c) ==
    /\ HttpIdle
    /\ credential # NoCredential
    /\ locked = 0
    /\ nonces < MaxNonces
    /\ nonces' = nonces + 1
    /\ \E s \in ChallengeSlot :
        challenges' = [challenges EXCEPT ![s] = [nonce |-> nonces + 1, age |-> 0]]
    /\ login' = [login EXCEPT ![c] = [nonce |-> nonces + 1, salt |-> credential.salt]]
    /\ UNCHANGED <<credential, window, fails, locked, sessions, offer, http, console,
                   cookie, salted, tokens, salts, history>>

(* auth_verify_login(), not locked out, with a nonce that is pending.  Any *)
(* other answer is refused and changes nothing.                            *)
PendingFor(c) ==
    {s \in ChallengeSlots :
        /\ challenges[s] # Free
        /\ challenges[s].nonce = login[c].nonce
        /\ challenges[s].age < ChallengeTTL}

ReusableNonce(s) == challenges
Consumed(s) == [challenges EXCEPT ![s] = Free]

Evaluate(c) ==
    /\ HttpIdle
    /\ locked = 0
    /\ \E s \in PendingFor(c) : challenges' = Consumed(s)
    /\ answered' = [answered EXCEPT ![login[c].nonce] = @ + 1]
    /\ UNCHANGED <<credential, window, offer, http, console, login, salted, nonces, salts>>

Right(c, p) ==
    /\ credential # NoCredential
    /\ credential.password = p
    /\ credential.derived = login[c].salt

LoginRight(c, p) ==
    /\ Right(c, p)
    /\ Evaluate(c)
    /\ fails' = 0 /\ locked' = 0
    /\ guesses' = 0 /\ waited' = 0
    /\ CreateSession(c)

LoginWrong(c, p) ==
    /\ ~Right(c, p)
    /\ Evaluate(c)
    /\ fails' = Counted(fails)
    /\ locked' = Lockout(fails')
    /\ guesses' = guesses + 1
    /\ UNCHANGED <<sessions, cookie, tokens, waited>>

-----------------------------------------------------------------------------
(* Any request that needs a session, or POST /api/auth/logout.             *)
Request(c) ==
    /\ HttpIdle
    /\ sessions' = Checked(c)
    /\ UNCHANGED <<credential, window, challenges, fails, locked, offer, http, console,
                   clients, serials, history>>

Logout(c) ==
    /\ HttpIdle
    /\ cookie[c] # 0
    /\ sessions' = [s \in SessionSlots |-> IF s \in SlotsOf(c) THEN Free ELSE sessions[s]]
    /\ cookie' = [cookie EXCEPT ![c] = 0]
    /\ UNCHANGED <<credential, window, challenges, fails, locked, offer, http, console,
                   login, salted, serials, history>>

-----------------------------------------------------------------------------
(* Setting the password: GET /api/auth/new-salt, POST /api/auth/password.  *)
(* Both need a session once there is a credential.                         *)
MayChange(c) == credential # NoCredential => LoggedIn(c)

NewSalt(c) ==
    /\ HttpIdle
    /\ MayChange(c)
    /\ salts < MaxSalts
    /\ salts' = salts + 1
    /\ offer' = [salt |-> salts + 1, age |-> 0]
    /\ salted' = [salted EXCEPT ![c] = salts + 1]
    /\ sessions' = Checked(c)
    /\ UNCHANGED <<credential, window, challenges, fails, locked, http, console, login,
                   cookie, nonces, tokens, history>>

(* The offer is taken once and the new credential made of its salt and of  *)
(* the key the client sends.  A claim presents the setup secret.           *)
PostPassword(c, p) ==
    /\ HttpIdle
    /\ MayChange(c)
    /\ credential = NoCredential => window
    /\ salted[c] # 0
    /\ offer # Free /\ offer.age < SaltTTL
    /\ offer' = Free
    /\ sessions' = Checked(c)
    /\ http' = [at |-> "commit", client |-> c,
                work |-> [password |-> p, derived |-> salted[c], salt |-> offer.salt]]
    /\ UNCHANGED <<credential, window, challenges, fails, locked, console, clients,
                   serials, history>>

CommitPassword ==
    /\ http.at = "commit"
    /\ \/ /\ credential' = http.work
          /\ window' = FALSE
          /\ http' = [at |-> "drop", client |-> http.client]
       \/ UNCHANGED <<credential, window>> /\ http' = NoRequest    \* the save failed
    /\ UNCHANGED <<auth, console, clients, serials, history>>

KeepSessions == sessions
NoSessions == [s \in SessionSlots |-> Free]

DropSessions ==
    /\ http.at = "drop"
    /\ http' = [http EXCEPT !.at = "open"]
    /\ sessions' = NoSessions
    /\ UNCHANGED <<credential, window, challenges, fails, locked, offer, console,
                   clients, serials, history>>

OpenSession ==
    /\ http.at = "open"
    /\ http' = NoRequest
    /\ fails' = 0 /\ locked' = 0
    /\ guesses' = 0 /\ waited' = 0
    /\ CreateSession(http.client)
    /\ UNCHANGED <<credential, window, challenges, offer, console, login, salted,
                   nonces, salts, answered>>

-----------------------------------------------------------------------------
(* gwcfg-reset-auth, and auth_drop_all_sessions() after it.                *)
ResetAuth ==
    /\ console = "idle"
    /\ console' = "drop"
    /\ credential' = NoCredential
    /\ window' = FALSE
    /\ UNCHANGED <<auth, http, clients, serials, history>>

ResetAuthDrops ==
    /\ console = "drop"
    /\ console' = "idle"
    /\ sessions' = NoSessions
    /\ UNCHANGED <<credential, window, challenges, fails, locked, offer, http, clients,
                   serials, history>>

(* gwcfg-reopen-onboarding: a console that reset the credential must open  *)
(* the window again before the device can be claimed this boot.            *)
Reopen ==
    /\ console = "idle"
    /\ credential = NoCredential
    /\ window' = TRUE
    /\ UNCHANGED <<credential, auth, http, console, clients, serials, history>>

Older(age, limit) == IF age < limit THEN age + 1 ELSE age

Tick ==
    /\ challenges' = [s \in ChallengeSlots |->
            IF challenges[s] = Free THEN Free
            ELSE [challenges[s] EXCEPT !.age = Older(@, ChallengeTTL)]]
    /\ sessions' = [s \in SessionSlots |->
            IF sessions[s] = Free THEN Free
            ELSE [sessions[s] EXCEPT !.idle = Older(@, Idle + 1),
                                     !.life = Older(@, Absolute + 1)]]
    /\ offer' = IF offer = Free THEN Free ELSE [offer EXCEPT !.age = Older(@, SaltTTL)]
    /\ locked' = IF locked > 0 THEN locked - 1 ELSE 0
    /\ waited' = IF guesses < Threshold THEN 0 ELSE Older(waited, MaxWait)
    /\ UNCHANGED <<credential, window, fails, http, console, clients, serials,
                   answered, guesses>>

-----------------------------------------------------------------------------
LoginStep(c) ==
    \/ GetChallenge(c)
    \/ \E p \in Passwords : LoginRight(c, p) \/ LoginWrong(c, p)

SessionStep(c) == Request(c) \/ Logout(c)

PasswordStep(c) == NewSalt(c) \/ \E p \in Passwords : PostPassword(c, p)

Next ==
    \/ \E c \in Clients : LoginStep(c) \/ SessionStep(c) \/ PasswordStep(c)
    \/ CommitPassword \/ DropSessions \/ OpenSession
    \/ ResetAuth \/ ResetAuthDrops \/ Reopen
    \/ Tick

Spec == Init /\ [][Next]_vars

-----------------------------------------------------------------------------
(* However requests are spread over clients, challenges and time, a wrong  *)
(* answer past the threshold costs at least the base lockout each          *)
(* (auth.c:18-26, 412-427).                                                *)
GuessesAreBounded ==
    guesses > Threshold => waited >= (guesses - Threshold) * LockBase

(* A nonce is answered once: a second answer to it is never evaluated,     *)
(* right or wrong (auth.c:368-385).                                        *)
NonceAnsweredOnce == \A n \in 1..MaxNonces : answered[n] <= 1

(* One client's traffic does not take another's challenge or session.  A   *)
(* live challenge gives way only when every slot holds a live one and none *)
(* is older (auth.c:194-235); a session only when the table is full and    *)
(* nobody used another for longer (auth.c:160-192).                        *)
OnlyTheLeastRecentGivesWay ==
    [][ /\ \A s \in ChallengeSlots :
            ~ReusableChallenge(s) /\ challenges'[s] # Free
                /\ challenges'[s].nonce # challenges[s].nonce =>
            \A t \in ChallengeSlots :
                ~ReusableChallenge(t) /\ ChallengeAge(t) <= ChallengeAge(s)
        /\ \A s \in SessionSlots :
            sessions[s] # Free /\ sessions'[s] # Free
                /\ sessions'[s].token # sessions[s].token =>
            \A t \in SessionSlots :
                sessions[t] # Free /\ sessions[t].idle <= sessions[s].idle ]_vars

(* However steadily it is used, no session lets a request in past its      *)
(* absolute lifetime (auth.c:32-43, 447-456).                              *)
NoneUsedPastItsLife ==
    [][\A s \in SessionSlots :
        sessions[s] # Free /\ sessions'[s] # Free
            /\ sessions'[s].token = sessions[s].token
            /\ sessions'[s].idle < sessions[s].idle =>
        sessions[s].life <= Absolute]_vars

(* A password change leaves its author logged in and nobody else, even if  *)
(* the console resets the credential half way (auth.c:584-592).            *)
ChangeLeavesOneSession ==
    [][OpenSession =>
        Cardinality({s \in SessionSlots : sessions'[s] # Free}) = 1]_vars

(* auth.c:101-105 says the salt on offer has no concurrent users: so a     *)
(* committed key was derived from the salt committed with it, and the      *)
(* password that was typed logs in.                                        *)
PasswordWorks ==
    credential # NoCredential => credential.derived = credential.salt
=============================================================================
