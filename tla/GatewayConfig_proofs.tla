------------------------ MODULE GatewayConfig_proofs ------------------------
(***************************************************************************)
(* Proofs of the safety properties of GatewayConfig, for any settings, any *)
(* budget of boots and any number of boots, credentials, identities and    *)
(* revisions.                                                              *)
(***************************************************************************)
EXTENDS GatewayConfig, TLAPS

(* Until phase is "up" only the boot task runs, and a window it finds open *)
(* was read from flash; afterwards the console is in the middle of a       *)
(* command only if somebody is at it.                                      *)
TasksAreSound ==
    /\ phase # "up" => /\ http = NoRequest /\ console = "idle"
                       /\ ~session /\ ~operator
    /\ phase = "load" => ~recovery /\ live = Defaults
    /\ phase = "auth" /\ live.auth.open => nvs = live
    /\ console # "idle" => operator
    /\ console = "tls" => worker.at = "generating"

(* A window is counted from the boot that opened it, and loses at most one *)
(* save a boot.                                                            *)
CountsAreSound ==
    /\ lostSaves <= openBoots /\ openBoots <= boots
    /\ phase = "load" => boots < MaxBoots
    /\ phase = "auth" => openBoots < boots
    /\ phase \in {"tls", "up"} => 0 < boots

(* What holds of the auth section of any copy of the configuration, that   *)
(* in flash included: a claimed device has no window, an open one has not  *)
(* had more boots than were taken off its budget but for the lost saves,   *)
(* and one that ran out has at most the boot whose save was lost.          *)
SoundAuth(a) ==
    /\ a.pw # 0 => ~a.open
    /\ a.open => a.started
    /\ a.open => a.left + openBoots <= Budget + 1 + lostSaves
    /\ exhausted => a.pw = 0 /\ a.started /\ (a.open => a.left <= 1)

(* What auth_init() makes of it, and every copy taken since has.           *)
RunningAuth(a) ==
    /\ SoundAuth(a)
    /\ a.open => 0 < a.left
    /\ exhausted => ~a.open

CopiesAreSound ==
    /\ nvs \in Config => SoundAuth(nvs.auth)
    /\ phase = "auth" => SoundAuth(live.auth)
    /\ phase \in {"tls", "up"} => RunningAuth(live.auth)
    /\ http.at = "post" => RunningAuth(http.work.auth)
    /\ console = "tls" => RunningAuth(worker.work.auth)
    /\ exhausted => http.at \notin {"accepted", "drop", "create"}

(* A recovery boot nobody has attended to can be neither logged in to nor  *)
(* claimed.                                                                *)
RecoveryIsShut ==
    recovery /\ ~operator =>
        /\ live.auth = ClosedAuth
        /\ ~session
        /\ http.at \in {"idle", "asked"}

(* A POST in flight has seen no later revision than the one there is, and  *)
(* an earlier one once a setter has committed.                             *)
SeenIsPast ==
    http.at = "post" => /\ http.seen <= revision
                        /\ "committed" \in http.since => http.seen < revision

(* The inductive invariant.                                                *)
IInv ==
    /\ TypeOK
    /\ TasksAreSound
    /\ CountsAreSound
    /\ CredentialIsDurable
    /\ CopiesAreSound
    /\ RecoveryIsShut
    /\ SeenIsPast
-----------------------------------------------------------------------------
(* What is made of a configuration is one, and its auth section is known.  *)
LEMMA Edits ==
    \A c \in Config :
        /\ c.auth \in Auth
        /\ \A s \in Settings :
              [c EXCEPT !.settings = s] \in Config /\ [c EXCEPT !.settings = s].auth = c.auth
        /\ \A n \in 0..MaxIdentities :
              /\ [c EXCEPT !.tls = n] \in Config /\ [c EXCEPT !.tls = n].auth = c.auth
              /\ [c EXCEPT !.tls = n].tls = n
        /\ \A a \in Auth :
              [c EXCEPT !.auth = a] \in Config /\ [c EXCEPT !.auth = a].auth = a
  BY DEF Config

LEMMA Claims ==
    \A c \in Config : \A n \in 0..MaxCreds :
        LET d == [c EXCEPT !.auth.pw = n, !.auth.open = FALSE]
        IN  /\ d \in Config
            /\ d.auth.pw = n /\ ~d.auth.open
            /\ d.auth.started = c.auth.started /\ d.auth.left = c.auth.left
  BY DEF Config, Auth

LEMMA FixedSections ==
    /\ NoAuth \in Auth /\ NoAuth.pw = 0 /\ ~NoAuth.open
    /\ ClosedAuth \in Auth /\ ClosedAuth.pw = 0 /\ ~ClosedAuth.open /\ ClosedAuth.started
    /\ OpenAuth \in Auth /\ OpenAuth.pw = 0 /\ OpenAuth.open /\ OpenAuth.started
    /\ OpenAuth.left = Budget
    /\ Defaults \in Config /\ Defaults.auth = NoAuth
    /\ RecoveryDefaults \in Config /\ RecoveryDefaults.auth = ClosedAuth
<1> USE SettingsAssumption, BudgetAssumption, BoundsAssumption
<1>1. NoAuth \in Auth /\ NoAuth.pw = 0 /\ ~NoAuth.open
  BY DEF NoAuth, Auth
<1>2. ClosedAuth \in Auth /\ ClosedAuth.pw = 0 /\ ~ClosedAuth.open /\ ClosedAuth.started
  <2>1. NoAuth \in [pw : {0}, started : BOOLEAN, open : {FALSE}, left : {0}]
    BY DEF NoAuth
  <2>2. ClosedAuth \in [pw : {0}, started : {TRUE}, open : {FALSE}, left : {0}]
    BY <2>1 DEF ClosedAuth
  <2>3. ClosedAuth.pw = 0 /\ ClosedAuth.started = TRUE /\ ClosedAuth.open = FALSE
    BY <2>2
  <2>4. ClosedAuth \in Auth
    <3>1. 0 \in 0..MaxCreds /\ 0 \in 0..Budget
      OBVIOUS
    <3> QED
      BY <2>2, <3>1 DEF Auth
  <2> QED
    BY <2>3, <2>4, Zenon
<1>3. /\ OpenAuth \in Auth /\ OpenAuth.pw = 0 /\ OpenAuth.open /\ OpenAuth.started
      /\ OpenAuth.left = Budget
  BY DEF OpenAuth, Auth
<1>4. Defaults \in Config /\ Defaults.auth = NoAuth
  BY <1>1 DEF Defaults, Config
<1>5. RecoveryDefaults \in Config /\ RecoveryDefaults.auth = ClosedAuth
  BY <1>2, <1>4 DEF RecoveryDefaults, Config
<1> QED
  BY <1>1, <1>2, <1>3, <1>4, <1>5

(* One boot less, and with none left the window is shut.                   *)
LEMMA Spending ==
    \A a \in Auth : LET b == SpendBoot(a) IN
        /\ b \in Auth /\ b.pw = a.pw /\ b.started = a.started
        /\ b.open <=> 0 < b.left
        /\ 0 < a.left => b.left = a.left - 1
        /\ a.left = 0 => b.left = 0
<1> TAKE a \in Auth
<1> DEFINE left == IF a.left > 0 THEN a.left - 1 ELSE 0
<1>1. left \in 0..Budget
  BY BudgetAssumption DEF Auth
<1>2. SpendBoot(a) = [a EXCEPT !.left = left, !.open = left > 0]
  BY DEF SpendBoot
<1>3. (left > 0) \in BOOLEAN
  OBVIOUS
<1> HIDE DEF left
<1>4. /\ SpendBoot(a) \in Auth
      /\ SpendBoot(a).pw = a.pw /\ SpendBoot(a).started = a.started
      /\ SpendBoot(a).open = (left > 0) /\ SpendBoot(a).left = left
  BY <1>1, <1>2, <1>3 DEF Auth
<1> QED
  BY <1>1, <1>4 DEF left, Auth

(* The records of the requests, and of the worker.                         *)
LEMMA IdleShapes ==
    /\ NoRequest \in Requests /\ NoRequest.at = "idle"
    /\ NoWork \in Works /\ NoWork.at = "idle"
  BY DEF Requests, NoRequest, Works, NoWork

LEMMA Shapes ==
    /\ \A x \in {"body", "asked", "accepted", "drop", "create"} :
          [at |-> x] \in Requests /\ [at |-> x].at = x
    /\ \A r \in Requests :
          /\ r.at \in {"idle", "body", "asked", "accepted", "drop", "create", "post"}
          /\ r.at = "post" => r.work \in Config /\ r.seen \in 0..MaxRevision
    /\ \A w \in Works : w.at = "generating" => w.work \in Config
  BY DEF Requests, NoRequest, Works, NoWork

(* The live copy is written: a POST in flight keeps all else it had.       *)
LEMMA Written ==
    ASSUME TypeOK, NEW cfg \in Config, NEW way \in Ways, WriteLive(cfg, way)
    PROVE  /\ live' = cfg
           /\ http' \in Requests /\ http'.at = http.at
           /\ http.at # "post" => http' = http
           /\ http.at = "post" => /\ http'.work = http.work /\ http'.seen = http.seen
                                  /\ http'.since = http.since \cup {way}
<1>1. CASE http.at = "post"
  <2>1. http \in [at : {"post"}, work : Config, seen : 0..MaxRevision, since : SUBSET Ways]
    BY <1>1 DEF TypeOK, Requests, NoRequest
  <2>2. http' = [http EXCEPT !.since = http.since \cup {way}]
    BY <1>1 DEF WriteLive
  <2> QED
    BY <1>1, <2>1, <2>2 DEF WriteLive, Requests
<1>2. CASE http.at # "post"
  BY <1>2 DEF WriteLive, TypeOK
<1> QED
  BY <1>1, <1>2

(* The boot task.                                                          *)
LEMMA BootKeeps == IInv /\ Boot => IInv'
<1> USE BudgetAssumption, BoundsAssumption, BlobsAssumption, FixedSections, IdleShapes DEF IInv, TypeOK, flows, counts, ghosts, Serving, HttpIdle, ConsoleIdle, consoleRest
<1>1. ASSUME IInv, LoadStored PROVE IInv'
  <2>1. FlagsOK'
    BY <1>1
    DEF LoadStored, Loaded, FlagsOK
  <2>2. TypeOK'
    BY <1>1, <2>1
    DEF LoadStored, Loaded, TasksAreSound, CountsAreSound
  <2>3. (TasksAreSound /\ CountsAreSound)'
    BY <1>1
    DEF LoadStored, Loaded, TasksAreSound, CountsAreSound
  <2>4. CredentialIsDurable'
    BY <1>1
    DEF LoadStored, Loaded, CredentialIsDurable, TasksAreSound
  <2>5. CopiesAreSound'
    BY <1>1
    DEF LoadStored, Loaded, CopiesAreSound, RunningAuth, SoundAuth, Auth, TasksAreSound, CountsAreSound, FlagsOK
  <2>6. (RecoveryIsShut /\ SeenIsPast)'
    BY <1>1
    DEF LoadStored, Loaded, RecoveryIsShut, SeenIsPast, TasksAreSound, FlagsOK
  <2> QED
    BY <2>1, <2>2, <2>3, <2>4, <2>5, <2>6
<1>2. ASSUME IInv, LoadRecovery PROVE IInv'
  <2>1. FlagsOK'
    BY <1>2
    DEF LoadRecovery, Loaded, FlagsOK
  <2>2. TypeOK'
    BY <1>2, <2>1
    DEF LoadRecovery, Loaded, TasksAreSound, CountsAreSound
  <2>3. (TasksAreSound /\ CountsAreSound)'
    BY <1>2
    DEF LoadRecovery, Loaded, TasksAreSound, CountsAreSound
  <2>4. CredentialIsDurable'
    BY <1>2
    DEF LoadRecovery, Loaded, CredentialIsDurable, TasksAreSound
  <2>5. CopiesAreSound'
    BY <1>2
    DEF LoadRecovery, Loaded, CopiesAreSound, RunningAuth, SoundAuth, Auth, TasksAreSound, CountsAreSound, FlagsOK
  <2>6. (RecoveryIsShut /\ SeenIsPast)'
    BY <1>2
    DEF LoadRecovery, Loaded, RecoveryIsShut, SeenIsPast, TasksAreSound, FlagsOK
  <2> QED
    BY <2>1, <2>2, <2>3, <2>4, <2>5, <2>6
<1>3. ASSUME IInv, LoadDefaults PROVE IInv'
  <2>1. /\ phase = "load" /\ phase' = "auth" /\ live' = Defaults /\ nvs' \in {nvs, NoBlob}
        /\ recovery' = FALSE /\ exhausted' = FALSE /\ boots' = boots + 1
        /\ UNCHANGED <<revision, web, session, http, console, worker, resetting>>
        /\ UNCHANGED <<creds, identities, operator, openBoots, lostSaves>>
    BY <1>3 DEF LoadDefaults, Loaded
  <2>2. ~NoAuth.open /\ Defaults.auth.pw = 0
    OBVIOUS
  <2>3. FlagsOK'
    BY <1>3, <2>1, <2>2
    DEF FlagsOK
  <2>4. TypeOK'
    BY <1>3, <2>1, <2>2, <2>3
    DEF TasksAreSound, CountsAreSound
  <2>5. (TasksAreSound /\ CountsAreSound)'
    BY <1>3, <2>1, <2>2
    DEF TasksAreSound, CountsAreSound
  <2>6. CredentialIsDurable'
    BY <1>3, <2>1, <2>2
    DEF CredentialIsDurable, TasksAreSound
  <2>7. CopiesAreSound'
    BY <1>3, <2>1, <2>2
    DEF CopiesAreSound, RunningAuth, SoundAuth, Auth, TasksAreSound, CountsAreSound, FlagsOK
  <2>8. (RecoveryIsShut /\ SeenIsPast)'
    BY <1>3, <2>1, <2>2
    DEF RecoveryIsShut, SeenIsPast, TasksAreSound, FlagsOK
  <2> QED
    BY <2>3, <2>4, <2>5, <2>6, <2>7, <2>8
<1>4. ASSUME IInv, AuthInit PROVE IInv'
  <2> DEFINE a == live.auth
             b == IF a.started /\ a.open THEN SpendBoot(a) ELSE OpenAuth
  <2>1. /\ phase = "auth" /\ phase' = "tls"
        /\ UNCHANGED <<recovery, revision, web, session, http, console, worker, resetting>>
        /\ UNCHANGED <<boots, creds, identities, operator>>
    BY <1>4 DEF AuthInit
  <2>2. live \in Config /\ a \in Auth /\ SoundAuth(a)
    BY <1>4, <2>1, Edits DEF CopiesAreSound
  <2>3. CASE a.pw # 0 \/ WindowIsClosed(a)
    <3>1. UNCHANGED <<live, nvs, exhausted, openBoots, lostSaves>>
      BY <1>4, <2>3 DEF AuthInit
    <3>2. RunningAuth(a)
      BY <2>2, <2>3 DEF WindowIsClosed, SoundAuth, RunningAuth
    <3>3. TypeOK' /\ (TasksAreSound /\ CountsAreSound)'
      BY <1>4, <2>1, <3>1 DEF TasksAreSound, CountsAreSound, FlagsOK
    <3>4. (CredentialIsDurable /\ CopiesAreSound)'
      BY <1>4, <2>1, <3>1, <3>2
      DEF CredentialIsDurable, CopiesAreSound, RunningAuth, SoundAuth, TasksAreSound
    <3>5. (RecoveryIsShut /\ SeenIsPast)'
      BY <1>4, <2>1, <3>1 DEF RecoveryIsShut, SeenIsPast, TasksAreSound
    <3> QED
      BY <3>3, <3>4, <3>5
  <2>4. CASE ~(a.pw # 0 \/ WindowIsClosed(a))
    <3>1. PICK ok \in BOOLEAN :
            /\ live' = [live EXCEPT !.auth = b]
            /\ Save(live', ok)
            /\ exhausted' = (exhausted \/ ~b.open)
            /\ openBoots' = IF a.open THEN openBoots + 1 ELSE 1
            /\ lostSaves' = (IF a.open THEN lostSaves ELSE 0) + (IF ok THEN 0 ELSE 1)
      BY <1>4, <2>4 DEF AuthInit
    <3>2. /\ b \in Auth /\ b.pw = 0 /\ b.started
          /\ b.open <=> 0 < b.left
          /\ a.open => (b.left + 1 = a.left \/ (a.left = 0 /\ b.left = 0))
          /\ ~a.open => b = OpenAuth
      <4>1. CASE a.started /\ a.open
        <5>1. a.pw = 0 /\ b = SpendBoot(a) /\ a.left \in 0..Budget
          BY <2>2, <2>4, <4>1 DEF Auth
        <5>2. /\ b \in Auth /\ b.pw = 0 /\ b.started
              /\ b.open <=> 0 < b.left
              /\ 0 < a.left => b.left = a.left - 1
              /\ a.left = 0 => b.left = 0
          BY <2>2, <4>1, <5>1, Spending
        <5> QED
          BY <4>1, <5>1, <5>2 DEF Auth
      <4>2. CASE ~(a.started /\ a.open)
        <5>1. b = OpenAuth /\ ~a.open
          BY <2>2, <4>2 DEF SoundAuth
        <5> QED
          BY <5>1
      <4> QED
        BY <4>1, <4>2
    <3>3. PICK c \in Auth : c = b
      BY <3>2
    <3> HIDE DEF b
    <3>4. /\ live' \in Config /\ live'.auth = c /\ nvs' \in {nvs, live'}
          /\ openBoots' = IF a.open THEN openBoots + 1 ELSE 1
          /\ lostSaves' = (IF a.open THEN lostSaves ELSE 0) + (IF ok THEN 0 ELSE 1)
          /\ ok = TRUE => nvs' = live'
          /\ exhausted' \in BOOLEAN
          /\ exhausted' => exhausted \/ ~c.open
          /\ exhausted => exhausted'
      BY <1>4, <2>2, <3>1, <3>3, Edits DEF Save, FlagsOK
    <3>5. /\ openBoots \in Nat /\ lostSaves \in Nat /\ a.left \in 0..Budget /\ c.left \in 0..Budget
          /\ openBoots < boots /\ lostSaves <= openBoots /\ boots \in 0..MaxBoots
          /\ c.open \in BOOLEAN /\ a.open \in BOOLEAN /\ exhausted \in BOOLEAN
      BY <1>4, <2>1, <2>2, <3>2 DEF CountsAreSound, Auth, FlagsOK
    <3>6. /\ openBoots' \in Nat /\ lostSaves' \in Nat
          /\ lostSaves' <= openBoots' /\ openBoots' <= boots
      BY <3>4, <3>5
    <3>7. TypeOK' /\ (TasksAreSound /\ CountsAreSound)'
      <4>1. FlagsOK'
        BY <1>4, <2>1, <3>4 DEF FlagsOK
      <4> QED
        BY <1>4, <2>1, <3>4, <3>5, <3>6, <4>1 DEF TasksAreSound, CountsAreSound
    <3>8. exhausted => a.open /\ a.left <= 1
      BY <2>2, <2>4 DEF SoundAuth, WindowIsClosed
    <3>9. RunningAuth(c)'
      <4>1. c.open => c.left + openBoots' <= Budget + 1 + lostSaves'
        <5>1. CASE a.open
          BY <2>2, <3>2, <3>3, <3>4, <3>5, <5>1 DEF SoundAuth
        <5>2. CASE ~a.open
          BY <3>2, <3>3, <3>4, <3>5, <5>2
        <5> QED
          BY <5>1, <5>2
      <4>2. exhausted' => ~c.open
        BY <3>2, <3>3, <3>4, <3>5, <3>8
      <4> QED
        BY <3>2, <3>3, <4>1, <4>2 DEF RunningAuth, SoundAuth
    <3>10. nvs \in Config /\ nvs' = nvs => SoundAuth(nvs.auth)'
      <4>1. CASE a.open
        <5>1. nvs = live /\ SoundAuth(a)
          BY <1>4, <2>1, <2>2, <4>1 DEF TasksAreSound
        <5>2. ok = TRUE => SoundAuth(nvs.auth)'
          BY <3>4, <3>9 DEF RunningAuth
        <5>3. ok = FALSE => a.left + openBoots' <= Budget + 1 + lostSaves'
          BY <3>4, <3>5, <4>1, <5>1 DEF SoundAuth
        <5>4. exhausted' => a.left <= 1
          BY <3>2, <3>3, <3>4, <3>5, <3>8, <4>1
        <5> QED
          BY <2>4, <4>1, <5>1, <5>2, <5>3, <5>4 DEF SoundAuth
      <4>2. CASE ~a.open
        <5>1. c = OpenAuth /\ ~exhausted'
          BY <3>2, <3>3, <3>4, <3>5, <3>8, <4>2
        <5>2. nvs \in Config => SoundAuth(nvs.auth) /\ nvs.auth.left \in 0..Budget
          BY <1>4, Edits DEF CopiesAreSound, Auth
        <5>3. ok = TRUE => SoundAuth(nvs.auth)'
          BY <3>4, <3>9 DEF RunningAuth
        <5> QED
          BY <3>4, <4>2, <5>1, <5>2, <5>3 DEF SoundAuth
      <4> QED
        BY <4>1, <4>2
    <3>11. (CredentialIsDurable /\ CopiesAreSound)'
      <4>1. nvs' \in Config => SoundAuth(nvs.auth)'
        BY <3>4, <3>9, <3>10 DEF RunningAuth
      <4>2. phase' = "tls" /\ http'.at = "idle" /\ console' = "idle" /\ live'.auth.pw = 0
        BY <1>4, <2>1, <3>2, <3>3, <3>4 DEF TasksAreSound
      <4> QED
        BY <3>4, <3>9, <4>1, <4>2 DEF CredentialIsDurable, CopiesAreSound
    <3>12. (RecoveryIsShut /\ SeenIsPast)'
      BY <1>4, <2>1, <2>4 DEF RecoveryIsShut, SeenIsPast, TasksAreSound, WindowIsClosed
    <3> QED
      BY <3>7, <3>11, <3>12
  <2> QED
    BY <2>3, <2>4
<1>5. ASSUME IInv, TlsInit PROVE IInv'
  <2>1. /\ phase = "tls" /\ phase' = "up"
        /\ UNCHANGED <<recovery, revision, session, http, console, worker, resetting>>
        /\ UNCHANGED <<boots, creds, operator, exhausted, openBoots, lostSaves>>
        /\ web' = (live'.tls # 0)
    BY <1>5 DEF TlsInit
  <2>2. /\ live' \in Config /\ live'.auth = live.auth
        /\ identities' \in 0..MaxIdentities
        /\ nvs' = nvs \/ nvs' = live'
    <3>1. CASE UNCHANGED <<live, nvs, identities>>
      BY <1>5, <3>1
    <3>2. CASE ~UNCHANGED <<live, nvs, identities>>
      <4> DEFINE work == [live EXCEPT !.tls = identities + 1]
      <4>1. PICK ok \in BOOLEAN :
               /\ identities < MaxIdentities
               /\ identities' = identities + 1
               /\ IF KeepInRam THEN live' = work /\ UNCHANGED nvs
                  ELSE Save(work, ok) /\ live' = IF ok THEN work ELSE live
        BY <1>5, <3>2 DEF TlsInit
      <4>2. identities' \in 0..MaxIdentities
        BY <1>5, <4>1
      <4>3. work \in Config /\ work.auth = live.auth
        BY <1>5, <4>1, <4>2, Edits
      <4> HIDE DEF work
      <4> QED
        BY <1>5, <4>1, <4>2, <4>3 DEF Save
    <3> QED
      BY <3>1, <3>2
  <2>3. FlagsOK'
    BY <1>5, <2>1 DEF FlagsOK
  <2>4. TypeOK' /\ (TasksAreSound /\ CountsAreSound)'
    BY <1>5, <2>1, <2>2, <2>3 DEF TasksAreSound, CountsAreSound
  <2>5. (CredentialIsDurable /\ CopiesAreSound)'
    BY <1>5, <2>1, <2>2
    DEF CredentialIsDurable, CopiesAreSound, RunningAuth, SoundAuth, TasksAreSound
  <2>6. (RecoveryIsShut /\ SeenIsPast)'
    BY <1>5, <2>1, <2>2 DEF RecoveryIsShut, SeenIsPast, TasksAreSound
  <2> QED
    BY <2>4, <2>5, <2>6
<1> QED
  BY <1>1, <1>2, <1>3, <1>4, <1>5 DEF Boot

(* The HTTP server.                                                        *)
LEMMA HttpServerKeeps == IInv /\ HttpServer => IInv'
<1> USE BudgetAssumption, BoundsAssumption, BlobsAssumption, FixedSections, IdleShapes DEF IInv, TypeOK, flows, counts, ghosts, Serving, HttpIdle, ConsoleIdle, consoleRest
<1>1. ASSUME IInv, Login PROVE IInv'
  <2>1. FlagsOK'
    BY <1>1
    DEF Login, FlagsOK
  <2>2. TypeOK'
    BY <1>1, <2>1
    DEF Login, TasksAreSound, CountsAreSound
  <2>3. (TasksAreSound /\ CountsAreSound)'
    BY <1>1
    DEF Login, TasksAreSound, CountsAreSound
  <2>4. CredentialIsDurable'
    BY <1>1
    DEF Login, CredentialIsDurable, TasksAreSound
  <2>5. CopiesAreSound'
    BY <1>1
    DEF Login, CopiesAreSound, RunningAuth, SoundAuth, Auth, TasksAreSound, CountsAreSound, FlagsOK
  <2>6. (RecoveryIsShut /\ SeenIsPast)'
    BY <1>1
    DEF Login, RecoveryIsShut, SeenIsPast, TasksAreSound, FlagsOK
  <2> QED
    BY <2>1, <2>2, <2>3, <2>4, <2>5, <2>6
<1>2. ASSUME IInv, SessionEnds PROVE IInv'
  <2>1. FlagsOK'
    BY <1>2
    DEF SessionEnds, FlagsOK
  <2>2. TypeOK'
    BY <1>2, <2>1
    DEF SessionEnds, TasksAreSound, CountsAreSound
  <2>3. (TasksAreSound /\ CountsAreSound)'
    BY <1>2
    DEF SessionEnds, TasksAreSound, CountsAreSound
  <2>4. CredentialIsDurable'
    BY <1>2
    DEF SessionEnds, CredentialIsDurable, TasksAreSound
  <2>5. CopiesAreSound'
    BY <1>2
    DEF SessionEnds, CopiesAreSound, RunningAuth, SoundAuth, Auth, TasksAreSound, CountsAreSound, FlagsOK
  <2>6. (RecoveryIsShut /\ SeenIsPast)'
    BY <1>2
    DEF SessionEnds, RecoveryIsShut, SeenIsPast, TasksAreSound, FlagsOK
  <2> QED
    BY <2>1, <2>2, <2>3, <2>4, <2>5, <2>6
<1>3. ASSUME IInv, PostRequest PROVE IInv'
  <2>1. FlagsOK'
    BY <1>3, Shapes
    DEF PostRequest, FlagsOK
  <2>2. TypeOK'
    BY <1>3, Shapes, <2>1
    DEF PostRequest, TasksAreSound, CountsAreSound
  <2>3. (TasksAreSound /\ CountsAreSound)'
    BY <1>3, Shapes
    DEF PostRequest, TasksAreSound, CountsAreSound
  <2>4. CredentialIsDurable'
    BY <1>3, Shapes
    DEF PostRequest, CredentialIsDurable, TasksAreSound
  <2>5. CopiesAreSound'
    BY <1>3, Shapes
    DEF PostRequest, CopiesAreSound, RunningAuth, SoundAuth, Auth, TasksAreSound, CountsAreSound, FlagsOK
  <2>6. (RecoveryIsShut /\ SeenIsPast)'
    BY <1>3, Shapes
    DEF PostRequest, RecoveryIsShut, SeenIsPast, TasksAreSound, FlagsOK
  <2> QED
    BY <2>1, <2>2, <2>3, <2>4, <2>5, <2>6
<1>4. ASSUME IInv, PostSnapshot PROVE IInv'
  <2>1. PICK s \in Settings :
            http' = [at |-> "post", work |-> [live EXCEPT !.settings = s],
                     seen |-> revision, since |-> {}]
    BY <1>4 DEF PostSnapshot
  <2>2. /\ http' \in Requests /\ http'.at = "post" /\ http'.seen = revision
        /\ http'.since = {} /\ http'.work.auth = live.auth
    BY <1>4, <2>1 DEF Requests, Config
  <2>3. FlagsOK'
    BY <1>4, <2>1, <2>2
    DEF PostSnapshot, FlagsOK
  <2>4. TypeOK'
    BY <1>4, <2>1, <2>2, <2>3
    DEF PostSnapshot, TasksAreSound, CountsAreSound
  <2>5. (TasksAreSound /\ CountsAreSound)'
    BY <1>4, <2>1, <2>2
    DEF PostSnapshot, TasksAreSound, CountsAreSound
  <2>6. CredentialIsDurable'
    BY <1>4, <2>1, <2>2
    DEF PostSnapshot, CredentialIsDurable, TasksAreSound
  <2>7. CopiesAreSound'
    BY <1>4, <2>1, <2>2
    DEF PostSnapshot, CopiesAreSound, RunningAuth, SoundAuth, Auth, TasksAreSound, CountsAreSound, FlagsOK
  <2>8. (RecoveryIsShut /\ SeenIsPast)'
    BY <1>4, <2>1, <2>2
    DEF PostSnapshot, RecoveryIsShut, SeenIsPast, TasksAreSound, FlagsOK
  <2> QED
    BY <2>3, <2>4, <2>5, <2>6, <2>7, <2>8
<1>5. ASSUME IInv, PostInvalid PROVE IInv'
  <2>1. FlagsOK'
    BY <1>5, Shapes
    DEF PostInvalid, FlagsOK
  <2>2. TypeOK'
    BY <1>5, Shapes, <2>1
    DEF PostInvalid, TasksAreSound, CountsAreSound
  <2>3. (TasksAreSound /\ CountsAreSound)'
    BY <1>5, Shapes
    DEF PostInvalid, TasksAreSound, CountsAreSound
  <2>4. CredentialIsDurable'
    BY <1>5, Shapes
    DEF PostInvalid, CredentialIsDurable, TasksAreSound
  <2>5. CopiesAreSound'
    BY <1>5, Shapes
    DEF PostInvalid, CopiesAreSound, RunningAuth, SoundAuth, Auth, TasksAreSound, CountsAreSound, FlagsOK
  <2>6. (RecoveryIsShut /\ SeenIsPast)'
    BY <1>5, Shapes
    DEF PostInvalid, RecoveryIsShut, SeenIsPast, TasksAreSound, FlagsOK
  <2> QED
    BY <2>1, <2>2, <2>3, <2>4, <2>5, <2>6
<1>6. ASSUME IInv, PostCommit PROVE IInv'
  <2>1. http.work \in Config /\ http.at = "post"
    BY <1>6, Shapes DEF PostCommit
  <2>2. \/ UNCHANGED <<live, nvs, revision>>
        \/ /\ live' = http.work /\ nvs' = http.work
           /\ revision' = revision + 1 /\ revision < MaxRevision
    BY <1>6 DEF PostCommit, Save, CommitIfSaved
  <2>3. FlagsOK'
    BY <1>6, <2>1, <2>2
    DEF PostCommit, FlagsOK
  <2>4. TypeOK'
    BY <1>6, <2>1, <2>2, <2>3
    DEF PostCommit, TasksAreSound, CountsAreSound
  <2>5. (TasksAreSound /\ CountsAreSound)'
    BY <1>6, <2>1, <2>2
    DEF PostCommit, TasksAreSound, CountsAreSound
  <2>6. CredentialIsDurable'
    BY <1>6, <2>1, <2>2
    DEF PostCommit, CredentialIsDurable, TasksAreSound
  <2>7. CopiesAreSound'
    BY <1>6, <2>1, <2>2
    DEF PostCommit, CopiesAreSound, RunningAuth, SoundAuth, Auth, TasksAreSound, CountsAreSound, FlagsOK
  <2>8. (RecoveryIsShut /\ SeenIsPast)'
    BY <1>6, <2>1, <2>2
    DEF PostCommit, RecoveryIsShut, SeenIsPast, TasksAreSound, FlagsOK
  <2> QED
    BY <2>3, <2>4, <2>5, <2>6, <2>7, <2>8
<1>7. ASSUME IInv, PasswordRequest PROVE IInv'
  <2>1. FlagsOK'
    BY <1>7, Shapes
    DEF PasswordRequest, FlagsOK
  <2>2. TypeOK'
    BY <1>7, Shapes, <2>1
    DEF PasswordRequest, TasksAreSound, CountsAreSound
  <2>3. (TasksAreSound /\ CountsAreSound)'
    BY <1>7, Shapes
    DEF PasswordRequest, TasksAreSound, CountsAreSound
  <2>4. CredentialIsDurable'
    BY <1>7, Shapes
    DEF PasswordRequest, CredentialIsDurable, TasksAreSound
  <2>5. CopiesAreSound'
    BY <1>7, Shapes
    DEF PasswordRequest, CopiesAreSound, RunningAuth, SoundAuth, Auth, TasksAreSound, CountsAreSound, FlagsOK
  <2>6. (RecoveryIsShut /\ SeenIsPast)'
    BY <1>7, Shapes
    DEF PasswordRequest, RecoveryIsShut, SeenIsPast, TasksAreSound, FlagsOK
  <2> QED
    BY <2>1, <2>2, <2>3, <2>4, <2>5, <2>6
<1>8. ASSUME IInv, PasswordCheck PROVE IInv'
  <2>1. FlagsOK'
    BY <1>8, Shapes
    DEF PasswordCheck, MayClaim, FlagsOK
  <2>2. TypeOK'
    BY <1>8, Shapes, <2>1
    DEF PasswordCheck, MayClaim, TasksAreSound, CountsAreSound
  <2>3. (TasksAreSound /\ CountsAreSound)'
    BY <1>8, Shapes
    DEF PasswordCheck, MayClaim, TasksAreSound, CountsAreSound
  <2>4. CredentialIsDurable'
    BY <1>8, Shapes
    DEF PasswordCheck, MayClaim, CredentialIsDurable, TasksAreSound
  <2>5. CopiesAreSound'
    BY <1>8, Shapes
    DEF PasswordCheck, MayClaim, CopiesAreSound, RunningAuth, SoundAuth, Auth, TasksAreSound, CountsAreSound, FlagsOK
  <2>6. (RecoveryIsShut /\ SeenIsPast)'
    BY <1>8, Shapes
    DEF PasswordCheck, MayClaim, RecoveryIsShut, SeenIsPast, TasksAreSound, FlagsOK
  <2> QED
    BY <2>1, <2>2, <2>3, <2>4, <2>5, <2>6
<1>9. ASSUME IInv, PasswordCommit PROVE IInv'
  <2>1. \/ /\ UNCHANGED <<live, nvs, revision>> /\ http' = NoRequest
        \/ /\ live' = [live EXCEPT !.auth.pw = creds + 1, !.auth.open = FALSE]
           /\ nvs' = live' /\ http' = [at |-> "drop"]
           /\ revision' = revision + 1 /\ revision < MaxRevision
    BY <1>9 DEF PasswordCommit, Save, CommitIfSaved
  <2>2. LET work == [live EXCEPT !.auth.pw = creds + 1, !.auth.open = FALSE]
        IN  work \in Config /\ ~work.auth.open /\ work.auth.started = live.auth.started
    <3>1. creds + 1 \in 0..MaxCreds /\ live \in Config
      BY <1>9 DEF PasswordCommit
    <3> QED
      BY <3>1, Claims
  <2>3. \/ /\ UNCHANGED <<live, nvs, revision>> /\ http' = NoRequest
        \/ /\ live' \in Config /\ nvs' = live' /\ http' = [at |-> "drop"]
           /\ ~live'.auth.open /\ live'.auth.started = live.auth.started
           /\ revision' = revision + 1 /\ revision < MaxRevision
    BY <2>1, <2>2
  <2>4. /\ phase = "up" /\ http.at = "accepted" /\ creds' = creds + 1 /\ creds < MaxCreds
        /\ UNCHANGED <<phase, recovery, web, session, console, worker, resetting>>
        /\ UNCHANGED <<boots, identities, operator, exhausted, openBoots, lostSaves>>
    BY <1>9 DEF PasswordCommit
  <2>5. FlagsOK'
    BY <1>9, <2>3, <2>4, Shapes
    DEF FlagsOK
  <2>6. TypeOK'
    BY <1>9, <2>3, <2>4, Shapes, <2>5
    DEF TasksAreSound, CountsAreSound
  <2>7. (TasksAreSound /\ CountsAreSound)'
    BY <1>9, <2>3, <2>4, Shapes
    DEF TasksAreSound, CountsAreSound
  <2>8. CredentialIsDurable'
    BY <1>9, <2>3, <2>4, Shapes
    DEF CredentialIsDurable, TasksAreSound
  <2>9. CopiesAreSound'
    BY <1>9, <2>3, <2>4, Shapes
    DEF CopiesAreSound, RunningAuth, SoundAuth, Auth, TasksAreSound, CountsAreSound, FlagsOK
  <2>10. (RecoveryIsShut /\ SeenIsPast)'
    BY <1>9, <2>3, <2>4, Shapes
    DEF RecoveryIsShut, SeenIsPast, TasksAreSound, FlagsOK
  <2> QED
    BY <2>5, <2>6, <2>7, <2>8, <2>9, <2>10
<1>10. ASSUME IInv, PasswordDropsSessions PROVE IInv'
  <2>1. FlagsOK'
    BY <1>10, Shapes
    DEF PasswordDropsSessions, FlagsOK
  <2>2. TypeOK'
    BY <1>10, Shapes, <2>1
    DEF PasswordDropsSessions, TasksAreSound, CountsAreSound
  <2>3. (TasksAreSound /\ CountsAreSound)'
    BY <1>10, Shapes
    DEF PasswordDropsSessions, TasksAreSound, CountsAreSound
  <2>4. CredentialIsDurable'
    BY <1>10, Shapes
    DEF PasswordDropsSessions, CredentialIsDurable, TasksAreSound
  <2>5. CopiesAreSound'
    BY <1>10, Shapes
    DEF PasswordDropsSessions, CopiesAreSound, RunningAuth, SoundAuth, Auth, TasksAreSound, CountsAreSound, FlagsOK
  <2>6. (RecoveryIsShut /\ SeenIsPast)'
    BY <1>10, Shapes
    DEF PasswordDropsSessions, RecoveryIsShut, SeenIsPast, TasksAreSound, FlagsOK
  <2> QED
    BY <2>1, <2>2, <2>3, <2>4, <2>5, <2>6
<1>11. ASSUME IInv, PasswordOpensSession PROVE IInv'
  <2>1. FlagsOK'
    BY <1>11, Shapes
    DEF PasswordOpensSession, FlagsOK
  <2>2. TypeOK'
    BY <1>11, Shapes, <2>1
    DEF PasswordOpensSession, TasksAreSound, CountsAreSound
  <2>3. (TasksAreSound /\ CountsAreSound)'
    BY <1>11, Shapes
    DEF PasswordOpensSession, TasksAreSound, CountsAreSound
  <2>4. CredentialIsDurable'
    BY <1>11, Shapes
    DEF PasswordOpensSession, CredentialIsDurable, TasksAreSound
  <2>5. CopiesAreSound'
    BY <1>11, Shapes
    DEF PasswordOpensSession, CopiesAreSound, RunningAuth, SoundAuth, Auth, TasksAreSound, CountsAreSound, FlagsOK
  <2>6. (RecoveryIsShut /\ SeenIsPast)'
    BY <1>11, Shapes
    DEF PasswordOpensSession, RecoveryIsShut, SeenIsPast, TasksAreSound, FlagsOK
  <2> QED
    BY <2>1, <2>2, <2>3, <2>4, <2>5, <2>6
<1> QED
  BY <1>1, <1>2, <1>3, <1>4, <1>5, <1>6, <1>7, <1>8, <1>9, <1>10, <1>11 DEF HttpServer

(* The console.                                                            *)
LEMMA ConsoleKeeps == IInv /\ Console => IInv'
<1> USE BudgetAssumption, BoundsAssumption, BlobsAssumption, FixedSections, IdleShapes DEF IInv, TypeOK, flows, counts, ghosts, Serving, HttpIdle, ConsoleIdle, consoleRest
<1>1. ASSUME IInv, Set PROVE IInv'
  <2>1. PICK s \in Settings : WriteLive([live EXCEPT !.settings = s], "committed")
    BY <1>1 DEF Set
  <2>2. /\ [live EXCEPT !.settings = s] \in Config
        /\ [live EXCEPT !.settings = s].auth = live.auth
    BY <1>1, <2>1 DEF Config
  <2>3. live' = [live EXCEPT !.settings = s]
    BY <1>1, <2>1, <2>2, Written DEF Ways
  <2>4. live' \in Config /\ live'.auth = live.auth
    BY <2>2, <2>3
  <2>5. /\ http' \in Requests /\ http'.at = http.at
        /\ http.at = "post" => /\ http'.work = http.work /\ http'.seen = http.seen
                               /\ http'.since \subseteq http.since \cup {"committed"}
    BY <1>1, <2>1, <2>2, Written DEF Ways
  <2>6. /\ phase = "up" /\ console = "idle" /\ operator' /\ operator' \in BOOLEAN
        /\ UNCHANGED <<phase, recovery, web, resetting, boots, creds, identities, session, worker>>
        /\ revision < MaxRevision /\ revision' = revision + 1
        /\ UNCHANGED <<nvs, console, exhausted, openBoots, lostSaves>>
    BY <1>1 DEF Set
  <2>7. FlagsOK'
    BY <1>1, <2>4, <2>5, <2>6, Shapes
    DEF FlagsOK
  <2>8. TypeOK'
    BY <1>1, <2>4, <2>5, <2>6, Shapes, <2>7
    DEF TasksAreSound, CountsAreSound
  <2>9. (TasksAreSound /\ CountsAreSound)'
    BY <1>1, <2>4, <2>5, <2>6, Shapes
    DEF TasksAreSound, CountsAreSound
  <2>10. CredentialIsDurable'
    BY <1>1, <2>4, <2>5, <2>6, Shapes
    DEF CredentialIsDurable, TasksAreSound
  <2>11. CopiesAreSound'
    BY <1>1, <2>4, <2>5, <2>6, Shapes
    DEF CopiesAreSound, RunningAuth, SoundAuth, Auth, TasksAreSound, CountsAreSound, FlagsOK
  <2>12. (RecoveryIsShut /\ SeenIsPast)'
    BY <1>1, <2>4, <2>5, <2>6, Shapes
    DEF RecoveryIsShut, SeenIsPast, TasksAreSound, FlagsOK
  <2> QED
    BY <2>7, <2>8, <2>9, <2>10, <2>11, <2>12
<1>2. ASSUME IInv, SetUplinkMgmt PROVE IInv'
  <2>1. PICK s \in Settings : WriteLive([live EXCEPT !.settings = s], "in_place")
    BY <1>2 DEF SetUplinkMgmt
  <2>2. /\ [live EXCEPT !.settings = s] \in Config
        /\ [live EXCEPT !.settings = s].auth = live.auth
    BY <1>2, <2>1 DEF Config
  <2>3. live' = [live EXCEPT !.settings = s]
    BY <1>2, <2>1, <2>2, Written DEF Ways
  <2>4. live' \in Config /\ live'.auth = live.auth
    BY <2>2, <2>3
  <2>5. /\ http' \in Requests /\ http'.at = http.at
        /\ http.at = "post" => /\ http'.work = http.work /\ http'.seen = http.seen
                               /\ http'.since \subseteq http.since \cup {"in_place"}
    BY <1>2, <2>1, <2>2, Written DEF Ways
  <2>6. /\ phase = "up" /\ console = "idle" /\ operator' /\ operator' \in BOOLEAN
        /\ UNCHANGED <<phase, recovery, web, resetting, boots, creds, identities, session, worker>>
        /\ UNCHANGED <<nvs, revision, console, exhausted, openBoots, lostSaves>>
    BY <1>2 DEF SetUplinkMgmt
  <2>7. FlagsOK'
    BY <1>2, <2>4, <2>5, <2>6, Shapes
    DEF FlagsOK
  <2>8. TypeOK'
    BY <1>2, <2>4, <2>5, <2>6, Shapes, <2>7
    DEF TasksAreSound, CountsAreSound
  <2>9. (TasksAreSound /\ CountsAreSound)'
    BY <1>2, <2>4, <2>5, <2>6, Shapes
    DEF TasksAreSound, CountsAreSound
  <2>10. CredentialIsDurable'
    BY <1>2, <2>4, <2>5, <2>6, Shapes
    DEF CredentialIsDurable, TasksAreSound
  <2>11. CopiesAreSound'
    BY <1>2, <2>4, <2>5, <2>6, Shapes
    DEF CopiesAreSound, RunningAuth, SoundAuth, Auth, TasksAreSound, CountsAreSound, FlagsOK
  <2>12. (RecoveryIsShut /\ SeenIsPast)'
    BY <1>2, <2>4, <2>5, <2>6, Shapes
    DEF RecoveryIsShut, SeenIsPast, TasksAreSound, FlagsOK
  <2> QED
    BY <2>7, <2>8, <2>9, <2>10, <2>11, <2>12
<1>3. ASSUME IInv, SaveCommand PROVE IInv'
  <2>1. nvs' \in {nvs, live}
    BY <1>3 DEF SaveCommand, Save
  <2>2. FlagsOK'
    BY <1>3, <2>1
    DEF SaveCommand, FlagsOK
  <2>3. TypeOK'
    BY <1>3, <2>1, <2>2
    DEF SaveCommand, TasksAreSound, CountsAreSound
  <2>4. (TasksAreSound /\ CountsAreSound)'
    BY <1>3, <2>1
    DEF SaveCommand, TasksAreSound, CountsAreSound
  <2>5. CredentialIsDurable'
    BY <1>3, <2>1
    DEF SaveCommand, CredentialIsDurable, TasksAreSound
  <2>6. CopiesAreSound'
    BY <1>3, <2>1
    DEF SaveCommand, CopiesAreSound, RunningAuth, SoundAuth, Auth, TasksAreSound, CountsAreSound, FlagsOK
  <2>7. (RecoveryIsShut /\ SeenIsPast)'
    BY <1>3, <2>1
    DEF SaveCommand, RecoveryIsShut, SeenIsPast, TasksAreSound, FlagsOK
  <2> QED
    BY <2>2, <2>3, <2>4, <2>5, <2>6, <2>7
<1>4. ASSUME IInv, Reset PROVE IInv'
  <2>1. WriteLive(Defaults, "in_place")
    BY <1>4 DEF Reset
  <2>2. /\ Defaults \in Config
        /\ Defaults.auth = NoAuth
    BY <1>4, <2>1 DEF Config
  <2>3. live' = Defaults
    BY <1>4, <2>1, <2>2, Written DEF Ways
  <2>4. live' \in Config /\ live'.auth = NoAuth
    BY <2>2, <2>3
  <2>5. /\ http' \in Requests /\ http'.at = http.at
        /\ http.at = "post" => /\ http'.work = http.work /\ http'.seen = http.seen
                               /\ http'.since \subseteq http.since \cup {"in_place"}
    BY <1>4, <2>1, <2>2, Written DEF Ways
  <2>6. /\ phase = "up" /\ console = "idle" /\ operator' /\ operator' \in BOOLEAN
        /\ UNCHANGED <<phase, recovery, web, resetting, boots, creds, identities, session, worker>>
        /\ ~exhausted' /\ exhausted' \in BOOLEAN
        /\ UNCHANGED <<nvs, revision, console, openBoots, lostSaves>>
    BY <1>4 DEF Reset
  <2>7. FlagsOK'
    BY <1>4, <2>4, <2>5, <2>6, Shapes
    DEF FlagsOK
  <2>8. TypeOK'
    BY <1>4, <2>4, <2>5, <2>6, Shapes, <2>7
    DEF TasksAreSound, CountsAreSound
  <2>9. (TasksAreSound /\ CountsAreSound)'
    BY <1>4, <2>4, <2>5, <2>6, Shapes
    DEF TasksAreSound, CountsAreSound
  <2>10. CredentialIsDurable'
    BY <1>4, <2>4, <2>5, <2>6, Shapes
    DEF CredentialIsDurable, TasksAreSound
  <2>11. CopiesAreSound'
    BY <1>4, <2>4, <2>5, <2>6, Shapes
    DEF CopiesAreSound, RunningAuth, SoundAuth, Auth, TasksAreSound, CountsAreSound, FlagsOK
  <2>12. (RecoveryIsShut /\ SeenIsPast)'
    BY <1>4, <2>4, <2>5, <2>6, Shapes
    DEF RecoveryIsShut, SeenIsPast, TasksAreSound, FlagsOK
  <2> QED
    BY <2>7, <2>8, <2>9, <2>10, <2>11, <2>12
<1>5. ASSUME IInv, ResetAuth PROVE IInv'
  <2>1. WriteLive([live EXCEPT !.auth = NoAuth], "in_place")
    BY <1>5 DEF ResetAuth
  <2>2. /\ [live EXCEPT !.auth = NoAuth] \in Config
        /\ [live EXCEPT !.auth = NoAuth].auth = NoAuth
    BY <1>5, <2>1 DEF Config
  <2>3. live' = [live EXCEPT !.auth = NoAuth]
    BY <1>5, <2>1, <2>2, Written DEF Ways
  <2>4. live' \in Config /\ live'.auth = NoAuth
    BY <2>2, <2>3
  <2>5. /\ http' \in Requests /\ http'.at = http.at
        /\ http.at = "post" => /\ http'.work = http.work /\ http'.seen = http.seen
                               /\ http'.since \subseteq http.since \cup {"in_place"}
    BY <1>5, <2>1, <2>2, Written DEF Ways
  <2>6. /\ phase = "up" /\ console = "idle" /\ operator' /\ operator' \in BOOLEAN
        /\ UNCHANGED <<phase, recovery, web, resetting, boots, creds, identities, session, worker>>
        /\ ~exhausted' /\ exhausted' \in BOOLEAN /\ console' = "drop"
        /\ UNCHANGED <<revision, openBoots, lostSaves>>
    BY <1>5 DEF ResetAuth
  <2>7. nvs' \in {nvs, live'}
    BY <1>5 DEF ResetAuth, Save
  <2>8. FlagsOK'
    BY <1>5, <2>4, <2>5, <2>6, <2>7, Shapes
    DEF FlagsOK
  <2>9. TypeOK'
    BY <1>5, <2>4, <2>5, <2>6, <2>7, Shapes, <2>8
    DEF TasksAreSound, CountsAreSound
  <2>10. (TasksAreSound /\ CountsAreSound)'
    BY <1>5, <2>4, <2>5, <2>6, <2>7, Shapes
    DEF TasksAreSound, CountsAreSound
  <2>11. CredentialIsDurable'
    BY <1>5, <2>4, <2>5, <2>6, <2>7, Shapes
    DEF CredentialIsDurable, TasksAreSound
  <2>12. CopiesAreSound'
    BY <1>5, <2>4, <2>5, <2>6, <2>7, Shapes
    DEF CopiesAreSound, RunningAuth, SoundAuth, Auth, TasksAreSound, CountsAreSound, FlagsOK
  <2>13. (RecoveryIsShut /\ SeenIsPast)'
    BY <1>5, <2>4, <2>5, <2>6, <2>7, Shapes
    DEF RecoveryIsShut, SeenIsPast, TasksAreSound, FlagsOK
  <2> QED
    BY <2>8, <2>9, <2>10, <2>11, <2>12, <2>13
<1>6. ASSUME IInv, ResetAuthDrops PROVE IInv'
  <2>1. FlagsOK'
    BY <1>6
    DEF ResetAuthDrops, FlagsOK
  <2>2. TypeOK'
    BY <1>6, <2>1
    DEF ResetAuthDrops, TasksAreSound, CountsAreSound
  <2>3. (TasksAreSound /\ CountsAreSound)'
    BY <1>6
    DEF ResetAuthDrops, TasksAreSound, CountsAreSound
  <2>4. CredentialIsDurable'
    BY <1>6
    DEF ResetAuthDrops, CredentialIsDurable, TasksAreSound
  <2>5. CopiesAreSound'
    BY <1>6
    DEF ResetAuthDrops, CopiesAreSound, RunningAuth, SoundAuth, Auth, TasksAreSound, CountsAreSound, FlagsOK
  <2>6. (RecoveryIsShut /\ SeenIsPast)'
    BY <1>6
    DEF ResetAuthDrops, RecoveryIsShut, SeenIsPast, TasksAreSound, FlagsOK
  <2> QED
    BY <2>1, <2>2, <2>3, <2>4, <2>5, <2>6
<1>7. ASSUME IInv, Reopen PROVE IInv'
  <2>1. WriteLive([live EXCEPT !.auth = OpenAuth], "in_place")
    BY <1>7 DEF Reopen
  <2>2. /\ [live EXCEPT !.auth = OpenAuth] \in Config
        /\ [live EXCEPT !.auth = OpenAuth].auth = OpenAuth
    BY <1>7, <2>1 DEF Config
  <2>3. live' = [live EXCEPT !.auth = OpenAuth]
    BY <1>7, <2>1, <2>2, Written DEF Ways
  <2>4. live' \in Config /\ live'.auth = OpenAuth
    BY <2>2, <2>3
  <2>5. /\ http' \in Requests /\ http'.at = http.at
        /\ http.at = "post" => /\ http'.work = http.work /\ http'.seen = http.seen
                               /\ http'.since \subseteq http.since \cup {"in_place"}
    BY <1>7, <2>1, <2>2, Written DEF Ways
  <2>6. /\ phase = "up" /\ console = "idle" /\ operator' /\ operator' \in BOOLEAN
        /\ UNCHANGED <<phase, recovery, web, resetting, boots, creds, identities, session, worker>>
        /\ live.auth.pw = 0 /\ ~exhausted' /\ exhausted' \in BOOLEAN /\ openBoots' = 1
        /\ UNCHANGED <<revision, console>>
    BY <1>7 DEF Reopen
  <2>7. \/ nvs' = nvs /\ lostSaves' = 1
        \/ nvs' = live' /\ lostSaves' = 0
    <3>1. PICK ok \in BOOLEAN : /\ nvs' = IF ok THEN live' ELSE nvs
                               /\ lostSaves' = IF ok THEN 0 ELSE 1
      BY <1>7 DEF Reopen, Save
    <3> QED
      BY <3>1
  <2>8. /\ nvs \in Config => nvs.auth.left \in 0..Budget
        /\ http.at = "post" => http.work.auth.left \in 0..Budget
    BY <1>7, Shapes DEF Config, Auth
  <2>9. FlagsOK'
    BY <1>7, <2>4, <2>5, <2>6, <2>7, <2>8, Shapes
    DEF FlagsOK
  <2>10. TypeOK'
    BY <1>7, <2>4, <2>5, <2>6, <2>7, <2>8, Shapes, <2>9
    DEF TasksAreSound, CountsAreSound
  <2>11. (TasksAreSound /\ CountsAreSound)'
    BY <1>7, <2>4, <2>5, <2>6, <2>7, <2>8, Shapes
    DEF TasksAreSound, CountsAreSound
  <2>12. CredentialIsDurable'
    BY <1>7, <2>4, <2>5, <2>6, <2>7, <2>8, Shapes
    DEF CredentialIsDurable, TasksAreSound
  <2>13. CopiesAreSound'
    BY <1>7, <2>4, <2>5, <2>6, <2>7, <2>8, Shapes
    DEF CopiesAreSound, RunningAuth, SoundAuth, Auth, TasksAreSound, CountsAreSound, FlagsOK
  <2>14. (RecoveryIsShut /\ SeenIsPast)'
    BY <1>7, <2>4, <2>5, <2>6, <2>7, <2>8, Shapes
    DEF RecoveryIsShut, SeenIsPast, TasksAreSound, FlagsOK
  <2> QED
    BY <2>9, <2>10, <2>11, <2>12, <2>13, <2>14
<1>8. ASSUME IInv, RegenerateStart PROVE IInv'
  <2>1. worker' \in Works /\ worker'.at = "generating" /\ worker'.work = live
    BY <1>8 DEF RegenerateStart, Works
  <2>2. FlagsOK'
    BY <1>8, <2>1
    DEF RegenerateStart, FlagsOK
  <2>3. TypeOK'
    BY <1>8, <2>1, <2>2
    DEF RegenerateStart, TasksAreSound, CountsAreSound
  <2>4. (TasksAreSound /\ CountsAreSound)'
    BY <1>8, <2>1
    DEF RegenerateStart, TasksAreSound, CountsAreSound
  <2>5. CredentialIsDurable'
    BY <1>8, <2>1
    DEF RegenerateStart, CredentialIsDurable, TasksAreSound
  <2>6. CopiesAreSound'
    BY <1>8, <2>1
    DEF RegenerateStart, CopiesAreSound, RunningAuth, SoundAuth, Auth, TasksAreSound, CountsAreSound, FlagsOK
  <2>7. (RecoveryIsShut /\ SeenIsPast)'
    BY <1>8, <2>1
    DEF RegenerateStart, RecoveryIsShut, SeenIsPast, TasksAreSound, FlagsOK
  <2> QED
    BY <2>2, <2>3, <2>4, <2>5, <2>6, <2>7
<1>9. ASSUME IInv, RegenerateDone PROVE IInv'
  <2>1. worker.work \in Config /\ identities + 1 \in 0..MaxIdentities
    BY <1>9, Shapes DEF RegenerateDone, TasksAreSound
  <2>2. /\ WriteLive([worker.work EXCEPT !.tls = identities + 1], "in_place")
        /\ nvs' = [worker.work EXCEPT !.tls = identities + 1]
    BY <1>9 DEF RegenerateDone, Save
  <2>3. /\ nvs' \in Config
        /\ nvs'.auth = worker.work.auth
    BY <2>1, <2>2 DEF Config
  <2>4. live' = nvs'
    BY <1>9, <2>2, <2>3, Written DEF Ways
  <2>5. /\ http' \in Requests /\ http'.at = http.at
        /\ http.at = "post" => /\ http'.work = http.work /\ http'.seen = http.seen
                               /\ http'.since \subseteq http.since \cup {"in_place"}
    BY <1>9, <2>2, <2>3, Written DEF Ways
  <2>6. /\ console = "tls" /\ console' = "idle" /\ worker' = NoWork /\ identities' = identities + 1
        /\ UNCHANGED <<phase, recovery, revision, web, session, resetting, boots>>
        /\ UNCHANGED <<creds, operator, exhausted, openBoots, lostSaves>>
    BY <1>9 DEF RegenerateDone
  <2>7. live' \in Config /\ nvs' = live' /\ live'.auth = worker.work.auth
    BY <2>3, <2>4
  <2>8. identities' \in 0..MaxIdentities
    BY <2>1, <2>6
  <2>9. FlagsOK'
    BY <1>9, <2>4, <2>5, <2>6, <2>7, <2>8, Shapes
    DEF FlagsOK
  <2>10. TypeOK'
    BY <1>9, <2>4, <2>5, <2>6, <2>7, <2>8, Shapes, <2>9
    DEF TasksAreSound, CountsAreSound
  <2>11. (TasksAreSound /\ CountsAreSound)'
    BY <1>9, <2>4, <2>5, <2>6, <2>7, <2>8, Shapes
    DEF TasksAreSound, CountsAreSound
  <2>12. CredentialIsDurable'
    BY <1>9, <2>4, <2>5, <2>6, <2>7, <2>8, Shapes
    DEF CredentialIsDurable, TasksAreSound
  <2>13. CopiesAreSound'
    BY <1>9, <2>4, <2>5, <2>6, <2>7, <2>8, Shapes
    DEF CopiesAreSound, RunningAuth, SoundAuth, Auth, TasksAreSound, CountsAreSound, FlagsOK
  <2>14. (RecoveryIsShut /\ SeenIsPast)'
    BY <1>9, <2>4, <2>5, <2>6, <2>7, <2>8, Shapes
    DEF RecoveryIsShut, SeenIsPast, TasksAreSound, FlagsOK
  <2> QED
    BY <2>9, <2>10, <2>11, <2>12, <2>13, <2>14
<1>10. ASSUME IInv, RegenerateFails PROVE IInv'
  <2>1. FlagsOK'
    BY <1>10
    DEF RegenerateFails, FlagsOK
  <2>2. TypeOK'
    BY <1>10, <2>1
    DEF RegenerateFails, TasksAreSound, CountsAreSound
  <2>3. (TasksAreSound /\ CountsAreSound)'
    BY <1>10
    DEF RegenerateFails, TasksAreSound, CountsAreSound
  <2>4. CredentialIsDurable'
    BY <1>10
    DEF RegenerateFails, CredentialIsDurable, TasksAreSound
  <2>5. CopiesAreSound'
    BY <1>10
    DEF RegenerateFails, CopiesAreSound, RunningAuth, SoundAuth, Auth, TasksAreSound, CountsAreSound, FlagsOK
  <2>6. (RecoveryIsShut /\ SeenIsPast)'
    BY <1>10
    DEF RegenerateFails, RecoveryIsShut, SeenIsPast, TasksAreSound, FlagsOK
  <2> QED
    BY <2>1, <2>2, <2>3, <2>4, <2>5, <2>6
<1> QED
  BY <1>1, <1>2, <1>3, <1>4, <1>5, <1>6, <1>7, <1>8, <1>9, <1>10 DEF Console

(* The button, and a restart at any point.                                 *)
LEMMA ButtonKeeps == IInv /\ (FactoryReset \/ Restart) => IInv'
<1> USE BudgetAssumption, BoundsAssumption, BlobsAssumption, FixedSections, IdleShapes DEF IInv, TypeOK, flows, counts, ghosts, Serving, HttpIdle, ConsoleIdle, consoleRest
<1>1. ASSUME IInv, FactoryReset PROVE IInv'
  <2>1. WriteLive(Defaults, "in_place")
    BY <1>1 DEF FactoryReset
  <2>2. /\ Defaults \in Config
        /\ Defaults.auth = NoAuth
    BY <1>1, <2>1 DEF Config
  <2>3. live' = Defaults
    BY <1>1, <2>1, <2>2, Written DEF Ways
  <2>4. live' \in Config /\ live'.auth = NoAuth
    BY <2>2, <2>3
  <2>5. /\ http' \in Requests /\ http'.at = http.at
        /\ http.at = "post" => /\ http'.work = http.work /\ http'.seen = http.seen
                               /\ http'.since \subseteq http.since \cup {"in_place"}
    BY <1>1, <2>1, <2>2, Written DEF Ways
  <2>6. /\ phase = "up" /\ operator' /\ operator' \in BOOLEAN /\ ~exhausted' /\ exhausted' \in BOOLEAN
        /\ UNCHANGED <<phase, recovery, revision, web, session, console, worker>>
        /\ UNCHANGED <<boots, creds, identities, openBoots, lostSaves>>
    BY <1>1 DEF FactoryReset
  <2>7. nvs' \in {nvs, Defaults} /\ resetting' \in BOOLEAN
    BY <1>1 DEF FactoryReset, Save
  <2>8. FlagsOK'
    BY <1>1, <2>4, <2>5, <2>6, <2>7, Shapes
    DEF FlagsOK
  <2>9. TypeOK'
    BY <1>1, <2>4, <2>5, <2>6, <2>7, Shapes, <2>8
    DEF TasksAreSound, CountsAreSound
  <2>10. (TasksAreSound /\ CountsAreSound)'
    BY <1>1, <2>4, <2>5, <2>6, <2>7, Shapes
    DEF TasksAreSound, CountsAreSound
  <2>11. CredentialIsDurable'
    BY <1>1, <2>4, <2>5, <2>6, <2>7, Shapes
    DEF CredentialIsDurable, TasksAreSound
  <2>12. CopiesAreSound'
    BY <1>1, <2>4, <2>5, <2>6, <2>7, Shapes
    DEF CopiesAreSound, RunningAuth, SoundAuth, Auth, TasksAreSound, CountsAreSound, FlagsOK
  <2>13. (RecoveryIsShut /\ SeenIsPast)'
    BY <1>1, <2>4, <2>5, <2>6, <2>7, Shapes
    DEF RecoveryIsShut, SeenIsPast, TasksAreSound, FlagsOK
  <2> QED
    BY <2>8, <2>9, <2>10, <2>11, <2>12, <2>13
<1>2. ASSUME IInv, Restart PROVE IInv'
  <2>1. FlagsOK'
    BY <1>2
    DEF Restart, FlagsOK
  <2>2. TypeOK'
    BY <1>2, <2>1
    DEF Restart, TasksAreSound, CountsAreSound
  <2>3. (TasksAreSound /\ CountsAreSound)'
    BY <1>2
    DEF Restart, TasksAreSound, CountsAreSound
  <2>4. CredentialIsDurable'
    BY <1>2
    DEF Restart, CredentialIsDurable, TasksAreSound
  <2>5. CopiesAreSound'
    BY <1>2
    DEF Restart, CopiesAreSound, RunningAuth, SoundAuth, Auth, TasksAreSound, CountsAreSound, FlagsOK
  <2>6. (RecoveryIsShut /\ SeenIsPast)'
    BY <1>2
    DEF Restart, RecoveryIsShut, SeenIsPast, TasksAreSound, FlagsOK
  <2> QED
    BY <2>1, <2>2, <2>3, <2>4, <2>5, <2>6
<1> QED
  BY <1>1, <1>2

-----------------------------------------------------------------------------
LEMMA InitIsSound == Init => IInv
<1> SUFFICES ASSUME Init PROVE IInv
  OBVIOUS
<1> USE FixedSections, IdleShapes, BudgetAssumption, BoundsAssumption, BlobsAssumption
<1>1. [Defaults EXCEPT !.auth = OpenAuth] \in Config
      /\ [Defaults EXCEPT !.auth = OpenAuth].auth = OpenAuth
  BY Edits
<1>2. nvs \in Config \cup {NoBlob, BadBlob} /\ (nvs \in Config => nvs.auth = OpenAuth)
  BY <1>1 DEF Init
<1>3. FlagsOK
  BY DEF Init, FlagsOK
<1>4. TypeOK
  BY <1>2, <1>3 DEF Init, TypeOK
<1>5. TasksAreSound /\ CountsAreSound /\ CredentialIsDurable
  BY DEF Init, TasksAreSound, CountsAreSound, CredentialIsDurable
<1>6. CopiesAreSound /\ RecoveryIsShut /\ SeenIsPast
  BY <1>2 DEF Init, CopiesAreSound, SoundAuth, RecoveryIsShut, SeenIsPast
<1> QED
  BY <1>4, <1>5, <1>6 DEF IInv

LEMMA NextKeeps == IInv /\ [Next]_vars => IInv'
<1> SUFFICES ASSUME IInv, [Next]_vars PROVE IInv'
  OBVIOUS
<1>1. CASE UNCHANGED vars
  BY <1>1
  DEF vars, flows, counts, ghosts, IInv, TypeOK, FlagsOK, TasksAreSound,
      CountsAreSound, CredentialIsDurable, CopiesAreSound, SoundAuth, RunningAuth,
      RecoveryIsShut, SeenIsPast
<1> QED
  BY <1>1, BootKeeps, HttpServerKeeps, ConsoleKeeps, ButtonKeeps DEF Next

(* The invariant holds of every reachable state.                           *)
THEOREM Inductive == Spec => []IInv
  BY InitIsSound, NextKeeps, PTL DEF Spec

(* A credential the device acts on is one it would still have after a      *)
(* reboot (auth.c:535-571).                                                *)
THEOREM CredentialSurvives == Spec => []CredentialIsDurable
<1>1. IInv => CredentialIsDurable
  BY DEF IInv
<1> QED
  BY <1>1, Inductive, PTL

(* A window that ran out of boots stays shut and the device unclaimed,     *)
(* until the operator acts or the stored configuration is lost             *)
(* (auth.c:248-284, 506-519).                                              *)
THEOREM ShutForGood == Spec => []ExhaustedStaysClosed
<1>1. IInv => ExhaustedStaysClosed
  BY DEF IInv, CopiesAreSound, RunningAuth, SoundAuth, ExhaustedStaysClosed
<1> QED
  BY <1>1, Inductive, PTL

(* No window outlives its budget of boots by more than the saves that      *)
(* failed to count one (auth.c:262-282).                                   *)
THEOREM WindowEnds == Spec => []WindowIsBounded
<1>1. IInv => WindowIsBounded
  <2> SUFFICES ASSUME IInv, phase = "up", live.auth.open
               PROVE  openBoots <= Budget + lostSaves
    BY DEF WindowIsBounded
  <2>1. live.auth.left \in 0..Budget /\ openBoots \in Nat /\ lostSaves \in Nat
    BY BoundsAssumption, Edits DEF IInv, TypeOK, Auth
  <2>2. 0 < live.auth.left /\ live.auth.left + openBoots <= Budget + 1 + lostSaves
    BY DEF IInv, CopiesAreSound, RunningAuth, SoundAuth
  <2> QED
    BY <2>1, <2>2, BudgetAssumption
<1> QED
  BY <1>1, Inductive, PTL

(* A boot that could not read its configuration leaves it in flash as it   *)
(* found it until somebody at the console or the button acts: the boot     *)
(* task has saved nothing, and nobody can be logged in or claim the device *)
(* (provisioning.c:229-252).                                               *)
THEOREM RecoveryIsReadOnly == Spec => RecoveryKeepsBlob
<1>1. ASSUME IInv, [Next]_vars PROVE [recovery /\ nvs' # nvs => operator']_vars
  <2> SUFFICES ASSUME Next, recovery, nvs' # nvs, ~operator'
               PROVE  FALSE
    BY <1>1 DEF vars
  <2> USE <1>1, FixedSections
  <2>1. ASSUME ~operator PROVE /\ live.auth = ClosedAuth /\ phase # "load"
                               /\ http.at \notin {"body", "post", "accepted"}
    BY <2>1 DEF IInv, RecoveryIsShut, TasksAreSound
  <2>2. CASE Boot
    <3>1. ~operator
      BY <2>2 DEF Boot, LoadStored, LoadRecovery, LoadDefaults, Loaded, AuthInit, TlsInit, ghosts
    <3> QED
      BY <2>1, <2>2, <3>1
      DEF Boot, LoadStored, LoadRecovery, LoadDefaults, Loaded, AuthInit, WindowIsClosed,
          TlsInit, KeepInRam
  <2>3. CASE HttpServer
    <3>1. ~operator
      BY <2>3 DEF HttpServer, Login, SessionEnds, PostRequest, PostSnapshot, PostInvalid,
                  PostCommit, PasswordRequest, PasswordCheck, PasswordCommit,
                  PasswordDropsSessions, PasswordOpensSession, ghosts
    <3> QED
      BY <2>1, <2>3, <3>1
      DEF HttpServer, Login, SessionEnds, PostRequest, PostSnapshot, PostInvalid,
          PostCommit, PasswordRequest, PasswordCheck, PasswordCommit,
          PasswordDropsSessions, PasswordOpensSession
  <2>4. CASE Console
    <3>1. ResetAuthDrops \/ RegenerateDone \/ RegenerateFails
      BY <2>4 DEF Console, Set, SetUplinkMgmt, SaveCommand, Reset, ResetAuth, Reopen,
                  RegenerateStart
    <3> QED
      BY <3>1 DEF ResetAuthDrops, RegenerateDone, RegenerateFails, ghosts, IInv, TasksAreSound
  <2>5. CASE FactoryReset \/ Restart
    BY <2>5 DEF FactoryReset, Restart
  <2> QED
    BY <2>2, <2>3, <2>4, <2>5 DEF Next
<1> QED
  BY <1>1, Inductive, PTL DEF Spec, RecoveryKeepsBlob

(* A web configuration POST never overwrites what a console setter or a    *)
(* password change committed after it took its snapshot                    *)
(* (web_ui.c:737-741, 899-911).                                            *)
THEOREM CommitsAreKept == Spec => PostKeepsCommits
<1>1. IInv => [PostCommit /\ live' # live => "committed" \notin http.since]_vars
  <2> SUFFICES ASSUME IInv, PostCommit, live' # live, "committed" \in http.since
               PROVE  FALSE
    OBVIOUS
  <2>1. http.at = "post" /\ revision = http.seen
    BY DEF PostCommit, PostRefused
  <2>2. http.seen < revision /\ http.seen \in Nat
    BY <2>1, Shapes, BoundsAssumption DEF IInv, SeenIsPast, TypeOK
  <2> QED
    BY <2>1, <2>2
<1> QED
  BY <1>1, Inductive, PTL DEF PostKeepsCommits
=============================================================================
