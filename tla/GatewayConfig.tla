--------------------------- MODULE GatewayConfig ---------------------------
(***************************************************************************)
(* The gateway's one configuration: the live copy in RAM (s_cfg), the blob *)
(* in NVS, and everything that writes either (provisioning.c, auth.c,      *)
(* tls_identity.c, factory_reset.c, config_post_handler in web_ui.c).      *)
(*                                                                         *)
(* Writers are tasks: the boot task, the HTTP server (one task, so one     *)
(* request at a time), the console (one command at a time), the TLS worker *)
(* the console starts and waits for, and the reset button.  A region under *)
(* s_cfg_lock is one step, flash write included; a handler that lets go of *)
(* the lock half way is several.                                           *)
(*                                                                         *)
(* A configuration has three sections: settings (radio, addresses, role,   *)
(* the uplink-management flag), auth (credential and onboarding window)    *)
(* and tls (which HTTPS identity).  Passphrases, addresses and keys are    *)
(* values nothing here looks into: a credential or an identity is the      *)
(* serial number of its creation, 0 for none.  The setup secret is not     *)
(* kept: a claim is a request that presents the right one.                 *)
(***************************************************************************)
EXTENDS Naturals, FiniteSets

CONSTANTS
    Settings,       \* possible contents of the settings section
    DefaultSettings,
    Budget,         \* AUTH_ONBOARDING_BOOT_BUDGET
    NoBlob,         \* NVS holds no configuration
    BadBlob,        \* NVS holds one this firmware cannot use
    MaxBoots, MaxCreds, MaxIdentities, MaxRevision   \* bounds

ASSUME SettingsAssumption == DefaultSettings \in Settings
ASSUME BudgetAssumption == Budget \in Nat \ {0}
ASSUME BoundsAssumption ==
    /\ MaxBoots \in Nat \ {0}
    /\ {MaxCreds, MaxIdentities, MaxRevision} \subseteq Nat

VARIABLES
    phase,      \* of the boot task: load, auth, tls, then up
    live, nvs,
    recovery,   \* s_recovery_mode
    revision,   \* s_cfg_revision
    web,        \* web_ui_start() accepted to serve
    session,    \* somebody is logged in to the web interface
    http,       \* the request the HTTP server is in the middle of
    console,    \* the command the console is in the middle of
    worker,     \* the copy the TLS worker is working on
    resetting,  \* factory reset saved, esp_restart() coming
    boots, creds, identities,   \* how many so far
    operator,   \* somebody at the console or the button wrote this boot
    exhausted,  \* the onboarding window ran out of boots
    openBoots,  \* boots the current onboarding window has been open for
    lostSaves   \* flash writes of its counter that failed meanwhile

ghosts == <<operator, exhausted, openBoots, lostSaves>>
counts == <<boots, creds, identities>>
flows == <<web, session, http, console, worker, resetting>>
vars == <<phase, live, nvs, recovery, revision, flows, counts, ghosts>>

Auth == [pw : 0..MaxCreds, started : BOOLEAN, open : BOOLEAN, left : 0..Budget]
Config == [settings : Settings, auth : Auth, tls : 0..MaxIdentities]

ASSUME BlobsAssumption == NoBlob \notin Config /\ BadBlob \notin Config

NoAuth == [pw |-> 0, started |-> FALSE, open |-> FALSE, left |-> 0]
ClosedAuth == [NoAuth EXCEPT !.started = TRUE]
OpenAuth == [pw |-> 0, started |-> TRUE, open |-> TRUE, left |-> Budget]

Defaults == [settings |-> DefaultSettings, auth |-> NoAuth, tls |-> 0]
RecoveryDefaults == [Defaults EXCEPT !.auth = ClosedAuth]

(* How a write reached the live configuration: through                     *)
(* provisioning_config_commit(), which bumps the revision, or in place.    *)
Ways == {"committed", "in_place"}

NoRequest == [at |-> "idle"]
NoWork == [at |-> "idle"]

Requests ==
    {NoRequest}
    \cup [at : {"body", "asked", "accepted", "drop", "create"}]
    \cup [at : {"post"}, work : Config, seen : 0..MaxRevision, since : SUBSET Ways]
Works == {NoWork} \cup [at : {"generating"}, work : Config]

FlagsOK == {recovery, web, session, resetting, operator, exhausted} \subseteq BOOLEAN

TypeOK ==
    /\ FlagsOK
    /\ phase \in {"load", "auth", "tls", "up"}
    /\ live \in Config
    /\ nvs \in Config \cup {NoBlob, BadBlob}
    /\ revision \in 0..MaxRevision
    /\ http \in Requests
    /\ console \in {"idle", "drop", "tls"}
    /\ worker \in Works
    /\ boots \in 0..MaxBoots
    /\ creds \in 0..MaxCreds
    /\ identities \in 0..MaxIdentities
    /\ openBoots \in 0..MaxBoots
    /\ lostSaves \in 0..(2 * MaxBoots + 1)

-----------------------------------------------------------------------------
(* provisioning_save(): the blob is replaced, or the flash write failed.   *)
Save(cfg, ok) == nvs' = IF ok THEN cfg ELSE nvs

(* The live copy is replaced only by what was saved.                       *)
CommitUnsaved(work, ok) == work
CommitIfSaved(work, ok) == IF ok THEN work ELSE live

(* Every write to the live configuration, remembered by a POST in flight.  *)
WriteLive(cfg, way) ==
    /\ live' = cfg
    /\ http' = IF http.at = "post" THEN [http EXCEPT !.since = @ \cup {way}]
               ELSE http

Init ==
    /\ phase = "load"
    /\ live = Defaults
    /\ nvs \in {NoBlob, BadBlob, [Defaults EXCEPT !.auth = OpenAuth]}
    /\ recovery = FALSE /\ web = FALSE /\ resetting = FALSE
    /\ revision = 0
    /\ session = FALSE
    /\ http = NoRequest
    /\ console = "idle"
    /\ worker = NoWork
    /\ boots = 0 /\ creds = 0 /\ identities = 0
    /\ operator = FALSE /\ exhausted = FALSE
    /\ openBoots = 0 /\ lostSaves = 0

-----------------------------------------------------------------------------
(* Boot.  Nothing else runs until phase is "up".                           *)

Loaded(cfg, blob, bad) ==
    /\ phase = "load"
    /\ live' = cfg
    /\ nvs' = blob
    /\ recovery' = bad
    /\ phase' = "auth"
    /\ boots' = boots + 1
    /\ UNCHANGED <<revision, flows, creds, identities, operator, openBoots,
                   lostSaves>>

(* The stored blob is there and valid.                                     *)
LoadStored ==
    /\ nvs \in Config
    /\ Loaded(nvs, nvs, FALSE)
    /\ UNCHANGED exhausted

(* A blob is there but cannot be used, or reading it failed.               *)
LoadRecovery ==
    /\ nvs # NoBlob
    /\ Loaded(RecoveryDefaults, nvs, TRUE)
    /\ UNCHANGED exhausted

(* Nothing is stored; nvs_open() failed, which is taken to mean the same;  *)
(* or nvs_flash_init() found a partition it had to erase.                  *)
LoadDefaults ==
    /\ \/ Loaded(Defaults, nvs, FALSE)
       \/ nvs # NoBlob /\ Loaded(Defaults, NoBlob, FALSE)
    /\ exhausted' = FALSE

(* auth_init(): open a window on a device that never had one, or spend one *)
(* boot of the window that is open.  A failed save is tolerated.           *)
SpendLate(a) == [a EXCEPT !.left = IF @ > 0 THEN @ - 1 ELSE 0, !.open = a.left > 0]
SpendBoot(a) ==
    LET left == IF a.left > 0 THEN a.left - 1 ELSE 0
    IN  [a EXCEPT !.left = left, !.open = left > 0]

WindowIsClosedOrReopens(a) == FALSE
WindowIsClosed(a) == a.started /\ ~a.open

AuthInit ==
    LET a == live.auth
        b == IF a.started /\ a.open THEN SpendBoot(a) ELSE OpenAuth
    IN
    /\ phase = "auth"
    /\ phase' = "tls"
    /\ IF a.pw # 0 \/ WindowIsClosed(a)
       THEN UNCHANGED <<live, nvs, exhausted, openBoots, lostSaves>>
       ELSE \E ok \in BOOLEAN :
            /\ live' = [live EXCEPT !.auth = b]
            /\ Save(live', ok)
            /\ exhausted' = (exhausted \/ ~b.open)
            /\ openBoots' = IF a.open THEN openBoots + 1 ELSE 1
            /\ lostSaves' = (IF a.open THEN lostSaves ELSE 0) + (IF ok THEN 0 ELSE 1)
    /\ UNCHANGED <<recovery, revision, flows, counts, operator>>

(* tls_identity_init(): without an identity the worker makes one; the boot *)
(* task waits for it.  A recovery boot keeps it in RAM.  The console, the  *)
(* button task and the web server start afterwards; the web server only if *)
(* there is an identity to serve with.                                     *)
KeepInRamNever == FALSE
KeepInRam == recovery

TlsInit ==
    /\ phase = "tls"
    /\ phase' = "up"
    /\ \/ UNCHANGED <<live, nvs, identities>>  \* there is one, or making it failed
       \/ \E ok \in BOOLEAN :
            /\ live.tls = 0
            /\ identities < MaxIdentities
            /\ identities' = identities + 1
            /\ LET work == [live EXCEPT !.tls = identities + 1]
               IN  IF KeepInRam
                   THEN live' = work /\ UNCHANGED nvs
                   ELSE Save(work, ok) /\ live' = IF ok THEN work ELSE live
    /\ web' = (live'.tls # 0)
    /\ UNCHANGED <<recovery, revision, session, http, console, worker,
                   resetting, boots, creds, ghosts>>

-----------------------------------------------------------------------------
(* The HTTP server.                                                        *)

Serving == phase = "up" /\ web
HttpIdle == Serving /\ http.at = "idle"

(* POST /api/auth/login with the right password.                           *)
Login ==
    /\ HttpIdle
    /\ live.auth.pw # 0
    /\ session' = TRUE
    /\ UNCHANGED <<phase, live, nvs, recovery, revision, web, http, console,
                   worker, resetting, counts, ghosts>>

(* Logout, expiry or eviction of a session.                                *)
SessionEnds ==
    /\ Serving
    /\ session
    /\ session' = FALSE
    /\ UNCHANGED <<phase, live, nvs, recovery, revision, web, http, console,
                   worker, resetting, counts, ghosts>>

(* config_post_handler(): the session is checked, the body received; then  *)
(* snapshot and revision under one hold of the lock, edit outside it, save *)
(* and commit under another.  A bad request ends at either of the first.   *)
PostRequest ==
    /\ HttpIdle
    /\ session
    /\ http' = [at |-> "body"]
    /\ UNCHANGED <<phase, live, nvs, recovery, revision, web, session, console,
                   worker, resetting, counts, ghosts>>

PostSnapshot ==
    /\ Serving
    /\ http.at = "body"
    /\ \E s \in Settings :
        http' = [at |-> "post", work |-> [live EXCEPT !.settings = s],
                 seen |-> revision, since |-> {}]
    /\ UNCHANGED <<phase, live, nvs, recovery, revision, web, session, console,
                   worker, resetting, counts, ghosts>>

PostInvalid ==
    /\ Serving
    /\ http.at \in {"body", "post"}
    /\ http' = NoRequest
    /\ UNCHANGED <<phase, live, nvs, recovery, revision, web, session, console,
                   worker, resetting, counts, ghosts>>

PostRefusedNever == FALSE
PostRefused == revision # http.seen

PostCommit ==
    /\ Serving
    /\ http.at = "post"
    /\ http' = NoRequest
    /\ IF PostRefused
       THEN UNCHANGED <<live, nvs, revision>>
       ELSE \E ok \in BOOLEAN :
            /\ ok => revision < MaxRevision
            /\ Save(http.work, ok)
            /\ live' = CommitIfSaved(http.work, ok)
            /\ revision' = IF ok THEN revision + 1 ELSE revision
    /\ UNCHANGED <<phase, recovery, web, session, console, worker, resetting,
                   counts, ghosts>>

(* POST /api/auth/password.  The handler asks for a session if a password  *)
(* is set; auth_commit_password() looks again, and asks for the setup      *)
(* secret of an open window if none is; then, under another hold of the    *)
(* lock, it saves and commits the new credential with the window closed.   *)
PasswordRequest ==
    /\ HttpIdle
    /\ live.auth.pw # 0 => session
    /\ http' = [at |-> "asked"]
    /\ UNCHANGED <<phase, live, nvs, recovery, revision, web, session, console,
                   worker, resetting, counts, ghosts>>

MayClaimAlways(a) == TRUE
MayClaim(a) == a.pw = 0 => a.open

PasswordCheck ==
    /\ Serving
    /\ http.at = "asked"
    /\ \/ MayClaim(live.auth) /\ http' = [at |-> "accepted"]
       \/ http' = NoRequest     \* or the salt on offer has expired
    /\ UNCHANGED <<phase, live, nvs, recovery, revision, web, session, console,
                   worker, resetting, counts, ghosts>>

PasswordCommit ==
    /\ Serving
    /\ http.at = "accepted"
    /\ creds < MaxCreds
    /\ creds' = creds + 1
    /\ \E ok \in BOOLEAN :
        LET work == [live EXCEPT !.auth.pw = creds + 1, !.auth.open = FALSE]
        IN
        /\ ok => revision < MaxRevision
        /\ Save(work, ok)
        /\ live' = CommitIfSaved(work, ok)
        /\ revision' = IF ok THEN revision + 1 ELSE revision
        /\ http' = IF ok THEN [at |-> "drop"] ELSE NoRequest
    /\ UNCHANGED <<phase, recovery, web, session, console, worker, resetting,
                   boots, identities, ghosts>>

PasswordDropsSessions ==
    /\ Serving
    /\ http.at = "drop"
    /\ session' = FALSE
    /\ http' = [at |-> "create"]
    /\ UNCHANGED <<phase, live, nvs, recovery, revision, web, console, worker,
                   resetting, counts, ghosts>>

PasswordOpensSession ==
    /\ Serving
    /\ http.at = "create"
    /\ session' = TRUE
    /\ http' = NoRequest
    /\ UNCHANGED <<phase, live, nvs, recovery, revision, web, console, worker,
                   resetting, counts, ghosts>>

-----------------------------------------------------------------------------
(* The console.                                                            *)

ConsoleIdle == phase = "up" /\ console = "idle"
consoleRest == <<phase, recovery, web, resetting, counts>>

(* gwcfg-set-node, -uplink, -softap, -role, -uplink-static-ip,             *)
(* -wifi-uplink and -halow-ap: copy, edit, validate, commit.               *)
Set ==
    /\ ConsoleIdle
    /\ revision < MaxRevision
    /\ revision' = revision + 1
    /\ \E s \in Settings : WriteLive([live EXCEPT !.settings = s], "committed")
    /\ operator' = TRUE
    /\ UNCHANGED <<consoleRest, nvs, session, console, worker, exhausted,
                   openBoots, lostSaves>>

(* gwcfg-set-uplink-mgmt writes the live copy itself.                      *)
SetUplinkMgmt ==
    /\ ConsoleIdle
    /\ \E s \in Settings : WriteLive([live EXCEPT !.settings = s], "in_place")
    /\ operator' = TRUE
    /\ UNCHANGED <<consoleRest, nvs, revision, session, console, worker,
                   exhausted, openBoots, lostSaves>>

SaveCommand ==
    /\ ConsoleIdle
    /\ \E ok \in BOOLEAN : Save(live, ok)
    /\ operator' = TRUE
    /\ UNCHANGED <<consoleRest, live, revision, session, http, console, worker,
                   exhausted, openBoots, lostSaves>>

(* gwcfg-reset: defaults, in RAM only.                                     *)
Reset ==
    /\ ConsoleIdle
    /\ WriteLive(Defaults, "in_place")
    /\ operator' = TRUE
    /\ exhausted' = FALSE
    /\ UNCHANGED <<consoleRest, nvs, revision, session, console, worker,
                   openBoots, lostSaves>>

(* gwcfg-reset-auth: clear the section in the live copy, save, unlock,     *)
(* then drop the sessions.                                                 *)
ResetAuth ==
    /\ ConsoleIdle
    /\ WriteLive([live EXCEPT !.auth = NoAuth], "in_place")
    /\ \E ok \in BOOLEAN : Save(live', ok)
    /\ console' = "drop"
    /\ operator' = TRUE
    /\ exhausted' = FALSE
    /\ UNCHANGED <<consoleRest, revision, session, worker, openBoots, lostSaves>>

ResetAuthDrops ==
    /\ console = "drop"
    /\ session' = FALSE
    /\ console' = "idle"
    /\ UNCHANGED <<consoleRest, live, nvs, revision, http, worker, ghosts>>

(* gwcfg-reopen-onboarding, on a device nobody has claimed.                *)
Reopen ==
    /\ ConsoleIdle
    /\ live.auth.pw = 0
    /\ WriteLive([live EXCEPT !.auth = OpenAuth], "in_place")
    /\ \E ok \in BOOLEAN :
        /\ Save(live', ok)
        /\ lostSaves' = IF ok THEN 0 ELSE 1
    /\ operator' = TRUE
    /\ exhausted' = FALSE
    /\ openBoots' = 1
    /\ UNCHANGED <<consoleRest, revision, session, console, worker>>

(* gwcfg-reset-tls-identity: the worker copies the configuration under the *)
(* lock, generates outside it, saves and writes back under it.             *)
RegenerateStart ==
    /\ ConsoleIdle
    /\ console' = "tls"
    /\ worker' = [at |-> "generating", work |-> live]
    /\ operator' = TRUE
    /\ UNCHANGED <<consoleRest, live, nvs, revision, session, http, exhausted,
                   openBoots, lostSaves>>

RegenerateDone ==
    /\ console = "tls"
    /\ identities < MaxIdentities
    /\ identities' = identities + 1
    /\ LET work == [worker.work EXCEPT !.tls = identities + 1]
       IN  Save(work, TRUE) /\ WriteLive(work, "in_place")
    /\ console' = "idle"
    /\ worker' = NoWork
    /\ UNCHANGED <<phase, recovery, revision, web, session, resetting, boots,
                   creds, ghosts>>

RegenerateFails ==
    /\ console = "tls"
    /\ console' = "idle"
    /\ worker' = NoWork
    /\ UNCHANGED <<consoleRest, live, nvs, revision, session, http, ghosts>>

-----------------------------------------------------------------------------
(* The button: do_factory_reset() puts the defaults in the live copy, then *)
(* saves them, then restarts; if the save failed it stays up.              *)
FactoryReset ==
    /\ phase = "up"
    /\ ~resetting
    /\ WriteLive(Defaults, "in_place")
    /\ \E ok \in BOOLEAN : Save(Defaults, ok) /\ resetting' = ok
    /\ operator' = TRUE
    /\ exhausted' = FALSE
    /\ UNCHANGED <<phase, recovery, revision, web, session, console, worker,
                   counts, openBoots, lostSaves>>

(* esp_restart(), or the power fails, at any point: RAM is gone.           *)
Restart ==
    /\ boots < MaxBoots
    /\ phase' = "load"
    /\ live' = Defaults
    /\ recovery' = FALSE
    /\ revision' = 0
    /\ web' = FALSE
    /\ session' = FALSE
    /\ http' = NoRequest
    /\ console' = "idle"
    /\ worker' = NoWork
    /\ resetting' = FALSE
    /\ operator' = FALSE
    /\ UNCHANGED <<nvs, counts, exhausted, openBoots, lostSaves>>

-----------------------------------------------------------------------------
Boot == LoadStored \/ LoadRecovery \/ LoadDefaults \/ AuthInit \/ TlsInit

HttpServer ==
    \/ Login \/ SessionEnds
    \/ PostRequest \/ PostSnapshot \/ PostInvalid \/ PostCommit
    \/ PasswordRequest \/ PasswordCheck \/ PasswordCommit
    \/ PasswordDropsSessions \/ PasswordOpensSession

Console ==
    \/ Set \/ SetUplinkMgmt \/ SaveCommand \/ Reset
    \/ ResetAuth \/ ResetAuthDrops \/ Reopen
    \/ RegenerateStart \/ RegenerateDone \/ RegenerateFails

Next == Boot \/ HttpServer \/ Console \/ FactoryReset \/ Restart

Spec == Init /\ [][Next]_vars

-----------------------------------------------------------------------------
(* A credential the device acts on is one it would still have after a      *)
(* reboot: whatever save failed and whoever wrote in between, the live     *)
(* copy never holds a password that NVS does not (auth.c:535-571).         *)
CredentialIsDurable ==
    live.auth.pw # 0 => nvs \in Config /\ nvs.auth.pw = live.auth.pw

(* A boot that could not read its configuration leaves it in flash as it   *)
(* found it until somebody at the console or the button acts: no boot step *)
(* and no web request writes on its own (provisioning.c:229-252).          *)
RecoveryKeepsBlob == [][recovery /\ nvs' # nvs => operator']_vars

(* A window that ran out of boots stays shut and the device unclaimed over *)
(* any number of reboots, failed saves, unreadable blobs and requests to   *)
(* claim it, until the operator acts or the stored configuration is lost   *)
(* (auth.c:248-284, 506-519).                                              *)
ExhaustedStaysClosed ==
    exhausted /\ phase = "up" => ~live.auth.open /\ live.auth.pw = 0

(* No window outlives its budget of boots by more than the saves that      *)
(* failed to count one (auth.c:262-282).                                   *)
WindowIsBounded == phase = "up" /\ live.auth.open => openBoots <= Budget + lostSaves

(* A web configuration POST never overwrites what a console setter or a    *)
(* password change committed after it took its snapshot                    *)
(* (web_ui.c:737-741, 899-911).                                            *)
PostKeepsCommits ==
    [][PostCommit /\ live' # live => "committed" \notin http.since]_vars

(* What web_ui.c:893-895 says of the revision: every write anywhere in the *)
(* firmware bumps it, so a POST that finds it unchanged overwrites nothing.*)
PostSeesEveryWrite == [][PostCommit /\ live' # live => http.since = {}]_vars

(* What provisioning.c:1232-1237 says of gwcfg-reset-tls-identity: it      *)
(* replaces the identity and no other setting.                             *)
RegenerateKeepsTheRest ==
    [][RegenerateDone => /\ live'.auth = live.auth
                         /\ live'.settings = live.settings]_vars

=============================================================================
