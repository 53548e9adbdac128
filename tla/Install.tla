------------------------------ MODULE Install ------------------------------
(***************************************************************************)
(* Setup and start: scripts/setup.py, scripts/run.sh, app/auth.py and the  *)
(* first half of main.py's lifespan, over the four files they share.       *)
(*                                                                         *)
(* The wizard asks, then writes the port map, the state file if there is   *)
(* none, moves credentials aside that are to be replaced, writes            *)
(* polista.env and reports the login. A start reads polista.env, creates   *)
(* credentials from it if there are none, and serves if the port map and   *)
(* the saved state fit. Both may die at any point; setup may be run again, *)
(* and while the application runs.                                         *)
(*                                                                         *)
(* A file is written in place: it is Torn from open to close. Of the port  *)
(* map only its number of ports is kept, of the state file the highest     *)
(* port it names (0: no connections).                                      *)
(***************************************************************************)
EXTENDS Integers, Sequences

CONSTANTS
    Logins,         \* the logins an operator may type or setup make up
    Placeholder,    \* what setup puts in polista.env when a login is kept
    DefaultLogin,   \* BOOTSTRAP_USERNAME and BOOTSTRAP_PASSWORD of config.py
    DefaultCount,   \* PORT_COUNT of config.py
    MaxPorts,       \* bound: port counts are 1 .. MaxPorts
    MaxRuns,        \* bound: runs of setup, each with a session secret of its own
    Absent, Torn, Legacy, Nobody

AllLogins == Logins \cup {Placeholder, DefaultLogin}
Oddities == {Absent, Torn, Legacy, Nobody}
Counts == 1 .. MaxPorts
Settings == [login : AllLogins, secret : 0 .. MaxRuns, count : Counts]

ASSUME InstallAssumption ==
    /\ MaxPorts \in Nat
    /\ DefaultCount \in 1 .. MaxPorts
    /\ MaxRuns \in Nat
    /\ Placeholder \notin Logins
    /\ \A odd \in Oddities : odd \notin AllLogins \cup Settings /\ odd \notin Int
    /\ Absent # Torn /\ Torn # Legacy /\ Legacy # Absent

VARIABLES
    auth,       \* data/auth.json: a login, Legacy, Torn or Absent
    backups,    \* auth.json.bak, .bak1, ...
    env,        \* polista.env: settings, Torn or Absent
    portMap,    \* data/port_map.json: a count, Torn or Absent
    saved,      \* data/mappings.json: a highest port, Torn or Absent
    step,       \* where the wizard is; "none" when it does not run
    answers,    \* what it was answered
    runs,       \* how often it was started
    app,        \* the application: its state and the settings it started with
    cookie,     \* the session a browser holds, Nobody if none
    report,     \* what the last run of setup told at its end, Nobody if it did not
    alone,      \* history: no start came between its first question and its end
    cut,        \* history: a start died writing credentials since
    made        \* history: the credentials that were ever complete

files == <<auth, backups, env, portMap, saved>>
wizard == <<step, answers, runs, report>>
vars == <<files, wizard, app, cookie, alone, cut, made>>

(* polista.env is one write: cut short, it is empty, and config.py         *)
(* supplies what is missing.                                               *)
EmptyEnv == [login |-> DefaultLogin, secret |-> 0, count |-> DefaultCount]
AsItIs(file) == file \* mutant
Sourced(file) == IF file = Torn THEN EmptyEnv ELSE file

Off == [state |-> "off", set |-> EmptyEnv]
NoAnswers == [count |-> 1, action |-> "keep", login |-> Placeholder,
              told |-> Placeholder, over |-> FALSE]

Init ==
    /\ auth \in {Absent, Legacy}
    /\ backups = <<>>
    /\ env = Absent
    /\ portMap = Absent
    /\ saved \in (IF auth = Legacy THEN 0 .. MaxPorts ELSE {Absent})
    /\ step = "none"
    /\ answers = NoAnswers
    /\ runs = 0
    /\ app = Off
    /\ cookie = Nobody
    /\ report = Nobody
    /\ alone = FALSE
    /\ cut = FALSE
    /\ made = {auth} \ {Absent}

-----------------------------------------------------------------------------
(* The wizard's questions: collect_answers and plan_auth.                  *)
Begin(count) ==
    /\ step = "none"
    /\ runs < MaxRuns
    /\ runs' = runs + 1
    /\ answers' = [NoAnswers EXCEPT !.count = count]
    /\ step' = "plan"
    /\ report' = Nobody
    /\ alone' = (app.state \notin {"boot", "create"})
    /\ cut' = FALSE
    /\ UNCHANGED <<files, app, cookie, made>>

(* A file that is there but no scrypt login has to be replaced; a login is *)
(* kept or replaced as the operator wants.                                 *)
KeepUnreadable == IF auth = Absent THEN {"create"} ELSE {"keep", "replace"} \* mutant
Actions ==
    IF auth = Absent THEN {"create"}
    ELSE IF auth \in AllLogins THEN {"keep", "replace"} ELSE {"replace"}

PlanAuth ==
    /\ step = "plan"
    /\ \E action \in Actions, login \in Logins :
          answers' = [answers EXCEPT
              !.action = action,
              !.login = IF action = "keep" THEN Placeholder ELSE login,
              !.told = IF action = "keep" THEN auth ELSE login]
    /\ step' = "map"
    /\ UNCHANGED <<files, runs, report, app, cookie, alone, cut, made>>

-----------------------------------------------------------------------------
(* apply, in its order. The operator may refuse to have a port map that    *)
(* differs overwritten.                                                    *)
PortMapOpen ==
    /\ step = "map"
    /\ \/ /\ portMap' = Torn
          /\ step' = "mapped"
          /\ answers' = [answers EXCEPT !.over = TRUE]
       \/ /\ portMap \notin {Absent, answers.count}
          /\ step' = "state"
          /\ UNCHANGED <<portMap, answers>>
    /\ UNCHANGED <<auth, backups, env, saved, runs, report, app, cookie, alone, cut, made>>

PortMapWrite ==
    /\ step = "mapped"
    /\ portMap' = answers.count
    /\ step' = "state"
    /\ UNCHANGED <<auth, backups, env, saved, answers, runs, report, app, cookie, alone, cut, made>>

StateCheck ==
    /\ step = "state"
    /\ step' = IF saved = Absent THEN "empty" ELSE "backup"
    /\ UNCHANGED <<files, answers, runs, report, app, cookie, alone, cut, made>>

StateOpen ==
    /\ step = "empty"
    /\ saved' = Torn
    /\ step' = "emptied"
    /\ UNCHANGED <<auth, backups, env, portMap, answers, runs, report, app, cookie, alone, cut, made>>

(* If the application saved meanwhile, its file took the place of the one  *)
(* that setup has open.                                                    *)
StateWrite ==
    /\ step = "emptied"
    /\ saved' = IF saved = Torn THEN 0 ELSE saved
    /\ step' = "backup"
    /\ UNCHANGED <<auth, backups, env, portMap, answers, runs, report, app, cookie, alone, cut, made>>

(* The first name that is not taken: an earlier backup stays.              *)
Clobbering == <<auth>> \* mutant
BackedUp == Append(backups, auth)

LeftThere == auth \* mutant
Moved == Absent

Backup ==
    /\ step = "backup"
    /\ step' = "env"
    /\ \/ /\ answers.action = "replace"
          /\ auth # Absent
          /\ backups' = BackedUp
          /\ auth' = Moved
       \/ /\ answers.action # "replace"
          /\ UNCHANGED <<auth, backups>>
    /\ UNCHANGED <<env, portMap, saved, answers, runs, report, app, cookie, alone, cut, made>>

EnvOpen ==
    /\ step = "env"
    /\ env' = Torn
    /\ step' = "write"
    /\ UNCHANGED <<auth, backups, portMap, saved, answers, runs, report, app, cookie, alone, cut, made>>

SecretKept == [login |-> answers.login, secret |-> 1, count |-> answers.count] \* mutant
CountLeftOut == [login |-> answers.login, secret |-> runs, count |-> DefaultCount] \* mutant
Written == [login |-> answers.login, secret |-> runs, count |-> answers.count]

EnvWrite ==
    /\ step = "write"
    /\ env' = Written
    /\ step' = "report"
    /\ UNCHANGED <<auth, backups, portMap, saved, answers, runs, report, app, cookie, alone, cut, made>>

(* After the virtualenv, which may fail: then nothing is reported. Of a    *)
(* login that was kept, the user name is told.                             *)
Report ==
    /\ step = "report"
    /\ report' = [login |-> answers.told, over |-> answers.over]
    /\ step' = "none"
    /\ UNCHANGED <<files, answers, runs, app, cookie, alone, cut, made>>

(* Ctrl-C, a step that raises, or the machine.                             *)
Abort ==
    /\ step # "none"
    /\ step' = "none"
    /\ UNCHANGED <<files, answers, runs, report, app, cookie, alone, cut, made>>

-----------------------------------------------------------------------------
(* A start: run.sh sources polista.env, ensure_auth_file comes first.      *)
Run ==
    /\ app.state \in {"off", "dead"}
    /\ env # Absent
    /\ app' = [state |-> "boot", set |-> Sourced(env)]
    /\ alone' = (alone /\ step = "none")
    /\ UNCHANGED <<files, wizard, cookie, cut, made>>

Become(state) == app' = [app EXCEPT !.state = state]

(* A file that is no scrypt login ends the start; it is not replaced.      *)
EnsureAuth ==
    /\ app.state = "boot"
    /\ \/ auth = Absent /\ auth' = Torn /\ Become("create")
       \/ auth \in {Torn, Legacy} /\ Become("dead") /\ UNCHANGED auth
       \/ auth \in AllLogins /\ Become("load") /\ UNCHANGED auth
    /\ UNCHANGED <<backups, env, portMap, saved, wizard, cookie, alone, cut, made>>

(* If setup moved the open file meanwhile, what is written is the backup.  *)
CreateAuth ==
    /\ app.state = "create"
    /\ made' = made \cup {app.set.login}
    /\ IF auth = Torn
       THEN auth' = app.set.login /\ UNCHANGED backups
       ELSE backups' = [backups EXCEPT ![Len(backups)] = app.set.login] /\ UNCHANGED auth
    /\ Become("load")
    /\ UNCHANGED <<env, portMap, saved, wizard, cookie, alone, cut>>

(* load_port_map, then reconcile's load_state and _validate_mappings.      *)
Fits == portMap = app.set.count /\ saved # Torn /\ (saved # Absent => saved <= app.set.count)

Load ==
    /\ app.state = "load"
    /\ Become(IF Fits THEN "serving" ELSE "refused")
    /\ UNCHANGED <<files, wizard, cookie, alone, cut, made>>

Answering == app.state \in {"serving", "refused"}

(* The controller saves; refused, it knows of no connections.              *)
Save ==
    /\ Answering
    /\ saved' \in (IF app.state = "serving" THEN 0 .. app.set.count ELSE {0})
    /\ UNCHANGED <<auth, backups, env, portMap, wizard, app, cookie, alone, cut, made>>

(* verify_credentials reads the file each time; the session is signed with *)
(* the secret that the application started with.                           *)
Login ==
    /\ Answering
    /\ auth \in AllLogins
    /\ cookie' = [login |-> auth, secret |-> app.set.secret]
    /\ UNCHANGED <<files, wizard, app, alone, cut, made>>

Accepted == Answering /\ cookie # Nobody /\ cookie.secret = app.set.secret

Logout ==
    /\ Accepted
    /\ cookie' = Nobody
    /\ UNCHANGED <<files, wizard, app, alone, cut, made>>

(* Stopped, or dead.                                                       *)
Stop ==
    /\ app.state # "off"
    /\ app' = Off
    /\ cut' = (cut \/ app.state = "create")
    /\ UNCHANGED <<files, wizard, cookie, alone, made>>

-----------------------------------------------------------------------------
Next ==
    \/ \E count \in Counts : Begin(count)
    \/ PlanAuth \/ PortMapOpen \/ PortMapWrite
    \/ StateCheck \/ StateOpen \/ StateWrite
    \/ Backup \/ EnvOpen \/ EnvWrite \/ Report \/ Abort
    \/ Run \/ EnsureAuth \/ CreateAuth \/ Load
    \/ Save \/ Login \/ Logout \/ Stop

Spec == Init /\ [][Next]_vars

-----------------------------------------------------------------------------
(* Every variable holds a value the code can put there: a start finds      *)
(* settings for everything, in polista.env or by default.                  *)
TypeOK ==
    /\ auth \in AllLogins \cup {Absent, Torn, Legacy}
    /\ backups \in Seq(AllLogins \cup {Torn, Legacy})
    /\ env \in Settings \cup {Absent, Torn}
    /\ portMap \in Counts \cup {Absent, Torn}
    /\ saved \in (0 .. MaxPorts) \cup {Absent, Torn}
    /\ step \in {"none", "plan", "map", "mapped", "state", "empty", "emptied", "backup",
                 "env", "write", "report"}
    /\ answers \in [count : Counts, action : {"create", "keep", "replace"},
                    login : AllLogins, told : AllLogins, over : BOOLEAN]
    /\ runs \in 0 .. MaxRuns
    /\ app \in [state : {"off", "boot", "create", "dead", "load", "serving", "refused"},
                set : Settings]
    /\ cookie \in [login : AllLogins, secret : 0 .. MaxRuns] \cup {Nobody}
    /\ report \in [login : AllLogins, over : BOOLEAN] \cup {Nobody}
    /\ alone \in BOOLEAN
    /\ cut \in BOOLEAN
    /\ made \subseteq AllLogins \cup {Legacy}

-----------------------------------------------------------------------------
(* The application was started with what the last run of setup wrote, and  *)
(* that run told its report with no other start in between.                *)
SetUp == report # Nobody /\ alone /\ app.set = env

(* After setup the login it reports is the one that works, whatever crash, *)
(* older setup or older start left the files as they were.                 *)
ReportedLoginWorks == SetUp /\ Answering => auth = report.login

(* After setup a start does not die of its credentials file, unless a      *)
(* start died while it created that file.                                  *)
StartsAfterSetup == SetUp /\ app.state = "dead" => cut

(* After setup a start refuses to serve only for the saved state: because  *)
(* it cannot be read or names a port beyond the new count. This is so      *)
(* unless the operator had the old port map kept.                          *)
ServesAfterSetup ==
    [][SetUp /\ report.over /\ app.state = "load" /\ app'.state = "refused" =>
          saved \notin (0 .. app.set.count) \cup {Absent}]_vars

(* No credentials that were ever complete are lost: they are in use or in  *)
(* a backup, how often setup runs or dies.                                 *)
NothingLost == \A old \in made : auth = old \/ \E i \in DOMAIN backups : backups[i] = old

(* After setup no session is accepted but of the login it reports: those   *)
(* of a login it replaced are over.                                        *)
OldSessionsEnd == SetUp /\ Accepted => cookie.login = report.login

=============================================================================
