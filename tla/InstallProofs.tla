--------------------------- MODULE InstallProofs ---------------------------
(***************************************************************************)
(* Install's properties for any logins, any port counts and any number of  *)
(* runs of setup.                                                          *)
(***************************************************************************)
EXTENDS Install, TLAPS

-----------------------------------------------------------------------------
(* What is inductive. Secrets are numbered by the runs of setup.           *)
Secrets ==
    /\ env \in Settings => env.secret <= runs
    /\ app.set.secret <= runs
    /\ cookie # Nobody => cookie.secret <= runs

(* What a start has opened and not written yet is in its place, or is the  *)
(* last backup.                                                            *)
Creating ==
    app.state = "create" =>
        \/ auth = Torn
        \/ auth = Absent /\ Len(backups) > 0 /\ backups[Len(backups)] = Torn

(* What was planned for the credentials is so until setup ends, if no      *)
(* start is in between.                                                    *)
Before == {"map", "mapped", "state", "empty", "emptied", "backup"}
After == {"env", "write", "report"}
Planned ==
    /\ step \in Before /\ answers.action = "create" => auth = Absent
    /\ step \in After /\ answers.action # "keep" => auth = Absent
    /\ step \in Before \cup After =>
          answers.told = IF answers.action = "keep" THEN auth ELSE answers.login

Undisturbed ==
    /\ app.state \notin {"boot", "create"}
    /\ app.set.secret < runs
    /\ cookie # Nobody => cookie.secret < runs
    /\ Planned

(* What setup has written when it gets to a step.                          *)
SoFar ==
    /\ step \in {"plan", "map"} => ~answers.over
    /\ step \notin {"none", "plan", "map", "mapped"} /\ answers.over =>
          portMap = answers.count
    /\ step = "report" => env = Written

Under ==
    step # "none" => report = Nobody /\ runs > 0 /\ SoFar /\ (alone => Undisturbed)

(* After setup: the credentials are the ones reported, or not made yet and *)
(* will be; who started the application since has them.                    *)
Credentials ==
    \/ auth = report.login
    \/ /\ env.login = report.login
       /\ \/ auth = Absent
          \/ auth = Torn /\ (app.state = "create" \/ cut)

Started ==
    IF app.set = env
    THEN /\ app.state \in {"load", "serving", "refused"} => auth = report.login
         /\ app.state = "dead" => cut
         /\ app.state = "create" => auth = Torn
    ELSE app.set.secret < runs /\ app.state \notin {"boot", "create"}

Done ==
    report # Nobody =>
        /\ step = "none"
        /\ runs > 0
        /\ alone =>
              /\ env \in Settings /\ env.secret = runs
              /\ report.over => portMap = env.count
              /\ Credentials
              /\ Started
              /\ cookie # Nobody /\ cookie.secret = runs => cookie.login = report.login

IInv == TypeOK /\ Secrets /\ Creating /\ NothingLost /\ Under /\ Done

-----------------------------------------------------------------------------
(* Constants.                                                              *)
LEMMA Constants ==
    /\ MaxRuns \in Nat /\ MaxPorts \in Nat
    /\ EmptyEnv \in Settings /\ EmptyEnv.secret = 0
    /\ Placeholder \in AllLogins /\ Logins \subseteq AllLogins
    /\ \A odd \in {Absent, Torn, Legacy} :
          odd \notin AllLogins /\ odd \notin Settings /\ odd \notin Int
    /\ Absent # Torn /\ Torn # Legacy /\ Legacy # Absent
  BY InstallAssumption DEF EmptyEnv, Settings, Counts, AllLogins, Oddities

LEMMA Initially ==
    ASSUME Init
    PROVE  IInv
  <1>1. TypeOK
    <2>1. Off \in [state : {"off", "boot", "create", "dead", "load", "serving", "refused"},
                   set : Settings]
      BY Constants DEF Off
    <2>2. NoAnswers \in [count : Counts, action : {"create", "keep", "replace"},
                         login : AllLogins, told : AllLogins, over : BOOLEAN]
      BY Constants, InstallAssumption DEF NoAnswers, Counts
    <2>3. saved \in (0 .. MaxPorts) \cup {Absent, Torn}
      BY DEF Init
    <2>4. made \subseteq AllLogins \cup {Legacy}
      BY DEF Init
    <2>5. backups \in Seq(AllLogins \cup {Torn, Legacy})
      BY DEF Init
    <2> HIDE DEF Off, NoAnswers
    <2>6. runs \in 0 .. MaxRuns
      BY Constants DEF Init
    <2>8. alone \in BOOLEAN /\ cut \in BOOLEAN
      BY Zenon DEF Init
    <2>7. /\ auth \in AllLogins \cup {Absent, Torn, Legacy}
          /\ cookie = Nobody /\ report = Nobody
          /\ env \in Settings \cup {Absent, Torn} /\ portMap \in Counts \cup {Absent, Torn}
          /\ step = "none" /\ app = Off /\ answers = NoAnswers
      BY DEF Init
    <2> QED
      BY <2>1, <2>2, <2>3, <2>4, <2>5, <2>6, <2>7, <2>8 DEF TypeOK
  <1> QED
    BY <1>1, Constants
       DEF Init, IInv, Secrets, Creating, NothingLost, Under, Done, Off

-----------------------------------------------------------------------------
(* The steps.                                                              *)
LEMMA BeginStep ==
    ASSUME IInv, NEW count \in Counts, Begin(count)
    PROVE  IInv'
  <1> USE Constants DEF IInv, Begin, NoAnswers, files, wizard
  <1>1. TypeOK'
    <2>1. answers' \in [count : Counts, action : {"create", "keep", "replace"},
                        login : AllLogins, told : AllLogins, over : BOOLEAN]
      OBVIOUS
    <2>2. alone' \in BOOLEAN
      BY Zenon
    <2>3. runs' \in 0 .. MaxRuns
      BY DEF TypeOK
    <2> HIDE DEF NoAnswers
    <2> QED
      BY <2>1, <2>2, <2>3 DEF TypeOK
  <1>2. Secrets'
    BY DEF Secrets, TypeOK, Settings
  <1>3. Creating'
    BY DEF Creating
  <1>4. NothingLost'
    BY DEF NothingLost
  <1>5. Under'
    <2>1. step' = "plan" /\ answers'.over = FALSE /\ runs' > 0 /\ runs' = runs + 1
      BY DEF TypeOK
    <2>2. SoFar'
      BY <2>1 DEF SoFar
    <2>3. Planned'
      BY <2>1 DEF Planned, Before, After
    <2>4. alone' => app.state \notin {"boot", "create"}
      BY Zenon
    <2>5. app.set.secret < runs' /\ (cookie # Nobody => cookie.secret < runs')
      BY <2>1 DEF TypeOK, Secrets, Settings
    <2>6. alone' => Undisturbed'
      BY <2>3, <2>4, <2>5 DEF Undisturbed
    <2> QED
      BY <2>1, <2>2, <2>6 DEF Under
  <1>6. Done'
    BY DEF Done
  <1> QED
    BY <1>1, <1>2, <1>3, <1>4, <1>5, <1>6

LEMMA PlanAuthStep ==
    ASSUME IInv, PlanAuth
    PROVE  IInv'
  <1> USE Constants DEF IInv, PlanAuth, Actions, files, wizard
  <1>1. TypeOK'
    <2>1. PICK action \in Actions, login \in Logins :
             answers' = [answers EXCEPT
                 !.action = action,
                 !.login = IF action = "keep" THEN Placeholder ELSE login,
                 !.told = IF action = "keep" THEN auth ELSE login]
      OBVIOUS
    <2>2. action \in {"create", "keep", "replace"} /\ (action = "keep" => auth \in AllLogins)
      OBVIOUS
    <2>3. answers' \in [count : Counts, action : {"create", "keep", "replace"},
                        login : AllLogins, told : AllLogins, over : BOOLEAN]
      BY <2>1, <2>2 DEF TypeOK
    <2> QED
      BY <2>3 DEF TypeOK
  <1>2. Secrets'
    BY DEF Secrets
  <1>3. Creating'
    BY DEF Creating
  <1>4. NothingLost'
    BY DEF NothingLost
  <1>5. Under'
    BY DEF Under, SoFar, Undisturbed, Planned, Before, After
  <1>6. Done'
    BY DEF Done
  <1> QED
    BY <1>1, <1>2, <1>3, <1>4, <1>5, <1>6

LEMMA PortMapOpenStep ==
    ASSUME IInv, PortMapOpen
    PROVE  IInv'
  <1> USE Constants DEF IInv, PortMapOpen, files, wizard
  <1>1. TypeOK'
    <2>1. answers' \in [count : Counts, action : {"create", "keep", "replace"},
                        login : AllLogins, told : AllLogins, over : BOOLEAN]
      BY DEF TypeOK
    <2> QED
      BY <2>1 DEF TypeOK
  <1>2. Secrets'
    BY DEF Secrets
  <1>3. Creating'
    BY DEF Creating
  <1>4. NothingLost'
    BY DEF NothingLost
  <1>5. Under'
    BY DEF Under, SoFar, Undisturbed, Planned, Before, After, TypeOK
  <1>6. Done'
    BY DEF Done
  <1> QED
    BY <1>1, <1>2, <1>3, <1>4, <1>5, <1>6

LEMMA PortMapWriteStep ==
    ASSUME IInv, PortMapWrite
    PROVE  IInv'
  <1> USE Constants DEF IInv, PortMapWrite, files, wizard
  <1>1. TypeOK'
    BY DEF TypeOK, Counts, Settings
  <1>2. Secrets'
    BY DEF Secrets
  <1>3. Creating'
    BY DEF Creating
  <1>4. NothingLost'
    BY DEF NothingLost
  <1>5. Under'
    BY DEF Under, SoFar, Undisturbed, Planned, Before, After
  <1>6. Done'
    BY DEF Done
  <1> QED
    BY <1>1, <1>2, <1>3, <1>4, <1>5, <1>6

LEMMA StateCheckStep ==
    ASSUME IInv, StateCheck
    PROVE  IInv'
  <1> USE Constants DEF IInv, StateCheck, files, wizard
  <1>1. TypeOK'
    BY DEF TypeOK, Counts, Settings
  <1>2. Secrets'
    BY DEF Secrets
  <1>3. Creating'
    BY DEF Creating
  <1>4. NothingLost'
    BY DEF NothingLost
  <1>5. Under'
    BY DEF Under, SoFar, Undisturbed, Planned, Before, After
  <1>6. Done'
    BY DEF Done
  <1> QED
    BY <1>1, <1>2, <1>3, <1>4, <1>5, <1>6

LEMMA StateOpenStep ==
    ASSUME IInv, StateOpen
    PROVE  IInv'
  <1> USE Constants DEF IInv, StateOpen, files, wizard
  <1>1. TypeOK'
    BY DEF TypeOK, Counts, Settings
  <1>2. Secrets'
    BY DEF Secrets
  <1>3. Creating'
    BY DEF Creating
  <1>4. NothingLost'
    BY DEF NothingLost
  <1>5. Under'
    BY DEF Under, SoFar, Undisturbed, Planned, Before, After
  <1>6. Done'
    BY DEF Done
  <1> QED
    BY <1>1, <1>2, <1>3, <1>4, <1>5, <1>6

LEMMA StateWriteStep ==
    ASSUME IInv, StateWrite
    PROVE  IInv'
  <1> USE Constants DEF IInv, StateWrite, files, wizard
  <1>1. TypeOK'
    BY DEF TypeOK, Counts, Settings
  <1>2. Secrets'
    BY DEF Secrets
  <1>3. Creating'
    BY DEF Creating
  <1>4. NothingLost'
    BY DEF NothingLost
  <1>5. Under'
    BY DEF Under, SoFar, Undisturbed, Planned, Before, After
  <1>6. Done'
    BY DEF Done
  <1> QED
    BY <1>1, <1>2, <1>3, <1>4, <1>5, <1>6

LEMMA BackupStep ==
    ASSUME IInv, Backup
    PROVE  IInv'
  <1> USE Constants DEF IInv, Backup, BackedUp, Moved, files, wizard
  <1>1. TypeOK'
    <2>1. auth # Absent => Append(backups, auth) \in Seq(AllLogins \cup {Torn, Legacy})
      BY DEF TypeOK
    <2>2. backups' \in Seq(AllLogins \cup {Torn, Legacy})
      BY <2>1 DEF TypeOK
    <2> QED
      BY <2>2 DEF TypeOK
  <1>2. Secrets'
    BY DEF Secrets
  <1>3. Creating'
    BY DEF Creating
  <1>4. NothingLost'
    BY DEF NothingLost
  <1>5. Under'
    BY DEF Under, SoFar, Undisturbed, Planned, Before, After, TypeOK
  <1>6. Done'
    BY DEF Done
  <1> QED
    BY <1>1, <1>2, <1>3, <1>4, <1>5, <1>6

LEMMA EnvOpenStep ==
    ASSUME IInv, EnvOpen
    PROVE  IInv'
  <1> USE Constants DEF IInv, EnvOpen, files, wizard
  <1>1. TypeOK'
    BY DEF TypeOK, Counts, Settings
  <1>2. Secrets'
    BY DEF Secrets
  <1>3. Creating'
    BY DEF Creating
  <1>4. NothingLost'
    BY DEF NothingLost
  <1>5. Under'
    BY DEF Under, SoFar, Undisturbed, Planned, Before, After
  <1>6. Done'
    BY DEF Done
  <1> QED
    BY <1>1, <1>2, <1>3, <1>4, <1>5, <1>6

LEMMA EnvWriteStep ==
    ASSUME IInv, EnvWrite
    PROVE  IInv'
  <1> USE Constants DEF IInv, EnvWrite, Written, files, wizard
  <1>1. TypeOK'
    BY DEF TypeOK, Counts, Settings
  <1>2. Secrets'
    BY DEF Secrets, TypeOK
  <1>3. Creating'
    BY DEF Creating
  <1>4. NothingLost'
    BY DEF NothingLost
  <1>5. Under'
    BY DEF Under, SoFar, Undisturbed, Planned, Before, After
  <1>6. Done'
    BY DEF Done
  <1> QED
    BY <1>1, <1>2, <1>3, <1>4, <1>5, <1>6

LEMMA ReportStep ==
    ASSUME IInv, Report
    PROVE  IInv'
  <1> USE Constants DEF IInv, Report, files, wizard
  <1>1. TypeOK'
    BY DEF TypeOK, Counts, Settings
  <1>2. Secrets'
    BY DEF Secrets
  <1>3. Creating'
    BY DEF Creating
  <1>4. NothingLost'
    BY DEF NothingLost
  <1>5. Under'
    BY DEF Under
  <1>6. Done'
    BY DEF Done, Credentials, Started, TypeOK, Settings, Under, SoFar, Undisturbed,
           Planned, Before, After, Written
  <1> QED
    BY <1>1, <1>2, <1>3, <1>4, <1>5, <1>6

LEMMA AbortStep ==
    ASSUME IInv, Abort
    PROVE  IInv'
  <1> USE Constants DEF IInv, Abort, files, wizard
  <1>1. TypeOK'
    BY DEF TypeOK, Counts, Settings
  <1>2. Secrets'
    BY DEF Secrets
  <1>3. Creating'
    BY DEF Creating
  <1>4. NothingLost'
    BY DEF NothingLost
  <1>5. Under'
    BY DEF Under
  <1>6. Done'
    BY DEF Done
  <1> QED
    BY <1>1, <1>2, <1>3, <1>4, <1>5, <1>6

LEMMA RunStep ==
    ASSUME IInv, Run
    PROVE  IInv'
  <1> USE Constants DEF IInv, Run, Sourced, files, wizard
  <1>1. TypeOK'
    BY DEF TypeOK, Counts, Settings
  <1>2. Secrets'
    BY DEF Secrets, TypeOK
  <1>3. Creating'
    BY DEF Creating
  <1>4. NothingLost'
    BY DEF NothingLost
  <1>5. Under'
    BY DEF Under, SoFar, Undisturbed, Planned, Before, After, TypeOK, Secrets,
           Settings, Written
  <1>6. Done'
    BY DEF Done, Credentials, Started
  <1> QED
    BY <1>1, <1>2, <1>3, <1>4, <1>5, <1>6

LEMMA EnsureAuthStep ==
    ASSUME IInv, EnsureAuth
    PROVE  IInv'
  <1> USE Constants DEF IInv, EnsureAuth, Become, files, wizard
  <1>1. TypeOK'
    BY DEF TypeOK, Counts, Settings
  <1>2. Secrets'
    BY DEF Secrets, TypeOK
  <1>3. Creating'
    BY DEF Creating, TypeOK
  <1>4. NothingLost'
    BY DEF NothingLost, TypeOK
  <1>5. Under'
    BY DEF Under, SoFar, Undisturbed, Planned, Before, After, TypeOK, Secrets,
           Settings, Written
  <1>6. Done'
    BY DEF Done, Credentials, Started, TypeOK
  <1> QED
    BY <1>1, <1>2, <1>3, <1>4, <1>5, <1>6

LEMMA CreateAuthStep ==
    ASSUME IInv, CreateAuth
    PROVE  IInv'
  <1> USE Constants DEF IInv, CreateAuth, Become, files, wizard
  <1>1. TypeOK'
    BY DEF TypeOK, Counts, Settings
  <1>2. Secrets'
    BY DEF Secrets
  <1>3. Creating'
    BY DEF Creating
  <1>4. NothingLost'
    <2>1. Torn \notin made
      BY DEF TypeOK
    <2>2. CASE auth = Torn
      BY <2>1, <2>2 DEF NothingLost
    <2>3. CASE auth # Torn
      <3>1. /\ backups \in Seq(AllLogins \cup {Torn, Legacy}) /\ Len(backups) \in DOMAIN backups
            /\ backups[Len(backups)] = Torn
            /\ backups' = [backups EXCEPT ![Len(backups)] = app.set.login]
        BY <2>3 DEF TypeOK, Creating
      <3>2. \A i \in DOMAIN backups : backups[i] # Torn => backups'[i] = backups[i]
        BY <3>1
      <3>3. DOMAIN backups' = DOMAIN backups /\ backups'[Len(backups)] = app.set.login
        BY <3>1
      <3> QED
        BY <2>1, <2>3, <3>1, <3>2, <3>3 DEF NothingLost
    <2> QED
      BY <2>2, <2>3
  <1>5. Under'
    BY DEF Under, SoFar, Undisturbed, Planned, Before, After, TypeOK, Secrets,
           Settings, Written
  <1>6. Done'
    BY DEF Done, Credentials, Started, TypeOK
  <1> QED
    BY <1>1, <1>2, <1>3, <1>4, <1>5, <1>6

LEMMA LoadStep ==
    ASSUME IInv, Load
    PROVE  IInv'
  <1> USE Constants DEF IInv, Load, Become, files, wizard
  <1>1. TypeOK'
    BY DEF TypeOK, Counts, Settings
  <1>2. Secrets'
    BY DEF Secrets
  <1>3. Creating'
    BY DEF Creating
  <1>4. NothingLost'
    BY DEF NothingLost
  <1>5. Under'
    BY DEF Under, SoFar, Undisturbed, Planned, Before, After, TypeOK, Secrets,
           Settings, Written
  <1>6. Done'
    BY DEF Done, Credentials, Started
  <1> QED
    BY <1>1, <1>2, <1>3, <1>4, <1>5, <1>6

LEMMA SaveStep ==
    ASSUME IInv, Save
    PROVE  IInv'
  <1> USE Constants DEF IInv, Save, files, wizard
  <1>1. TypeOK'
    BY DEF TypeOK, Counts, Settings
  <1>2. Secrets'
    BY DEF Secrets
  <1>3. Creating'
    BY DEF Creating
  <1>4. NothingLost'
    BY DEF NothingLost
  <1>5. Under'
    BY DEF Under, SoFar, Undisturbed, Planned, Before, After, TypeOK, Secrets,
           Settings, Written
  <1>6. Done'
    BY DEF Done, Credentials, Started
  <1> QED
    BY <1>1, <1>2, <1>3, <1>4, <1>5, <1>6

LEMMA LoginStep ==
    ASSUME IInv, Login
    PROVE  IInv'
  <1> USE Constants DEF IInv, Login, files, wizard
  <1>1. TypeOK'
    BY DEF TypeOK, Counts, Settings
  <1>2. Secrets'
    BY DEF Secrets
  <1>3. Creating'
    BY DEF Creating
  <1>4. NothingLost'
    BY DEF NothingLost
  <1>5. Under'
    BY DEF Under, SoFar, Undisturbed, Planned, Before, After, TypeOK, Secrets,
           Settings, Written
  <1>6. Done'
    BY DEF Done, Credentials, Started
  <1> QED
    BY <1>1, <1>2, <1>3, <1>4, <1>5, <1>6

LEMMA LogoutStep ==
    ASSUME IInv, Logout
    PROVE  IInv'
  <1> USE Constants DEF IInv, Logout, files, wizard
  <1>1. TypeOK'
    BY DEF TypeOK, Counts, Settings
  <1>2. Secrets'
    BY DEF Secrets
  <1>3. Creating'
    BY DEF Creating
  <1>4. NothingLost'
    BY DEF NothingLost
  <1>5. Under'
    BY DEF Under, SoFar, Undisturbed, Planned, Before, After, TypeOK, Secrets,
           Settings, Written
  <1>6. Done'
    BY DEF Done, Credentials, Started
  <1> QED
    BY <1>1, <1>2, <1>3, <1>4, <1>5, <1>6

LEMMA StopStep ==
    ASSUME IInv, Stop
    PROVE  IInv'
  <1> USE Constants DEF IInv, Stop, Off, files, wizard
  <1>1. TypeOK'
    BY DEF TypeOK, Counts, Settings
  <1>2. Secrets'
    BY DEF Secrets, TypeOK
  <1>3. Creating'
    BY DEF Creating
  <1>4. NothingLost'
    BY DEF NothingLost
  <1>5. Under'
    BY DEF Under, SoFar, Undisturbed, Planned, Before, After, TypeOK, Secrets,
           Settings, Written
  <1>6. Done'
    BY DEF Done, Credentials, Started
  <1> QED
    BY <1>1, <1>2, <1>3, <1>4, <1>5, <1>6

LEMMA Step ==
    ASSUME IInv, [Next]_vars
    PROVE  IInv'
  <1>1. ASSUME UNCHANGED vars
        PROVE  IInv'
    BY <1>1
       DEF vars, files, wizard, IInv, TypeOK, Secrets, Creating, NothingLost,
           Under,
                SoFar, Undisturbed, Planned, Written, Done, Credentials, Started
  <1> QED
    BY <1>1, BeginStep, PlanAuthStep, PortMapOpenStep, PortMapWriteStep, StateCheckStep,
       StateOpenStep, StateWriteStep, BackupStep, EnvOpenStep, EnvWriteStep, ReportStep,
       AbortStep, RunStep, EnsureAuthStep, CreateAuthStep, LoadStep, SaveStep, LoginStep,
       LogoutStep, StopStep DEF Next

LEMMA Invariance == Spec => []IInv
  BY Initially, Step, PTL DEF Spec

-----------------------------------------------------------------------------
(* Typing: a start finds a value for each of its settings.                 *)
THEOREM Typing == Spec => []TypeOK
  <1>1. IInv => TypeOK
    BY DEF IInv
  <1> QED
    BY <1>1, Invariance, PTL

(* Credentials that were ever complete are in use or in a backup, for any  *)
(* number of runs of setup, deaths and starts (setup.py:224, auth.py:89).  *)
THEOREM NothingIsLost == Spec => []NothingLost
  <1>1. IInv => NothingLost
    BY DEF IInv
  <1> QED
    BY <1>1, Invariance, PTL

(* The login that setup reports is the one that works afterwards, for any  *)
(* number of runs and whatever they were cut short in (setup.py:446-450).  *)
THEOREM ReportedLoginsWork == Spec => []ReportedLoginWorks
  <1>1. IInv => ReportedLoginWorks
    BY DEF IInv, Done, Started, ReportedLoginWorks, SetUp, Answering, TypeOK
  <1> QED
    BY <1>1, Invariance, PTL

(* After setup a start dies of its credentials file only if one died while *)
(* it created that file (auth.py:69-90).                                   *)
THEOREM StartsAreSafe == Spec => []StartsAfterSetup
  <1>1. IInv => StartsAfterSetup
    BY DEF IInv, Done, Started, StartsAfterSetup, SetUp
  <1> QED
    BY <1>1, Invariance, PTL

(* After setup the sessions of a login it replaced are over, because its   *)
(* new session secret is no earlier one (setup.py:398).                    *)
THEOREM SessionsEnd == Spec => []OldSessionsEnd
  <1>1. IInv => OldSessionsEnd
    BY DEF IInv, Done, OldSessionsEnd, SetUp, Accepted
  <1> QED
    BY <1>1, Invariance, PTL

(* After setup a start is refused only for the saved state (main.py:67-78),*)
(* for any port counts.                                                    *)
THEOREM SetUpServes == Spec => ServesAfterSetup
  <1>1. ASSUME IInv, [Next]_vars, SetUp, report.over,
               app.state = "load", app'.state = "refused"
        PROVE  saved \notin (0 .. app.set.count) \cup {Absent}
    <2>1. app.set.count \in Nat /\ portMap = app.set.count
      BY <1>1, Constants DEF IInv, TypeOK, Settings, Counts, Done, SetUp
    <2>2. app.state # "refused" /\ app \in [state : {"load"}, set : Settings]
      BY <1>1 DEF IInv, TypeOK
    <2>3. app' # app
      BY <1>1, <2>2
    <2>4. Load
      <3>1. ASSUME \/ \E count \in Counts : Begin(count)
                   \/ PlanAuth \/ PortMapOpen \/ PortMapWrite
                   \/ StateCheck \/ StateOpen \/ StateWrite
                   \/ Backup \/ EnvOpen \/ EnvWrite \/ Report \/ Abort
            PROVE  FALSE
        BY <2>3, <3>1
           DEF Begin, PlanAuth, PortMapOpen, PortMapWrite, StateCheck, StateOpen,
                          StateWrite, Backup, EnvOpen, EnvWrite, Report, Abort
      <3>2. ASSUME Run \/ EnsureAuth \/ CreateAuth
            PROVE  FALSE
        BY <1>1, <3>2 DEF Run, EnsureAuth, CreateAuth
      <3>3. ASSUME Save \/ Login \/ Logout \/ Stop \/ UNCHANGED vars
            PROVE  FALSE
        BY <1>1, <2>3, <3>3 DEF Save, Login, Logout, Stop, Off, vars
      <3> QED
        BY <1>1, <3>1, <3>2, <3>3 DEF Next
    <2>5. ~Fits
      BY <1>1, <2>2, <2>4 DEF Load, Become
    <2> QED
      BY <2>1, <2>5, Constants DEF Fits
  <1>2. IInv /\ [Next]_vars =>
           (SetUp /\ report.over /\ app.state = "load" /\ app'.state = "refused" =>
               saved \notin (0 .. app.set.count) \cup {Absent})
    BY <1>1
  <1> QED
    BY <1>2, Invariance, PTL DEF Spec, ServesAfterSetup

=============================================================================
