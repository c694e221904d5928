------------------------------- MODULE Workspace -------------------------------
(***************************************************************************)
(* The working directories of AnsibleRuns, and what of them is one for the  *)
(* whole process: the variable GIT_CRED_DIR and the roles' paths.  A        *)
(* reconcile's Connect writes file after file from the AnsibleRun and the   *)
(* ProviderConfig it has read, installs what they require and lets Init     *)
(* build a runner; any of that may fail half-way, and what an earlier       *)
(* reconcile left is still there.  What the reconcile then does with the    *)
(* runner is in module ExternalClient; here it matters which files a run    *)
(* finds.  Collections, ansible's own artifacts and permissions are left out.*)
(***************************************************************************)
EXTENDS Integers, Sequences, FiniteSets

CONSTANTS
    Runs,             \* AnsibleRuns; the UID of each names its directory
    Specs,            \* the values users give spec.forProvider
    Configs,          \* the values users give a ProviderConfig's spec
    Contents,         \* contents of files and variables
    RoleNames, Versions, Paths,
    RolesPath,        \* the --ansible-roles-path flag, or None
    EnvRolesPath,     \* ANSIBLE_ROLE_PATH in the process's environment, or None
    DefaultRolesPath, \* the first of Ansible's default directories that exists
    MaxReconciles,    \* --max-reconcile-rate
    None, Torn,       \* no value, no file; a file whose write failed
    MaxEdits          \* bound: how often users edit or delete

Role == [name : RoleNames, version : Versions]

(* The fields of AnsibleRunParameters; inventories are one content together.*)
Parameters ==
    [hosts    : Contents \cup {None},
     playbook : Contents \cup {None},
     roles    : Seq(Role),
     vars     : Contents \cup {None}]

(* git: the credential whose file is .git-credentials; secret: another one. *)
(* requirements: the roles it lists.  rolePath: the Var ANSIBLE_ROLE_PATH.  *)
ProviderConfigSpec ==
    [git          : Contents \cup {None},
     secret       : Contents \cup {None},
     requirements : Seq(Role) \cup {None},
     rolePath     : Paths \cup {None}]

ASSUME WorkspaceAssumption ==
    /\ Specs \subseteq Parameters /\ Configs \subseteq ProviderConfigSpec
    /\ None \notin Contents /\ Torn \notin Contents /\ None # Torn
    /\ None \notin Runs /\ None \notin Paths /\ None \notin Versions
    /\ None \notin {"present", "absent"}
    /\ None \notin Specs /\ None \notin Configs /\ None \notin Seq(Role)
    /\ RolesPath \in Paths \cup {None} /\ EnvRolesPath \in Paths \cup {None}
    /\ DefaultRolesPath \in Paths
    /\ IsFiniteSet(Runs) /\ MaxReconciles \in Nat /\ MaxEdits \in Nat

VARIABLES
    spec,       \* per AnsibleRun, its parameters in the API server, None when deleted
    config,     \* per AnsibleRun, the spec of the ProviderConfig it refers to
    desired,    \* the parameters its reconcile has read
    provider,   \* the ProviderConfig its reconcile has read
    step,       \* what its reconcile does next
    asked,      \* the state its last WriteExtraVar was for
    dirs,       \* the AnsibleRuns that have a working directory
    disk,       \* the files of each working directory
    gitCredDir, \* the AnsibleRun whose directory GIT_CRED_DIR names
    installed,  \* the version of each role in each path
    edits       \* how often users have edited

users == <<spec, config, edits>>
copies == <<desired, provider>>
files == <<dirs, disk>>
shared == <<gitCredDir, installed>>
vars == <<users, copies, step, asked, files, shared>>

Steps == {"idle", "inventory", "git", "content", "credentials", "requirements",
          "collections", "roles", "init", "ready", "running"}

Files == {"hosts", "git", "playbook", "credentials", "requirements", "extravars"}

States == {None, "present", "absent"}

FileContents ==
    Contents \cup {None, Torn}
      \cup [config : Seq(Role) \cup {None}, spec : Seq(Role)]
      \cup [vars : Contents \cup {None}, state : States]

NoFiles == [file \in Files |-> None]

Init ==
    /\ spec \in [Runs -> Specs] /\ config \in [Runs -> Configs]
    /\ desired = [o \in Runs |-> None] /\ provider = [o \in Runs |-> None]
    /\ step = [o \in Runs |-> "idle"] /\ asked = [o \in Runs |-> None]
    /\ dirs = {} /\ disk = [o \in Runs |-> NoFiles]
    /\ gitCredDir = None
    /\ installed = [path \in Paths |-> [name \in RoleNames |-> None]]
    /\ edits = 0

-------------------------------------------------------------------------------
(* The lookup order of the roles' path.                                     *)
selectRolePath(behaviorVars) ==
    CASE behaviorVars # None -> behaviorVars
      [] RolesPath # None    -> RolesPath
      [] EnvRolesPath # None -> EnvRolesPath
      [] OTHER               -> DefaultRolesPath

RolePathOf(o) == selectRolePath(provider[o].rolePath)

Goto(o, next) == step' = [step EXCEPT ![o] = next]

(* WriteFile replaces a file's content.                                     *)
Write(o, file, content) == disk' = [disk EXCEPT ![o][file] = content]

(* The step writes this file, because there is something to write.  Roles   *)
(* keep a playbook from being written, and Init refuses a spec with both.   *)
Due(o, file) ==
    CASE file = "hosts"        -> step[o] = "inventory" /\ desired[o].hosts # None
      [] file = "git"          -> step[o] = "git" /\ provider[o].git # None
      [] file = "playbook"     -> step[o] = "content" /\ desired[o].roles = <<>>
                                                     /\ desired[o].playbook # None
      [] file = "credentials"  -> step[o] = "credentials" /\ provider[o].secret # None
      [] file = "requirements" -> step[o] = "requirements"
                                  /\ (provider[o].requirements # None \/ desired[o].roles # <<>>)
      [] file = "extravars"    -> \/ /\ step[o] = "init"
                                     /\ desired[o].playbook = None <=> desired[o].roles # <<>>
                                  \/ step[o] = "ready" /\ asked[o] # "absent"

WriteIfDue(o, file, content) ==
    IF Due(o, file) THEN Write(o, file, content) ELSE UNCHANGED disk

-------------------------------------------------------------------------------
(* Connect.                                                                 *)

(* Mutant: the directory is not made.                                       *)
NoMkdir(o) == dirs

MkdirAll(o) == dirs \cup {o}

(* The work queue hands out one reconcile per AnsibleRun.                   *)
Connect(o) ==
    /\ spec[o] # None
    /\ step[o] = "idle"
    /\ Cardinality({q \in Runs : step[q] # "idle"}) < MaxReconciles
    /\ desired' = [desired EXCEPT ![o] = spec[o]]
    /\ provider' = [provider EXCEPT ![o] = config[o]]
    /\ dirs' = MkdirAll(o)
    /\ Goto(o, "inventory")
    /\ UNCHANGED <<users, asked, disk, shared>>

WriteInventory(o) ==
    /\ step[o] = "inventory"
    /\ WriteIfDue(o, "hosts", desired[o].hosts)
    /\ Goto(o, "git")
    /\ UNCHANGED <<users, copies, asked, dirs, shared>>

(* Mutant: credentials that an earlier reconcile has written are kept.      *)
GitCredentialsOnce(o) == IF disk[o]["git"] = None THEN provider[o].git ELSE disk[o]["git"]

GitCredentials(o) == provider[o].git

WriteGitCredentials(o) ==
    /\ step[o] = "git"
    /\ WriteIfDue(o, "git", GitCredentials(o))
    /\ gitCredDir' = IF Due(o, "git") THEN o ELSE gitCredDir
    /\ Goto(o, "content")
    /\ UNCHANGED <<users, copies, asked, dirs, installed>>

WritePlaybook(o) ==
    /\ step[o] = "content"
    /\ WriteIfDue(o, "playbook", desired[o].playbook)
    /\ Goto(o, "credentials")
    /\ UNCHANGED <<users, copies, asked, dirs, shared>>

WriteCredentials(o) ==
    /\ step[o] = "credentials"
    /\ WriteIfDue(o, "credentials", provider[o].secret)
    /\ Goto(o, "requirements")
    /\ UNCHANGED <<users, copies, asked, dirs, shared>>

(* The ProviderConfig's requirements and the AnsibleRun's roles, joined.    *)
WriteRequirements(o) ==
    LET required == provider[o].requirements # None
        listed   == desired[o].roles # <<>>
    IN  /\ step[o] = "requirements"
        /\ WriteIfDue(o, "requirements",
                      [config |-> provider[o].requirements, spec |-> desired[o].roles])
        /\ Goto(o, CASE required -> "collections"
                     [] listed /\ ~required -> "roles"
                     [] OTHER    -> "init")
        /\ UNCHANGED <<users, copies, asked, dirs, shared>>

InstallCollections(o) ==
    /\ step[o] = "collections"
    /\ Goto(o, "roles")
    /\ UNCHANGED <<users, copies, asked, files, shared>>

(* Both parts of the joined file may have a key roles; the last one counts. *)
RolesRequired(file) ==
    IF file.spec # <<>> \/ file.config = None THEN file.spec ELSE file.config

(* Without --force ansible-galaxy leaves a role that is installed alone.    *)
GalaxyInstall(path, roles) ==
    [installed EXCEPT ![path] = [name \in RoleNames |->
        IF @[name] = None /\ \E i \in DOMAIN roles : roles[i].name = name
          THEN roles[CHOOSE i \in DOMAIN roles : roles[i].name = name].version
          ELSE @[name]]]

InstallRoles(o) ==
    /\ step[o] = "roles"
    /\ installed' = GalaxyInstall(RolePathOf(o), RolesRequired(disk[o]["requirements"]))
    /\ Goto(o, "init")
    /\ UNCHANGED <<users, copies, asked, files, gitCredDir>>

-------------------------------------------------------------------------------
(* The runner.                                                              *)

(* Mutant: like the hosts file, extravars is written only if there are vars.*)
ExtraVarsIfAny(o) ==
    IF desired[o].vars = None /\ disk[o]["extravars"] \notin {None, Torn}
      THEN disk[o]["extravars"]
      ELSE [vars |-> desired[o].vars, state |-> None]

ExtraVars(o) == [vars |-> desired[o].vars, state |-> None]

(* Init takes a playbook or roles.  That it finds an unsupported run policy *)
(* after the write is Fail of the next step.                                *)
InitRunner(o) ==
    /\ step[o] = "init"
    /\ Due(o, "extravars")
    /\ Write(o, "extravars", ExtraVars(o))
    /\ asked' = [asked EXCEPT ![o] = None]
    /\ Goto(o, "ready")
    /\ UNCHANGED <<users, copies, dirs, shared>>

(* Observe asks for the state present, Delete, which may follow, for absent.*)
WriteExtraVar(o, state) ==
    /\ step[o] = "ready"
    /\ asked[o] = None \/ (asked[o] = "present" /\ state = "absent")
    /\ Write(o, "extravars", [vars |-> disk[o]["extravars"].vars, state |-> state])
    /\ asked' = [asked EXCEPT ![o] = state]
    /\ Goto(o, "running")
    /\ UNCHANGED <<users, copies, dirs, shared>>

(* What ansible-runner is started with: the files of the working directory  *)
(* and, of the roles, the first.                                            *)
cmdFunc(o) ==
    LET role == Head(desired[o].roles).name
    IN  [inventory |-> disk[o]["hosts"],
         extravars |-> disk[o]["extravars"],
         playbook  |-> IF desired[o].roles = <<>> THEN disk[o]["playbook"] ELSE None,
         roles     |-> IF desired[o].roles = <<>> THEN <<>>
                       ELSE <<[name |-> role, version |-> installed[RolePathOf(o)][role]]>>]

(* Update runs again with the variables that Observe's dry run had.         *)
Update(o) ==
    /\ step[o] = "ready"
    /\ asked[o] = "present"
    /\ Goto(o, "running")
    /\ UNCHANGED <<users, copies, asked, files, shared>>

EndRun(o) ==
    /\ step[o] = "running"
    /\ Goto(o, "ready")
    /\ UNCHANGED <<users, copies, asked, files, shared>>

Disconnect(o) ==
    /\ step[o] = "ready"
    /\ Goto(o, "idle")
    /\ UNCHANGED <<users, copies, asked, files, shared>>

(* Any error, in Connect, Init or the runner, ends the reconcile; a write   *)
(* that fails may have written part of the file.  An error that follows a   *)
(* write of the step (Chmod, Setenv) is Fail of the next step.              *)
Fail(o) ==
    /\ step[o] # "idle"
    /\ \/ UNCHANGED disk
       \/ \E file \in Files : Due(o, file) /\ Write(o, file, Torn)
    /\ Goto(o, "idle")
    /\ UNCHANGED <<users, copies, asked, dirs, shared>>

-------------------------------------------------------------------------------
(* Users, and the process.                                                  *)

Edit(o) ==
    /\ edits < MaxEdits
    /\ spec[o] # None
    /\ \/ spec' \in {[spec EXCEPT ![o] = s] : s \in Specs \cup {None}} /\ UNCHANGED config
       \/ config' \in {[config EXCEPT ![o] = c] : c \in Configs} /\ UNCHANGED spec
    /\ edits' = edits + 1
    /\ UNCHANGED <<copies, step, asked, files, shared>>

(* A container that restarts has lost its file system.                      *)
Restart ==
    /\ desired' = [o \in Runs |-> None] /\ provider' = [o \in Runs |-> None]
    /\ step' = [o \in Runs |-> "idle"] /\ asked' = [o \in Runs |-> None]
    /\ dirs' = {} /\ disk' = [o \in Runs |-> NoFiles]
    /\ gitCredDir' = None
    /\ installed' = [path \in Paths |-> [name \in RoleNames |-> None]]
    /\ UNCHANGED users

Prepare(o) ==
    \/ Connect(o) \/ WriteInventory(o) \/ WriteGitCredentials(o) \/ WritePlaybook(o)
    \/ WriteCredentials(o) \/ WriteRequirements(o)
    \/ InstallCollections(o) \/ InstallRoles(o) \/ InitRunner(o)

Use(o) ==
    \/ \E state \in {"present", "absent"} : WriteExtraVar(o, state)
    \/ Update(o) \/ EndRun(o)

Next ==
    \/ \E o \in Runs : Prepare(o) \/ Use(o) \/ Disconnect(o) \/ Fail(o) \/ Edit(o)
    \/ Restart

Spec == Init /\ [][Next]_vars

-------------------------------------------------------------------------------

(* Types; files are in a working directory, and so are reconciles; no more  *)
(* reconciles than workers.                                                 *)
TypeOK ==
    /\ spec \in [Runs -> Specs \cup {None}] /\ config \in [Runs -> Configs]
    /\ desired \in [Runs -> Specs \cup {None}] /\ provider \in [Runs -> Configs \cup {None}]
    /\ step \in [Runs -> Steps] /\ asked \in [Runs -> States]
    /\ dirs \subseteq Runs
    /\ disk \in [Runs -> [Files -> FileContents]]
    /\ gitCredDir \in Runs \cup {None}
    /\ installed \in [Paths -> [RoleNames -> Versions \cup {None}]]
    /\ edits \in 0..MaxEdits
    /\ \A o \in Runs : step[o] # "idle" => desired[o] # None /\ provider[o] # None
    /\ \A o \in Runs : o \notin dirs => disk[o] = NoFiles /\ step[o] = "idle"

(* A run finds what the reconcile read, whatever earlier reconciles and     *)
(* failed writes have left: the playbook or an installed role, the variables*)
(* of the spec and no others, the state it is asked for, and the inventory  *)
(* and the credentials if there are any.                                    *)
RunsOwnContent ==
    \A o \in Runs : step[o] = "running" =>
        /\ asked[o] # None
        /\ cmdFunc(o).extravars = [vars |-> desired[o].vars, state |-> asked[o]]
        /\ cmdFunc(o).playbook = desired[o].playbook
        /\ \A i \in DOMAIN cmdFunc(o).roles : cmdFunc(o).roles[i].version # None
        /\ desired[o].hosts # None => cmdFunc(o).inventory = desired[o].hosts
        /\ provider[o].secret # None => disk[o]["credentials"] = provider[o].secret

(* ansible-galaxy finds the git credentials of the ProviderConfig it        *)
(* installs for.                                                            *)
OwnCredentials ==
    \A o \in Runs :
        step[o] \in {"collections", "roles"} /\ provider[o].git # None
        => gitCredDir = o /\ disk[o]["git"] = provider[o].git

(* A run is given no inventory but that of its AnsibleRun.                  *)
OwnInventory ==
    \A o \in Runs : step[o] = "running" /\ cmdFunc(o).inventory \in Contents
                    => cmdFunc(o).inventory = desired[o].hosts

===============================================================================
