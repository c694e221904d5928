---------------------------- MODULE WorkspaceProofs ----------------------------
(***************************************************************************)
(* What an ansible-runner process finds in its working directory, for every *)
(* number of AnsibleRuns and every spec; and whose git credentials          *)
(* ansible-galaxy finds, when there is one worker.                          *)
(***************************************************************************)
EXTENDS Workspace, FiniteSetTheorems, TLAPS

(* The steps up to the one that writes the file.                            *)
InventoryDue == {"idle", "inventory"}
GitDue == InventoryDue \cup {"git"}
ContentDue == GitDue \cup {"content"}
CredentialsDue == ContentDue \cup {"credentials"}

Required(o) == [config |-> provider[o].requirements, spec |-> desired[o].roles]

(* What a reconcile has prepared when it is at a step.                      *)
FilesWritten(o) ==
    /\ step[o] \notin InventoryDue /\ desired[o].hosts # None
       => disk[o]["hosts"] = desired[o].hosts
    /\ step[o] \notin GitDue /\ provider[o].git # None
       => disk[o]["git"] = provider[o].git
    /\ step[o] \notin ContentDue /\ desired[o].roles = <<>> /\ desired[o].playbook # None
       => disk[o]["playbook"] = desired[o].playbook
    /\ step[o] \notin CredentialsDue /\ provider[o].secret # None
       => disk[o]["credentials"] = provider[o].secret
    /\ step[o] \in {"collections", "roles"} => disk[o]["requirements"] = Required(o)

RolesThere(o) ==
    step[o] \in {"init", "ready", "running"}
    => \A i \in DOMAIN desired[o].roles :
          installed[RolePathOf(o)][desired[o].roles[i].name] # None

RunnerReady(o) ==
    /\ step[o] \in {"ready", "running"}
       => /\ desired[o].playbook = None <=> desired[o].roles # <<>>
          /\ disk[o]["extravars"] = [vars |-> desired[o].vars, state |-> asked[o]]
    /\ step[o] = "running" => asked[o] # None

Prepared(o) == FilesWritten(o) /\ RolesThere(o) /\ RunnerReady(o)

Inv == TypeOK /\ \A o \in Runs : Prepared(o)

(* Where a step leaves the other AnsibleRuns.                               *)
Others(o) ==
    \A p \in Runs \ {o} :
        /\ desired'[p] = desired[p] /\ provider'[p] = provider[p]
        /\ step'[p] = step[p] /\ asked'[p] = asked[p] /\ disk'[p] = disk[p]

InstalledGrows ==
    \A path \in Paths, name \in RoleNames :
        installed[path][name] # None => installed'[path][name] # None

-------------------------------------------------------------------------------

LEMMA SpecFields ==
    ASSUME NEW s \in Specs
    PROVE  /\ s # None
           /\ s.hosts \in Contents \cup {None} /\ s.playbook \in Contents \cup {None}
           /\ s.vars \in Contents \cup {None} /\ s.roles \in Seq(Role)
BY WorkspaceAssumption DEF Parameters

LEMMA ConfigFields ==
    ASSUME NEW c \in Configs
    PROVE  /\ c.git \in Contents \cup {None} /\ c.secret \in Contents \cup {None}
           /\ c.requirements \in Seq(Role) \cup {None}
           /\ c.rolePath \in Paths \cup {None}
BY WorkspaceAssumption DEF ProviderConfigSpec

LEMMA RoleFields ==
    ASSUME NEW roles \in Seq(Role), NEW i \in DOMAIN roles
    PROVE  roles[i].name \in RoleNames /\ roles[i].version \in Versions
<1>1. roles[i] \in Role  OBVIOUS
<1> QED  BY <1>1 DEF Role

LEMMA RolePathType ==
    ASSUME NEW o \in Runs, provider[o] \in Configs
    PROVE  RolePathOf(o) \in Paths
<1>1. provider[o].rolePath \in Paths \cup {None}  BY ConfigFields
<1> QED  BY <1>1, WorkspaceAssumption DEF RolePathOf, selectRolePath

(* A write changes one file.                                                *)
LEMMA WriteOne ==
    ASSUME disk \in [Runs -> [Files -> FileContents]],
           NEW o \in Runs, NEW file \in Files, NEW content \in FileContents,
           Write(o, file, content)
    PROVE  /\ disk' \in [Runs -> [Files -> FileContents]]
           /\ disk'[o][file] = content
           /\ \A f \in Files \ {file} : disk'[o][f] = disk[o][f]
           /\ \A p \in Runs \ {o} : disk'[p] = disk[p]
BY DEF Write

LEMMA GotoOne ==
    ASSUME step \in [Runs -> Steps], NEW o \in Runs, NEW next \in Steps,
           Goto(o, next)
    PROVE  /\ step' \in [Runs -> Steps] /\ step'[o] = next
           /\ \A p \in Runs \ {o} : step'[p] = step[p]
BY DEF Goto

(* ansible-galaxy installs what is listed, and removes nothing.             *)
LEMMA GalaxyInstalls ==
    ASSUME installed \in [Paths -> [RoleNames -> Versions \cup {None}]],
           NEW path \in Paths, NEW roles \in Seq(Role),
           installed' = GalaxyInstall(path, roles)
    PROVE  /\ installed' \in [Paths -> [RoleNames -> Versions \cup {None}]]
           /\ InstalledGrows
           /\ \A i \in DOMAIN roles : installed'[path][roles[i].name] # None
<1> DEFINE listed(name) == \E i \in DOMAIN roles : roles[i].name = name
           version(name) == roles[CHOOSE i \in DOMAIN roles : roles[i].name = name].version
<1>1. ASSUME NEW name \in RoleNames, listed(name)
      PROVE  version(name) \in Versions
  <2>1. PICK i \in DOMAIN roles : roles[i].name = name  BY <1>1
  <2>2. (CHOOSE k \in DOMAIN roles : roles[k].name = name) \in DOMAIN roles  BY <2>1
  <2> QED  BY <2>2, RoleFields
<1>2. installed' = [installed EXCEPT ![path] =
                       [name \in RoleNames |->
                          IF installed[path][name] = None /\ listed(name)
                            THEN version(name) ELSE installed[path][name]]]
  BY DEF GalaxyInstall
<1>3. None \notin Versions  BY WorkspaceAssumption
<1>4. \A name \in RoleNames :
         installed'[path][name] = IF installed[path][name] = None /\ listed(name)
                                    THEN version(name) ELSE installed[path][name]
  BY <1>2
<1>5. \A q \in Paths \ {path} : installed'[q] = installed[q]  BY <1>2
<1>6. installed' \in [Paths -> [RoleNames -> Versions \cup {None}]]
  <2> HIDE DEF listed, version
  <2> QED  BY <1>1, <1>2
<1>7. InstalledGrows
  <2> SUFFICES ASSUME NEW q \in Paths, NEW name \in RoleNames,
                      installed[q][name] # None
               PROVE  installed'[q][name] # None
    BY DEF InstalledGrows
  <2> QED  BY <1>4, <1>5
<1>8. ASSUME NEW i \in DOMAIN roles
      PROVE  installed'[path][roles[i].name] # None
  <2>1. roles[i].name \in RoleNames /\ listed(roles[i].name)  BY RoleFields
  <2> QED  BY <1>1, <1>3, <1>4, <2>1
<1> QED  BY <1>6, <1>7, <1>8

-------------------------------------------------------------------------------
(* What is prepared for one AnsibleRun stays so while others move.          *)
LEMMA OthersStayPrepared ==
    ASSUME TypeOK, NEW p \in Runs, Prepared(p), InstalledGrows,
           desired'[p] = desired[p], provider'[p] = provider[p],
           step'[p] = step[p], asked'[p] = asked[p], disk'[p] = disk[p]
    PROVE  Prepared(p)'
<1>1. FilesWritten(p)'  BY DEF Prepared, FilesWritten, Required
<1>2. RunnerReady(p)'  BY DEF Prepared, RunnerReady
<1>3. RolesThere(p)'
  <2> SUFFICES ASSUME step[p] \in {"init", "ready", "running"},
                      NEW i \in DOMAIN desired[p].roles
               PROVE  installed'[RolePathOf(p)'][desired[p].roles[i].name] # None
    BY DEF RolesThere
  <2>1. RolePathOf(p)' = RolePathOf(p)  BY DEF RolePathOf, selectRolePath
  <2>2. desired[p] \in Specs /\ provider[p] \in Configs  BY DEF TypeOK
  <2>3. RolePathOf(p) \in Paths  BY <2>2, RolePathType
  <2>4. desired[p].roles[i].name \in RoleNames  BY <2>2, SpecFields, RoleFields
  <2>5. installed[RolePathOf(p)][desired[p].roles[i].name] # None
    BY DEF Prepared, RolesThere
  <2> QED  BY <2>1, <2>3, <2>4, <2>5 DEF InstalledGrows
<1> QED  BY <1>1, <1>2, <1>3 DEF Prepared

(* A step of a reconcile that leaves prepared what it needs next.           *)
LEMMA ReconcileMoves ==
    ASSUME Inv, NEW o \in Runs, step[o] # "idle", NEW next \in Steps, Goto(o, next),
           UNCHANGED <<users, copies, dirs>>,
           asked' \in [Runs -> States], gitCredDir' \in Runs \cup {None},
           disk' \in [Runs -> [Files -> FileContents]],
           installed' \in [Paths -> [RoleNames -> Versions \cup {None}]],
           \A p \in Runs \ {o} : asked'[p] = asked[p] /\ disk'[p] = disk[p],
           InstalledGrows, Prepared(o)'
    PROVE  Inv'
<1>1. /\ step' \in [Runs -> Steps] /\ step'[o] = next
      /\ \A p \in Runs \ {o} : step'[p] = step[p]
  BY GotoOne DEF Inv, TypeOK
<1>2. o \in dirs /\ desired[o] # None /\ provider[o] # None  BY DEF Inv, TypeOK
<1>3. TypeOK'  BY <1>1, <1>2 DEF Inv, TypeOK, users, copies
<1>4. ASSUME NEW p \in Runs \ {o}  PROVE Prepared(p)'
  BY <1>1, OthersStayPrepared DEF Inv, copies
<1> QED  BY <1>3, <1>4 DEF Inv

(* A step that writes at most one file, and nothing that a run is given     *)
(* but that file.                                                           *)
LEMMA FileStep ==
    ASSUME Inv, NEW o \in Runs, step[o] # "idle", NEW next \in Steps, Goto(o, next),
           NEW file \in Files, NEW content \in FileContents,
           UNCHANGED disk \/ Write(o, file, content),
           UNCHANGED <<users, copies, asked, dirs, installed>>,
           gitCredDir' \in Runs \cup {None}, Prepared(o)'
    PROVE  Inv'
<1>1. /\ disk' \in [Runs -> [Files -> FileContents]]
      /\ \A p \in Runs \ {o} : disk'[p] = disk[p]
  <2>1. disk \in [Runs -> [Files -> FileContents]]  BY DEF Inv, TypeOK
  <2> QED  BY <2>1, WriteOne
<1>2. /\ asked' \in [Runs -> States]
      /\ installed' \in [Paths -> [RoleNames -> Versions \cup {None}]]
      /\ InstalledGrows
  BY DEF Inv, TypeOK, InstalledGrows
<1> QED  BY <1>1, <1>2, ReconcileMoves

LEMMA FileWritten ==
    ASSUME disk \in [Runs -> [Files -> FileContents]], NEW o \in Runs,
           NEW file \in Files, NEW content \in FileContents,
           UNCHANGED disk \/ Write(o, file, content)
    PROVE  /\ Write(o, file, content) => disk'[o][file] = content
           /\ \A f \in Files \ {file} : disk'[o][f] = disk[o][f]
BY WriteOne

LEMMA ContentTypes ==
    /\ \A c \in Contents \cup {None, Torn} : c \in FileContents
    /\ \A c \in Seq(Role) \cup {None}, s \in Seq(Role) :
          [config |-> c, spec |-> s] \in FileContents
    /\ \A v \in Contents \cup {None}, s \in States :
          [vars |-> v, state |-> s] \in FileContents
BY DEF FileContents

(* What a reconcile has read.                                               *)
LEMMA Read ==
    ASSUME TypeOK, NEW o \in Runs, step[o] # "idle"
    PROVE  desired[o] \in Specs /\ provider[o] \in Configs
BY DEF TypeOK

-------------------------------------------------------------------------------
(* The steps of Connect.                                                    *)

LEMMA InitInv == Init => Inv
<1> SUFFICES ASSUME Init PROVE Inv  OBVIOUS
<1>1. \A o \in Runs : step[o] = "idle"  BY DEF Init
<1>2. TypeOK
  <2>1. disk \in [Runs -> [Files -> FileContents]]
    BY ContentTypes DEF Init, NoFiles
  <2> QED  BY <2>1, WorkspaceAssumption DEF Init, TypeOK, Steps, States
<1>3. ASSUME NEW o \in Runs PROVE Prepared(o)
  BY <1>1 DEF Prepared, FilesWritten, RolesThere, RunnerReady,
              InventoryDue, GitDue, ContentDue, CredentialsDue
<1> QED  BY <1>2, <1>3 DEF Inv

LEMMA ConnectInv ==
    ASSUME Inv, NEW o \in Runs, Connect(o)
    PROVE  Inv'
<1>1. spec[o] \in Specs /\ config[o] \in Configs /\ config[o] # None
  BY WorkspaceAssumption DEF Inv, TypeOK, Connect
<1>2. /\ step' \in [Runs -> Steps] /\ step'[o] = "inventory"
      /\ \A p \in Runs \ {o} : step'[p] = step[p]
  BY GotoOne DEF Inv, TypeOK, Connect, Steps
<1>3. TypeOK'
  BY <1>1, <1>2 DEF Inv, TypeOK, Connect, MkdirAll, users, shared
<1>4. Prepared(o)'
  BY <1>2 DEF Prepared, FilesWritten, RolesThere, RunnerReady,
              InventoryDue, GitDue, ContentDue, CredentialsDue
<1>5. ASSUME NEW p \in Runs \ {o} PROVE Prepared(p)'
  <2>1. InstalledGrows  BY DEF InstalledGrows, Connect, shared
  <2>2. desired'[p] = desired[p] /\ provider'[p] = provider[p]
    BY DEF Inv, TypeOK, Connect
  <2> QED  BY <1>2, <2>1, <2>2, OthersStayPrepared DEF Inv, Connect
<1> QED  BY <1>3, <1>4, <1>5 DEF Inv

LEMMA WriteInventoryInv ==
    ASSUME Inv, NEW o \in Runs, WriteInventory(o)
    PROVE  Inv'
<1> DEFINE content == desired[o].hosts
           nothing == content = None
<1>1. content \in FileContents
  BY Read, SpecFields, ContentTypes DEF Inv, WriteInventory
<1>2. step'[o] = "git" /\ "git" \in Steps
  BY GotoOne DEF Inv, TypeOK, WriteInventory, Steps
<1>3. \/ nothing /\ UNCHANGED disk
      \/ ~nothing /\ Write(o, "hosts", content)
  BY DEF WriteInventory, WriteIfDue, Due
<1>4. ~nothing => disk'[o]["hosts"] = content
  BY <1>1, <1>3, FileWritten DEF Inv, TypeOK, WriteInventory, Files
<1>5. Prepared(o)'
  BY <1>2, <1>4 DEF WriteInventory, copies, Prepared, FilesWritten, RolesThere,
     RunnerReady, InventoryDue, GitDue, ContentDue, CredentialsDue
<1> QED  BY <1>1, <1>2, <1>3, <1>5, FileStep DEF Inv, TypeOK, WriteInventory, Files, shared

LEMMA WriteGitCredentialsInv ==
    ASSUME Inv, NEW o \in Runs, WriteGitCredentials(o)
    PROVE  Inv'
<1> DEFINE content == provider[o].git
           nothing == content = None
<1>1. content \in FileContents
  BY Read, ConfigFields, ContentTypes DEF Inv, WriteGitCredentials
<1>2. step'[o] = "content" /\ "content" \in Steps
  BY GotoOne DEF Inv, TypeOK, WriteGitCredentials, Steps
<1>3. \/ nothing /\ UNCHANGED disk
      \/ ~nothing /\ Write(o, "git", content)
  BY DEF WriteGitCredentials, WriteIfDue, Due, GitCredentials
<1>4. /\ ~nothing => disk'[o]["git"] = content
      /\ disk'[o]["hosts"] = disk[o]["hosts"]
  BY <1>1, <1>3, FileWritten DEF Inv, TypeOK, WriteGitCredentials, Files
<1>5. Prepared(o)'
  BY <1>2, <1>4 DEF Inv, WriteGitCredentials, copies, Prepared, FilesWritten, RolesThere,
     RunnerReady, InventoryDue, GitDue, ContentDue, CredentialsDue
<1>6. gitCredDir' \in Runs \cup {None}  BY DEF Inv, TypeOK, WriteGitCredentials
<1> QED  BY <1>1, <1>2, <1>3, <1>5, <1>6, FileStep DEF Inv, WriteGitCredentials, Files

LEMMA WritePlaybookInv ==
    ASSUME Inv, NEW o \in Runs, WritePlaybook(o)
    PROVE  Inv'
<1> DEFINE content == desired[o].playbook
           nothing == desired[o].roles # <<>> \/ content = None
<1>1. content \in FileContents
  BY Read, SpecFields, ContentTypes DEF Inv, WritePlaybook
<1>2. step'[o] = "credentials" /\ "credentials" \in Steps
  BY GotoOne DEF Inv, TypeOK, WritePlaybook, Steps
<1>3. \/ nothing /\ UNCHANGED disk
      \/ ~nothing /\ Write(o, "playbook", content)
  BY DEF WritePlaybook, WriteIfDue, Due
<1>4. /\ ~nothing => disk'[o]["playbook"] = content
      /\ \A file \in {"hosts", "git"} : disk'[o][file] = disk[o][file]
  BY <1>1, <1>3, FileWritten DEF Inv, TypeOK, WritePlaybook, Files
<1>5. Prepared(o)'
  BY <1>2, <1>4 DEF Inv, WritePlaybook, copies, Prepared, FilesWritten, RolesThere,
     RunnerReady, InventoryDue, GitDue, ContentDue, CredentialsDue
<1> QED  BY <1>1, <1>2, <1>3, <1>5, FileStep DEF Inv, TypeOK, WritePlaybook, Files, shared

LEMMA WriteCredentialsInv ==
    ASSUME Inv, NEW o \in Runs, WriteCredentials(o)
    PROVE  Inv'
<1> DEFINE content == provider[o].secret
           nothing == content = None
<1>1. content \in FileContents
  BY Read, ConfigFields, ContentTypes DEF Inv, WriteCredentials
<1>2. step'[o] = "requirements" /\ "requirements" \in Steps
  BY GotoOne DEF Inv, TypeOK, WriteCredentials, Steps
<1>3. \/ nothing /\ UNCHANGED disk
      \/ ~nothing /\ Write(o, "credentials", content)
  BY DEF WriteCredentials, WriteIfDue, Due
<1>4. /\ ~nothing => disk'[o]["credentials"] = content
      /\ \A file \in {"hosts", "git", "playbook"} : disk'[o][file] = disk[o][file]
  BY <1>1, <1>3, FileWritten DEF Inv, TypeOK, WriteCredentials, Files
<1>5. Prepared(o)'
  BY <1>2, <1>4 DEF Inv, WriteCredentials, copies, Prepared, FilesWritten, RolesThere,
     RunnerReady, InventoryDue, GitDue, ContentDue, CredentialsDue
<1> QED  BY <1>1, <1>2, <1>3, <1>5, FileStep DEF Inv, TypeOK, WriteCredentials, Files, shared

LEMMA WriteRequirementsInv ==
    ASSUME Inv, NEW o \in Runs, WriteRequirements(o)
    PROVE  Inv'
<1> DEFINE required == provider[o].requirements # None
           listed == desired[o].roles # <<>>
           nothing == ~required /\ ~listed
           next == CASE required -> "collections"
                     [] listed /\ ~required -> "roles"
                     [] OTHER -> "init"
<1>1. Required(o) \in FileContents
  BY Read, SpecFields, ConfigFields, ContentTypes DEF Inv, WriteRequirements, Required
<1>2. /\ Goto(o, next)
      /\ \/ nothing /\ UNCHANGED disk
         \/ ~nothing /\ Write(o, "requirements", Required(o))
  BY DEF WriteRequirements, Required, WriteIfDue, Due
<1>3. /\ next \in Steps
      /\ \/ required /\ next = "collections"
         \/ listed /\ next = "roles"
         \/ ~required /\ ~listed /\ next = "init"
  BY DEF Steps
<1>4. step'[o] = next
  <2> HIDE DEF next
  <2> QED  BY <1>2, <1>3, GotoOne DEF Inv, TypeOK
<1>5. /\ ~nothing => disk'[o]["requirements"] = Required(o)
      /\ \A file \in {"hosts", "git", "playbook", "credentials"} :
            disk'[o][file] = disk[o][file]
  BY <1>1, <1>2, FileWritten DEF Inv, TypeOK, Files
<1>6. Prepared(o)'
  <2> HIDE DEF next
  <2>1. Required(o)' = Required(o)  BY DEF WriteRequirements, copies, Required
  <2>2. FilesWritten(o)'
    BY <1>3, <1>4, <1>5, <2>1 DEF Inv, WriteRequirements, copies, Prepared,
       FilesWritten, InventoryDue, GitDue, ContentDue, CredentialsDue
  <2>3. RolesThere(o)' /\ RunnerReady(o)'
    BY <1>3, <1>4 DEF WriteRequirements, copies, RolesThere, RunnerReady
  <2> QED  BY <2>2, <2>3 DEF Prepared
<1>7. UNCHANGED <<users, copies, asked, dirs, installed>> /\ gitCredDir' \in Runs \cup {None}
  BY DEF Inv, TypeOK, WriteRequirements, shared
<1> HIDE DEF next, nothing
<1> QED  BY <1>1, <1>2, <1>3, <1>6, <1>7, FileStep DEF WriteRequirements, Files

LEMMA InstallRolesInv ==
    ASSUME Inv, NEW o \in Runs, InstallRoles(o)
    PROVE  Inv'
<1> DEFINE required == RolesRequired(disk[o]["requirements"])
<1>1. desired[o] \in Specs /\ provider[o] \in Configs
  BY Read DEF Inv, InstallRoles
<1>2. step[o] = "roles" /\ disk[o]["requirements"] = Required(o)
  BY DEF Inv, InstallRoles, Prepared, FilesWritten
<1>3. /\ required \in Seq(Role)
      /\ desired[o].roles # <<>> => required = desired[o].roles
  BY <1>1, <1>2, SpecFields, ConfigFields DEF RolesRequired, Required
<1>4. RolePathOf(o) \in Paths  BY <1>1, RolePathType
<1>5. /\ installed' \in [Paths -> [RoleNames -> Versions \cup {None}]]
      /\ InstalledGrows
      /\ \A i \in DOMAIN required : installed'[RolePathOf(o)][required[i].name] # None
  <2> HIDE DEF required
  <2> QED  BY <1>3, <1>4, GalaxyInstalls DEF Inv, TypeOK, InstallRoles, required
<1>6. step'[o] = "init" /\ "init" \in Steps
  BY GotoOne DEF Inv, TypeOK, InstallRoles, Steps
<1>7. Prepared(o)'
  <2>1. FilesWritten(o)' /\ RunnerReady(o)'
    BY <1>2, <1>6 DEF Inv, InstallRoles, copies, files, Prepared, FilesWritten,
       RunnerReady, InventoryDue, GitDue, ContentDue, CredentialsDue
  <2>2. RolePathOf(o)' = RolePathOf(o)
    BY DEF InstallRoles, copies, RolePathOf, selectRolePath
  <2>3. RolesThere(o)'
    <3> SUFFICES ASSUME NEW i \in DOMAIN desired[o].roles
                 PROVE  installed'[RolePathOf(o)'][desired[o].roles[i].name] # None
      BY DEF InstallRoles, copies, RolesThere
    <3>1. desired[o].roles # <<>>  OBVIOUS
    <3> HIDE DEF required
    <3> QED  BY <1>3, <1>5, <2>2, <3>1
  <2> QED  BY <2>1, <2>3 DEF Prepared
<1>8. /\ \A p \in Runs \ {o} : asked'[p] = asked[p] /\ disk'[p] = disk[p]
      /\ asked' \in [Runs -> States] /\ gitCredDir' \in Runs \cup {None}
      /\ disk' \in [Runs -> [Files -> FileContents]]
  BY DEF Inv, TypeOK, InstallRoles, files
<1> QED  BY <1>5, <1>6, <1>7, <1>8, ReconcileMoves DEF InstallRoles, files

-------------------------------------------------------------------------------
(* The runner's steps.                                                      *)

(* A step that changes nothing but where the reconcile is.                  *)
LEMMA PlainStep ==
    ASSUME Inv, NEW o \in Runs, step[o] # "idle", NEW next \in Steps, Goto(o, next),
           UNCHANGED <<users, copies, asked, files, shared>>, Prepared(o)'
    PROVE  Inv'
<1>1. InstalledGrows  BY DEF InstalledGrows, shared
<1> QED  BY <1>1, ReconcileMoves DEF Inv, TypeOK, files, shared

LEMMA InstallCollectionsInv ==
    ASSUME Inv, NEW o \in Runs, InstallCollections(o)
    PROVE  Inv'
<1>1. step'[o] = "roles" /\ "roles" \in Steps
  BY GotoOne DEF Inv, TypeOK, InstallCollections, Steps
<1>2. Required(o)' = Required(o)  BY DEF InstallCollections, copies, Required
<1>3. Prepared(o)'
  BY <1>1, <1>2 DEF Inv, InstallCollections, copies, files, Prepared, FilesWritten,
     RolesThere, RunnerReady, InventoryDue, GitDue, ContentDue, CredentialsDue
<1> QED  BY <1>1, <1>3, PlainStep DEF InstallCollections

LEMMA RunnerPlainInv ==
    ASSUME Inv, NEW o \in Runs, Update(o) \/ EndRun(o) \/ Disconnect(o)
    PROVE  Inv'
<1> DEFINE next == step'[o]
<1>1. /\ step[o] \in {"ready", "running"}
      /\ UNCHANGED <<users, copies, asked, files, shared>>
  BY DEF Update, EndRun, Disconnect
<1>2. \/ Goto(o, "running") /\ asked[o] = "present"
      \/ Goto(o, "ready")
      \/ Goto(o, "idle")
  BY DEF Update, EndRun, Disconnect
<1>3. /\ next \in {"running", "ready", "idle"} /\ Goto(o, next)
      /\ next = "running" => asked[o] = "present"
  BY <1>2 DEF Goto, Inv, TypeOK
<1>4. RolesThere(o)'
  BY <1>1, <1>3 DEF Inv, copies, shared, Prepared, RolesThere, RolePathOf, selectRolePath
<1>5. "present" # None  BY WorkspaceAssumption
<1>6. RunnerReady(o)'
  BY <1>1, <1>3, <1>5 DEF Inv, copies, files, Prepared, RunnerReady
<1>7. FilesWritten(o)'
  BY <1>1, <1>3 DEF Inv, copies, files, Prepared, FilesWritten,
     InventoryDue, GitDue, ContentDue, CredentialsDue
<1>8. Prepared(o)'  BY <1>4, <1>6, <1>7 DEF Prepared
<1> QED  BY <1>1, <1>3, <1>8, PlainStep DEF Steps

(* A step that writes the variables, for a state the runner is asked for.   *)
LEMMA ExtraVarsStep ==
    ASSUME Inv, NEW o \in Runs, step[o] \in {"init", "ready"},
           desired[o].playbook = None <=> desired[o].roles # <<>>,
           NEW state \in States, NEW next \in {"ready", "running"},
           next = "running" => state # None,
           Write(o, "extravars", [vars |-> desired[o].vars, state |-> state]),
           asked' = [asked EXCEPT ![o] = state], Goto(o, next),
           UNCHANGED <<users, copies, dirs, shared>>
    PROVE  Inv'
<1> DEFINE content == [vars |-> desired[o].vars, state |-> state]
<1>1. content \in FileContents  BY Read, SpecFields, ContentTypes DEF Inv
<1>2. step'[o] = next /\ next \in Steps  BY GotoOne DEF Inv, TypeOK, Steps
<1>3. /\ disk' \in [Runs -> [Files -> FileContents]]
      /\ disk'[o]["extravars"] = content
      /\ \A f \in Files \ {"extravars"} : disk'[o][f] = disk[o][f]
      /\ \A p \in Runs \ {o} : disk'[p] = disk[p]
  BY <1>1, WriteOne DEF Inv, TypeOK, Files
<1>4. /\ asked' \in [Runs -> States] /\ asked'[o] = state
      /\ \A p \in Runs \ {o} : asked'[p] = asked[p]
  BY DEF Inv, TypeOK
<1>5. FilesWritten(o)'
  BY <1>2, <1>3 DEF Inv, copies, Files, Prepared, FilesWritten,
     InventoryDue, GitDue, ContentDue, CredentialsDue
<1>6. RolesThere(o)'
  BY <1>2 DEF Inv, copies, shared, Prepared, RolesThere, RolePathOf, selectRolePath
<1>7. RunnerReady(o)'  BY <1>2, <1>3, <1>4 DEF copies, RunnerReady
<1>8. InstalledGrows  BY DEF InstalledGrows, shared
<1>9. Prepared(o)'  BY <1>5, <1>6, <1>7 DEF Prepared
<1> QED  BY <1>2, <1>3, <1>4, <1>8, <1>9, ReconcileMoves DEF Inv, TypeOK, shared

LEMMA InitRunnerInv ==
    ASSUME Inv, NEW o \in Runs, InitRunner(o)
    PROVE  Inv'
BY ExtraVarsStep DEF InitRunner, Due, ExtraVars, States

LEMMA WriteExtraVarInv ==
    ASSUME Inv, NEW o \in Runs, NEW state \in {"present", "absent"},
           WriteExtraVar(o, state)
    PROVE  Inv'
<1> DEFINE found == disk[o]["extravars"]
<1>1. /\ found = [vars |-> desired[o].vars, state |-> asked[o]]
      /\ desired[o].playbook = None <=> desired[o].roles # <<>>
  BY DEF Inv, WriteExtraVar, Prepared, RunnerReady
<1>2. state \in States /\ state # None  BY WorkspaceAssumption DEF States
<1>3. found.vars = desired[o].vars  BY <1>1
<1>4. Write(o, "extravars", [vars |-> desired[o].vars, state |-> state])
  BY <1>3 DEF WriteExtraVar
<1> QED  BY <1>1, <1>2, <1>4, ExtraVarsStep DEF WriteExtraVar

(* A reconcile that ends leaves files behind, and prepares them afresh.     *)
LEMMA FailInv ==
    ASSUME Inv, NEW o \in Runs, Fail(o)
    PROVE  Inv'
<1>1. step'[o] = "idle" /\ "idle" \in Steps  BY GotoOne DEF Inv, TypeOK, Fail, Steps
<1>2. Prepared(o)'
  BY <1>1 DEF Prepared, FilesWritten, RolesThere, RunnerReady,
              InventoryDue, GitDue, ContentDue, CredentialsDue
<1>3. \/ UNCHANGED disk
      \/ \E file \in Files : Write(o, file, Torn)
  BY DEF Fail, Files
<1>4. /\ disk' \in [Runs -> [Files -> FileContents]]
      /\ \A p \in Runs \ {o} : disk'[p] = disk[p]
  BY <1>3, WriteOne, ContentTypes DEF Inv, TypeOK
<1>5. InstalledGrows  BY DEF InstalledGrows, Fail, shared
<1> QED  BY <1>1, <1>2, <1>4, <1>5, ReconcileMoves DEF Inv, TypeOK, Fail, shared

LEMMA EditInv ==
    ASSUME Inv, NEW o \in Runs, Edit(o)
    PROVE  Inv'
<1>1. /\ spec' \in [Runs -> Specs \cup {None}] /\ config' \in [Runs -> Configs]
      /\ edits' \in 0..MaxEdits
  <2>1. edits' \in 0..MaxEdits  BY WorkspaceAssumption DEF Inv, TypeOK, Edit
  <2>2. \/ \E s \in Specs \cup {None} : spec' = [spec EXCEPT ![o] = s] /\ UNCHANGED config
        \/ \E c \in Configs : config' = [config EXCEPT ![o] = c] /\ UNCHANGED spec
    BY DEF Edit
  <2> QED  BY <2>1, <2>2 DEF Inv, TypeOK
<1>2. TypeOK'  BY <1>1 DEF Inv, TypeOK, Edit, copies, files, shared
<1>3. InstalledGrows  BY DEF InstalledGrows, Edit, shared
<1>4. ASSUME NEW p \in Runs PROVE Prepared(p)'
  BY <1>3, OthersStayPrepared DEF Inv, Edit, copies, files
<1> QED  BY <1>2, <1>4 DEF Inv

LEMMA RestartInv ==
    ASSUME Inv, Restart
    PROVE  Inv'
<1>1. \A o \in Runs : step'[o] = "idle"  BY DEF Restart
<1>2. disk' \in [Runs -> [Files -> FileContents]]
  BY ContentTypes DEF Restart, NoFiles
<1>3. TypeOK'
  BY <1>2 DEF Inv, TypeOK, Restart, users, Steps, States
<1>4. ASSUME NEW p \in Runs PROVE Prepared(p)'
  BY <1>1 DEF Prepared, FilesWritten, RolesThere, RunnerReady,
              InventoryDue, GitDue, ContentDue, CredentialsDue
<1> QED  BY <1>3, <1>4 DEF Inv

LEMMA NextInv == Inv /\ [Next]_vars => Inv'
<1> SUFFICES ASSUME Inv, [Next]_vars PROVE Inv'  OBVIOUS
<1>1. ASSUME NEW o \in Runs, Prepare(o) PROVE Inv'
  BY <1>1, ConnectInv, WriteInventoryInv, WriteGitCredentialsInv, WritePlaybookInv,
     WriteCredentialsInv, WriteRequirementsInv, InstallCollectionsInv,
     InstallRolesInv, InitRunnerInv
     DEF Prepare
<1>2. ASSUME NEW o \in Runs, Use(o) PROVE Inv'
  BY <1>2, WriteExtraVarInv, RunnerPlainInv DEF Use
<1>3. ASSUME NEW o \in Runs, Disconnect(o) \/ Fail(o) \/ Edit(o) PROVE Inv'
  BY <1>3, RunnerPlainInv, FailInv, EditInv
<1>4. CASE Restart  BY <1>4, RestartInv
<1>5. CASE UNCHANGED vars
  <2>1. UNCHANGED <<spec, config, edits, desired, provider, step, asked, dirs, disk,
                    gitCredDir, installed>>
    BY <1>5 DEF vars, users, copies, files, shared
  <2>2. TypeOK'  BY <2>1 DEF Inv, TypeOK
  <2>3. InstalledGrows  BY <2>1 DEF InstalledGrows
  <2>4. ASSUME NEW p \in Runs PROVE Prepared(p)'
    BY <2>1, <2>3, OthersStayPrepared DEF Inv
  <2> QED  BY <2>2, <2>4 DEF Inv
<1> QED  BY <1>1, <1>2, <1>3, <1>4, <1>5 DEF Next

-------------------------------------------------------------------------------
(* Types, for every number of AnsibleRuns, specs and workers.               *)
THEOREM WorkspaceTypes == Spec => []TypeOK
<1>1. Inv => TypeOK  BY DEF Inv
<1> QED  BY <1>1, InitInv, NextInv, PTL DEF Spec

(* Whatever earlier reconciles left and wherever they failed, and however   *)
(* many of other AnsibleRuns run at the same time, ansible-runner finds the *)
(* content, variables, state, inventory and credentials that were read.     *)
THEOREM OwnContent == Spec => []RunsOwnContent
<1>1. Inv => RunsOwnContent
  <2> SUFFICES ASSUME Inv, NEW o \in Runs, step[o] = "running"
               PROVE  /\ asked[o] # None
                      /\ cmdFunc(o).extravars = [vars |-> desired[o].vars, state |-> asked[o]]
                      /\ cmdFunc(o).playbook = desired[o].playbook
                      /\ \A i \in DOMAIN cmdFunc(o).roles :
                            cmdFunc(o).roles[i].version # None
                      /\ desired[o].hosts # None => cmdFunc(o).inventory = desired[o].hosts
                      /\ provider[o].secret # None
                         => disk[o]["credentials"] = provider[o].secret
    BY DEF RunsOwnContent
  <2>1. Prepared(o)  BY DEF Inv
  <2>2. /\ step[o] \notin InventoryDue /\ step[o] \notin ContentDue
        /\ step[o] \notin CredentialsDue
    BY DEF InventoryDue, GitDue, ContentDue, CredentialsDue
  <2>3. /\ desired[o].hosts # None => disk[o]["hosts"] = desired[o].hosts
        /\ desired[o].roles = <<>> /\ desired[o].playbook # None
           => disk[o]["playbook"] = desired[o].playbook
        /\ provider[o].secret # None => disk[o]["credentials"] = provider[o].secret
    BY <2>1, <2>2 DEF Prepared, FilesWritten
  <2>4. /\ desired[o].playbook = None <=> desired[o].roles # <<>>
        /\ disk[o]["extravars"] = [vars |-> desired[o].vars, state |-> asked[o]]
        /\ asked[o] # None
    BY <2>1 DEF Prepared, RunnerReady
  <2>5. /\ cmdFunc(o).inventory = disk[o]["hosts"]
        /\ cmdFunc(o).extravars = disk[o]["extravars"]
        /\ cmdFunc(o).playbook = desired[o].playbook
    BY <2>3, <2>4 DEF cmdFunc
  <2>6. \A i \in DOMAIN cmdFunc(o).roles : cmdFunc(o).roles[i].version # None
    <3>1. CASE desired[o].roles = <<>>
      <4>1. cmdFunc(o).roles = <<>>  BY <3>1 DEF cmdFunc
      <4> QED  BY <4>1
    <3>2. CASE desired[o].roles # <<>>
      <4>1. desired[o].roles \in Seq(Role)  BY Read, SpecFields DEF Inv
      <4>2. 1 \in DOMAIN desired[o].roles /\ Head(desired[o].roles) = desired[o].roles[1]
        BY <3>2, <4>1
      <4>3. installed[RolePathOf(o)][Head(desired[o].roles).name] # None
        BY <2>1, <4>2 DEF Prepared, RolesThere
      <4>4. cmdFunc(o).roles =
              <<[name |-> Head(desired[o].roles).name,
                 version |-> installed[RolePathOf(o)][Head(desired[o].roles).name]]>>
        BY <3>2 DEF cmdFunc
      <4> QED  BY <4>3, <4>4
    <3> QED  BY <3>1, <3>2
  <2> QED  BY <2>3, <2>4, <2>5, <2>6
<1> QED  BY <1>1, InitInv, NextInv, PTL DEF Spec

(* Where every spec has an inventory, each run is given its own: only an    *)
(* edit that takes the inventory away leaves an old one to be found.        *)
THEOREM OwnInventoryGiven ==
    ASSUME \A s \in Specs : s.hosts # None
    PROVE  Spec => []OwnInventory
<1>1. TypeOK /\ RunsOwnContent => OwnInventory
  BY Read DEF RunsOwnContent, OwnInventory
<1> QED BY <1>1, WorkspaceTypes, OwnContent, PTL

-------------------------------------------------------------------------------
(* With one worker, one reconcile has GIT_CRED_DIR for itself from Setenv   *)
(* to its end.                                                              *)

OneBusy ==
    \A o, p \in Runs : step[o] # "idle" /\ step[p] # "idle" => o = p

VariableOwn ==
    \A o \in Runs :
        step[o] \notin GitDue /\ provider[o].git # None => gitCredDir = o

(* What a step of a reconcile may do to GIT_CRED_DIR.                       *)
LEMMA MovesOf ==
    ASSUME TypeOK, NEW o \in Runs,
           Prepare(o) \/ Use(o) \/ Disconnect(o) \/ Fail(o) \/ Edit(o), ~Connect(o)
    PROVE  /\ UNCHANGED <<desired, provider>>
           /\ \A p \in Runs \ {o} : step'[p] = step[p]
           /\ step'[o] # "idle" => step[o] # "idle"
           /\ step'[o] \notin GitDue /\ provider[o].git # None
              => step[o] \notin GitDue \/ gitCredDir' = o
           /\ step[o] # "git" => UNCHANGED gitCredDir
<1> DEFINE moves(next) == /\ step'[o] = next
                         /\ \A p \in Runs \ {o} : step'[p] = step[p]
<1>0. \A next : Goto(o, next) => moves(next)  BY DEF Goto, TypeOK
<1>1. CASE WriteInventory(o)
  BY <1>0, <1>1 DEF WriteInventory, copies, shared, GitDue, InventoryDue
<1>2. CASE WriteGitCredentials(o)
  BY <1>0, <1>2 DEF WriteGitCredentials, Due, copies, GitDue, InventoryDue
<1>3. CASE WritePlaybook(o) \/ WriteCredentials(o)
  BY <1>0, <1>3 DEF WritePlaybook, WriteCredentials, copies, shared, GitDue, InventoryDue
<1>4. CASE WriteRequirements(o)
  <2>1. /\ step[o] = "requirements"
        /\ \E next : Goto(o, next)
        /\ UNCHANGED <<copies, shared>>
    BY <1>4 DEF WriteRequirements
  <2> QED  BY <1>0, <2>1 DEF copies, shared, GitDue, InventoryDue
<1>5. CASE InstallCollections(o) \/ InstallRoles(o) \/ InitRunner(o)
  BY <1>0, <1>5 DEF InstallCollections, InstallRoles, InitRunner, copies, shared,
              GitDue, InventoryDue
<1>6. CASE Use(o)
  BY <1>0, <1>6 DEF Use, WriteExtraVar, Update, EndRun, copies, shared,
              GitDue, InventoryDue
<1>7. CASE Disconnect(o) \/ Fail(o)
  BY <1>0, <1>7 DEF Disconnect, Fail, copies, shared, GitDue, InventoryDue
<1>8. CASE Edit(o)
  BY <1>8 DEF Edit, copies, shared
<1> QED  BY <1>1, <1>2, <1>3, <1>4, <1>5, <1>6, <1>7, <1>8 DEF Prepare

(* With one worker a reconcile begins when there is no other.               *)
LEMMA ConnectAlone ==
    ASSUME MaxReconciles = 1, NEW o \in Runs, Connect(o)
    PROVE  \A p \in Runs : step[p] = "idle"
<1> DEFINE busy == {q \in Runs : step[q] # "idle"}
<1>1. IsFiniteSet(busy)
  BY WorkspaceAssumption, FS_Subset
<1>2. Cardinality(busy) < 1  BY DEF Connect
<1>3. Cardinality(busy) = 0
  <2> HIDE DEF busy
  <2>1. Cardinality(busy) \in Nat  BY <1>1, FS_CardinalityType
  <2> QED  BY <1>2, <2>1
<1>4. busy = {}
  <2> HIDE DEF busy
  <2> QED  BY <1>1, <1>3, FS_EmptySet
<1> QED  BY <1>4

LEMMA CredentialsNext ==
    ASSUME MaxReconciles = 1, TypeOK, OneBusy, VariableOwn, [Next]_vars
    PROVE  OneBusy' /\ VariableOwn'
<1>1. ASSUME NEW o \in Runs, Connect(o)
      PROVE  OneBusy' /\ VariableOwn'
  <2>1. \A p \in Runs \ {o} : step'[p] = "idle"
    BY <1>1, ConnectAlone DEF Connect, Goto, TypeOK
  <2>2. step'[o] = "inventory"  BY <1>1 DEF Connect, Goto, TypeOK
  <2> QED  BY <2>1, <2>2 DEF OneBusy, VariableOwn, GitDue, InventoryDue
<1>2. ASSUME NEW o \in Runs, ~Connect(o),
             Prepare(o) \/ Use(o) \/ Disconnect(o) \/ Fail(o) \/ Edit(o)
      PROVE  OneBusy' /\ VariableOwn'
  <2>1. /\ UNCHANGED <<desired, provider>>
        /\ \A p \in Runs \ {o} : step'[p] = step[p]
        /\ step'[o] # "idle" => step[o] # "idle"
        /\ step'[o] \notin GitDue /\ provider[o].git # None
           => step[o] \notin GitDue \/ gitCredDir' = o
        /\ step[o] # "git" => UNCHANGED gitCredDir
    BY <1>2, MovesOf
  <2>2. OneBusy'  BY <2>1 DEF OneBusy
  <2>3. ASSUME NEW p \in Runs, step'[p] \notin GitDue, provider'[p].git # None
        PROVE  gitCredDir' = p
    <3>1. CASE p = o
      BY <2>1, <2>3, <3>1 DEF VariableOwn, GitDue, InventoryDue
    <3>2. CASE p # o
      <4>1. step[p] # "idle" /\ step[p] \notin GitDue
        BY <2>1, <2>3, <3>2 DEF GitDue, InventoryDue
      <4>2. step[o] # "git"  BY <3>2, <4>1 DEF OneBusy
      <4> QED  BY <2>1, <2>3, <4>1, <4>2 DEF VariableOwn
    <3> QED  BY <3>1, <3>2
  <2> QED  BY <2>2, <2>3 DEF VariableOwn
<1>3. CASE Restart
  BY <1>3 DEF Restart, OneBusy, VariableOwn, GitDue, InventoryDue
<1>4. CASE UNCHANGED vars
  BY <1>4 DEF vars, copies, shared, OneBusy, VariableOwn
<1>5. CASE Next
  <2>1. \/ \E o \in Runs : Prepare(o) \/ Use(o) \/ Disconnect(o) \/ Fail(o) \/ Edit(o)
        \/ Restart
    BY <1>5 DEF Next
  <2> QED  BY <1>1, <1>2, <1>3, <2>1
<1> QED  BY <1>4, <1>5

(* With --max-reconcile-rate 1, ansible-galaxy finds the credentials of the *)
(* ProviderConfig it installs for, however reconciles fail and users edit.  *)
THEOREM OneWorkerOwnCredentials == MaxReconciles = 1 => (Spec => []OwnCredentials)
<1> SUFFICES ASSUME MaxReconciles = 1 PROVE Spec => []OwnCredentials  OBVIOUS
<1> DEFINE IInv == Inv /\ OneBusy /\ VariableOwn
<1>1. Init => IInv
  <2>1. Init => OneBusy /\ VariableOwn
    BY DEF Init, OneBusy, VariableOwn, GitDue, InventoryDue
  <2> QED  BY <2>1, InitInv
<1>2. IInv /\ [Next]_vars => IInv'
  <2>1. Inv => TypeOK  BY DEF Inv
  <2> QED  BY <2>1, NextInv, CredentialsNext
<1>3. IInv => OwnCredentials
  <2> SUFFICES ASSUME IInv, NEW o \in Runs, step[o] \in {"collections", "roles"},
                      provider[o].git # None
               PROVE  gitCredDir = o /\ disk[o]["git"] = provider[o].git
    BY DEF OwnCredentials
  <2>1. step[o] \notin GitDue  BY DEF GitDue, InventoryDue
  <2> QED  BY <2>1 DEF Inv, Prepared, FilesWritten, VariableOwn
<1> QED  BY <1>1, <1>2, <1>3, PTL DEF Spec

===============================================================================
