----------------------------- MODULE MCWorkspace -----------------------------
(***************************************************************************)
(* Small instances of Workspace: specs that differ in what they leave out,  *)
(* which is where files of an earlier spec may be found.                    *)
(***************************************************************************)
EXTENDS Workspace

CONSTANTS o1, o2, c1, c2, r1, r2, p1, p2

OneRun == {o1}
TwoRuns == {o1, o2}
TwoContents == {c1, c2}
TwoRoles == {r1, r2}
TwoPaths == {p1, p2}
TwoVersions == {1, 2}

PlaybookOf(content, hosts, variables) ==
    [playbook |-> content, hosts |-> hosts, vars |-> variables, roles |-> <<>>]

RolesOf(listed) == [playbook |-> None, hosts |-> None, vars |-> None, roles |-> listed]

RoleV(name, version) == [name |-> name, version |-> version]

FullPlaybook == PlaybookOf(c1, c1, c1)
BarePlaybook == PlaybookOf(c2, None, None)
OneRole == RolesOf(<<RoleV(r1, 1)>>)
NewerRole == RolesOf(<<RoleV(r1, 2)>>)
ManyRoles == RolesOf(<<RoleV(r1, 2), RoleV(r2, 1)>>)
Both == [FullPlaybook EXCEPT !.roles = <<RoleV(r1, 1)>>]

AllSpecs == {FullPlaybook, BarePlaybook, OneRole, ManyRoles, Both}
PlaybookSpecs == {FullPlaybook, BarePlaybook}
RoleSpecs == {OneRole, NewerRole}

Plain == [git |-> None, secret |-> None, requirements |-> None, rolePath |-> None]
Private == [git |-> c1, secret |-> c1, requirements |-> None, rolePath |-> None]
Requiring == [git |-> c2, secret |-> c2, requirements |-> <<RoleV(r2, 1)>>, rolePath |-> p2]

AllConfigs == {Plain, Private, Requiring}
PlainConfigs == {Plain}
PrivateConfigs == {Private}

===============================================================================
