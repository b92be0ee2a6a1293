------------------------------- MODULE DaoOrgs -------------------------------
(***************************************************************************)
(* Organisations and teams of the DAO database (dao/modules/org-crud.ts,   *)
(* team-crud.ts), with the constraints of dao/schema.ts.  PostgreSQL is at *)
(* READ COMMITTED: a statement outside a transaction is one step; the      *)
(* insert of a slug that another transaction has inserted waits for it, so *)
(* that it is the first step of a transaction only when there is no other. *)
(***************************************************************************)
EXTENDS Naturals, FiniteSets

CONSTANTS
  Slugs,     \* slugs; they stand for the organisations too, which they identify
  Users,
  Teams,     \* ids the database gives to teams
  Creators   \* connections that create organisations

ASSUME OrgsAssumption == "none" \notin Slugs \cup Users

VARIABLES
  orgs,        \* organizations: the owner of each, "none" when there is no row
  orgMembers,  \* org_members: a role for each user of an organisation, "none" without a row
  teams,       \* teams: the organisation of each, "none" when there is no row
  teamMembers, \* team_members
  inserting,    \* create: the transaction of each connection
  answers,     \* creations that were answered with success, for each slug (history)
  unanswered,  \* slugs whose COMMIT was made and its answer lost (history)
  ownerChanged \* organisations whose owner's row was written by addMember or removeMember (history)

orgVars == <<orgs, orgMembers, teams, teamMembers, inserting, answers, unanswered, ownerChanged>>

OrgRoles == {"owner", "admin", "member"}
TeamRoles == {"lead", "member"}
NoCreation == [step |-> "none"]

OrgsInit ==
  /\ orgs = [s \in Slugs |-> "none"] /\ teams = [t \in Teams |-> "none"]
  /\ orgMembers = [s \in Slugs |-> [u \in Users |-> "none"]]
  /\ teamMembers = [t \in Teams |-> [u \in Users |-> "none"]]
  /\ inserting = [c \in Creators |-> NoCreation]
  /\ answers = [s \in Slugs |-> 0] /\ unanswered = {} /\ ownerChanged = {}

-----------------------------------------------------------------------------
Uncommitted(c) == inserting[c].step \in {"inserted", "owned"}
InFlightSlugs == {inserting[c].slug : c \in {d \in Creators : Uncommitted(d)}}

\* A fault: there is no BEGIN, each INSERT is a transaction of its own.
InsertedRow(s, u) == [orgs EXCEPT ![s] = u]
\* The row is not seen by others before the COMMIT.
UnseenRow(s, u) == orgs

\* BEGIN and the first INSERT.  A slug that is taken fails the insert: ROLLBACK, nothing changes.
CreateOrg(c, s, u) ==
  /\ inserting[c] = NoCreation /\ orgs[s] = "none" /\ s \notin InFlightSlugs
  /\ inserting' = [inserting EXCEPT ![c] = [step |-> "inserted", slug |-> s, owner |-> u]]
  /\ orgs' = UnseenRow(s, u)
  /\ UNCHANGED <<orgMembers, teams, teamMembers, answers, unanswered, ownerChanged>>

InsertOwner(c) ==
  /\ inserting[c].step = "inserted"
  /\ inserting' = [inserting EXCEPT ![c].step = "owned"]
  /\ UNCHANGED <<orgs, orgMembers, teams, teamMembers, answers, unanswered, ownerChanged>>

\* COMMIT makes both rows visible, before its answer is there.
CommitOrg(c) ==
  /\ inserting[c].step = "owned"
  /\ LET s == inserting[c].slug
         u == inserting[c].owner
     IN  /\ orgs' = [orgs EXCEPT ![s] = u]
         /\ orgMembers' = [orgMembers EXCEPT ![s][u] = "owner"]
  /\ inserting' = [inserting EXCEPT ![c].step = "committed"]
  /\ UNCHANGED <<teams, teamMembers, answers, unanswered, ownerChanged>>
\* create answers with the organisation, or throws although the rows are there: the answer was lost.
CommitAnswered(c, ok) ==
  /\ inserting[c].step = "committed"
  /\ LET s == inserting[c].slug
     IN  /\ answers' = IF ok THEN [answers EXCEPT ![s] = @ + 1] ELSE answers
         /\ unanswered' = IF ok THEN unanswered ELSE unanswered \cup {s}
  /\ inserting' = [inserting EXCEPT ![c] = NoCreation]
  /\ UNCHANGED <<orgs, orgMembers, teams, teamMembers, ownerChanged>>

\* ROLLBACK, or the connection is lost before the COMMIT.
RollbackOrg(c) ==
  /\ Uncommitted(c)
  /\ inserting' = [inserting EXCEPT ![c] = NoCreation]
  /\ UNCHANGED <<orgs, orgMembers, teams, teamMembers, answers, unanswered, ownerChanged>>

\* An upsert: a member that is there gets the new role, the owner too.
AddMember(s, u, role) ==
  /\ orgs[s] # "none"
  /\ orgMembers' = [orgMembers EXCEPT ![s][u] = role]
  /\ ownerChanged' = IF u = orgs[s] THEN ownerChanged \cup {s} ELSE ownerChanged
  /\ UNCHANGED <<orgs, teams, teamMembers, inserting, answers, unanswered>>

RemoveMember(s, u) ==
  /\ orgMembers' = [orgMembers EXCEPT ![s][u] = "none"]
  /\ ownerChanged' = IF u = orgs[s] THEN ownerChanged \cup {s} ELSE ownerChanged
  /\ UNCHANGED <<orgs, teams, teamMembers, inserting, answers, unanswered>>

IsMember(s, u) == orgMembers[s][u] # "none"
GetMembers(s) == {u \in Users : IsMember(s, u)}

-----------------------------------------------------------------------------
CreateTeam(t, s) ==
  /\ teams[t] = "none" /\ orgs[s] # "none"
  /\ teams' = [teams EXCEPT ![t] = s]
  /\ UNCHANGED <<orgs, orgMembers, teamMembers, inserting, answers, unanswered, ownerChanged>>
ListByOrg(s) == {t \in Teams : teams[t] = s}

\* A member of a team need not be one of its organisation.
AddTeamMember(t, u, role) ==
  /\ teams[t] # "none"
  /\ teamMembers' = [teamMembers EXCEPT ![t][u] = role]
  /\ UNCHANGED <<orgs, orgMembers, teams, inserting, answers, unanswered, ownerChanged>>
RemoveTeamMember(t, u) ==
  /\ teamMembers' = [teamMembers EXCEPT ![t][u] = "none"]
  /\ UNCHANGED <<orgs, orgMembers, teams, inserting, answers, unanswered, ownerChanged>>

OrgsNext ==
  \/ \E c \in Creators, s \in Slugs, u \in Users : CreateOrg(c, s, u)
  \/ \E c \in Creators : InsertOwner(c) \/ CommitOrg(c) \/ RollbackOrg(c) \/ \E ok \in BOOLEAN : CommitAnswered(c, ok)
  \/ \E s \in Slugs, u \in Users : RemoveMember(s, u) \/ \E role \in OrgRoles : AddMember(s, u, role)
  \/ \E t \in Teams, s \in Slugs : CreateTeam(t, s)
  \/ \E t \in Teams, u \in Users : RemoveTeamMember(t, u) \/ \E role \in TeamRoles : AddTeamMember(t, u, role)

OrgsSpec == OrgsInit /\ [][OrgsNext]_orgVars

OrgsTypeOK ==
  /\ orgs \in [Slugs -> Users \cup {"none"}] /\ orgMembers \in [Slugs -> [Users -> OrgRoles \cup {"none"}]]
  /\ teams \in [Teams -> Slugs \cup {"none"}] /\ teamMembers \in [Teams -> [Users -> TeamRoles \cup {"none"}]]
  /\ ownerChanged \subseteq Slugs

\* An organisation comes with its owner or not at all, and once (dao/modules/org-crud.ts, create):
\* whatever fails between the two inserts, at the COMMIT or after it, an organisation that is there
\* has its owner among its members until someone writes that row, one that is not has no members
\* and no teams, and of several requests for one slug at most one is answered with success: one,
\* unless the answer of the database was lost.
OwnedFromTheStart ==
  \A s \in Slugs :
    /\ orgs[s] # "none" => s \in ownerChanged \/ orgMembers[s][orgs[s]] = "owner"
    /\ orgs[s] = "none" => GetMembers(s) = {} /\ ListByOrg(s) = {} /\ answers[s] = 0 /\ s \notin unanswered
    /\ answers[s] <= 1 /\ (answers[s] = 1 => s \notin unanswered)
    /\ orgs[s] # "none" => \/ answers[s] = 1 \/ s \in unanswered
                           \/ \E c \in Creators : inserting[c].step = "committed" /\ inserting[c].slug = s
=============================================================================
