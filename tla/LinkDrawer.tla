------------------------------ MODULE LinkDrawer ------------------------------
(* The drawer of the design-document screen that links the selected database to a      *)
(* repository, or changes the link (plugins/design-mgmt/design-list.ts, git-sync-ui.ts):  *)
(* the accounts, the repositories of one, the branches of one, the form.  Every step     *)
(* loads the next list; a load is not matched to what is selected when it answers.        *)
EXTENDS Naturals, FiniteSets

CONSTANTS
  Accounts, Repos, AccountOf, OwnerOf,  \* accounts at the provider, their repositories
  Branches, DefaultBranch, Paths, Root, \* of every repository; the path "/"
  MaxLoads,       \* bound: loads under way
  MaxPicks,       \* bound: choices made in the drawer
  None

VARIABLES
  link,           \* the registration of this database: [account, repo, branch, path]
  repoId, repoAccountId, \* what the screen knows of it
  open, manage,   \* showGitDrawer, manageMode
  stored, listed, loadingAccounts, showAccountForm, \* accounts there are; gitAccounts
  account, repos, owner, repo, loadingRepos, \* selectedAccountId, availableRepos, ...
  branches,       \* the repository whose branches are offered
  current,        \* currentBranch and currentPath, or None
  form,           \* cca-form: [branch, path] (branch None until picked), or None
  pending,        \* pendingUpdateData, or None
  loads,          \* calls under way
  prompt,         \* the load that the token prompt would repeat, or None
  picked,         \* history: the branch picked for the repository selected now
  crossed,        \* history: two calls were under way at once
  picks

link_ == <<link, repoId, repoAccountId>>
lists == <<listed, loadingAccounts, showAccountForm, stored>>
choice == <<account, repos, owner, repo, loadingRepos, branches>>
vars == <<link_, open, manage, lists, choice, current, form, pending, loads, prompt, picked,
          crossed, picks>>

ReposOf(a) == {r \in Repos : AccountOf[r] = a}
Owners(rs) == {OwnerOf[r] : r \in rs}
Owned(rs, o) == {r \in rs : OwnerOf[r] = o}
Only(S) == IF Cardinality(S) = 1 THEN CHOOSE s \in S : TRUE ELSE None

\* Which of its contents the drawer shows.
RepoSelection(o, l, busy, new, a) == o /\ ~busy /\ ~new /\ l # {} /\ a # None
ShowsRepos == RepoSelection(open, listed, loadingAccounts, showAccountForm, account)
ShowsAccounts == open /\ ~loadingAccounts /\ ~showAccountForm /\ listed # {} /\ account = None
ShowsForm == open /\ ~loadingAccounts /\ (showAccountForm \/ listed = {})

\* A form is made with the repository choice, and goes with it.
FormNow(new) ==
  form' = IF ~new THEN None
          ELSE IF form # None THEN form
          ELSE [branch |-> None,
                path |-> IF manage' /\ current' # None THEN current'.path ELSE None]
Rendered ==
  FormNow(RepoSelection(open', listed', loadingAccounts', showAccountForm', account'))

Ask(l) ==
  /\ Cardinality(loads) < MaxLoads
  /\ loads' = loads \union {l} /\ crossed' = (crossed \/ loads # {} \/ prompt # None)
Pick == picks < MaxPicks /\ picks' = picks + 1

Init ==
  /\ \E a \in SUBSET Accounts : stored = a
  /\ \/ link = None
     \/ \E r \in Repos : \E b \in Branches : \E p \in Paths :
          /\ AccountOf[r] \in stored
          /\ link = [account |-> AccountOf[r], repo |-> r, branch |-> b, path |-> p]
  /\ repoId = (IF link = None THEN None ELSE link.repo)
  /\ repoAccountId = (IF link = None THEN None ELSE link.account)
  /\ open = FALSE /\ manage = FALSE /\ listed = {} /\ loadingAccounts = FALSE
  /\ showAccountForm = FALSE /\ account = None /\ repos = {} /\ owner = None /\ repo = None
  /\ loadingRepos = FALSE /\ branches = None /\ current = None /\ form = None
  /\ pending = None /\ loads = {} /\ prompt = None /\ picked = None
  /\ crossed = FALSE /\ picks = 0

-------------------------------------------------------------------------------
(* Opening, closing, accounts. *)

openAccountDrawer ==
  /\ ~open /\ repoId = None /\ Pick
  /\ open' = TRUE /\ manage' = FALSE /\ loadingAccounts' = TRUE
  /\ account' = None /\ repos' = {} /\ current' = None /\ picked' = None
  /\ Ask([kind |-> "accounts"])
  /\ UNCHANGED <<link_, listed, showAccountForm, stored, owner, repo, loadingRepos, branches,
                 pending, prompt>>
  /\ Rendered

\* getGitAccounts; on failure the form to connect one is shown.
AccountsLoaded ==
  /\ [kind |-> "accounts"] \in loads /\ loads' = loads \ {[kind |-> "accounts"]}
  /\ listed' \in {stored, {}} /\ showAccountForm' = (listed' = {}) /\ loadingAccounts' = FALSE
  /\ UNCHANGED <<link_, open, manage, stored, choice, current, pending, prompt, picked,
                 crossed, picks>>
  /\ Rendered

openManageRepoDrawer ==
  /\ ~open /\ repoId # None /\ Pick
  /\ open' = TRUE /\ manage' = TRUE /\ loadingAccounts' = TRUE /\ picked' = None
  /\ Ask([kind |-> "details"])
  /\ UNCHANGED <<link_, listed, showAccountForm, stored, choice, current, pending, prompt>>
  /\ Rendered

\* wa-after-hide, whoever closed the drawer.
Hide ==
  /\ open' = FALSE /\ manage' = FALSE /\ showAccountForm' = FALSE
  /\ account' = None /\ repos' = {} /\ current' = None /\ form' = None

CloseDrawer ==
  /\ open /\ Hide
  /\ UNCHANGED <<link_, listed, loadingAccounts, stored, owner, repo, loadingRepos, branches,
                 pending, loads, prompt, picked, crossed, picks>>

\* loadReposForAccount: what was chosen of the account before goes at once.
StartRepos(a, then, of, others) ==
  /\ loads' = others \union {[kind |-> "repos", account |-> a, then |-> then, of |-> of]}
  /\ Cardinality(loads') <= MaxLoads
  /\ loadingRepos' = TRUE /\ repos' = {} /\ owner' = None /\ repo' = None /\ branches' = None
  /\ account' = a /\ picked' = None

\* _renderAccountSelection
SelectAccount ==
  /\ ShowsAccounts /\ Pick
  /\ \E a \in listed : StartRepos(a, "pick", None, loads)
  /\ crossed' = (crossed \/ loads # {} \/ prompt # None)
  /\ UNCHANGED <<link_, open, manage, lists, current, pending, prompt>>
  /\ Rendered

ConnectNewAccount ==
  /\ ShowsAccounts /\ Pick /\ showAccountForm' = TRUE
  /\ UNCHANGED <<link_, open, manage, listed, loadingAccounts, stored, choice, current,
                 pending, loads, prompt, picked, crossed>>
  /\ Rendered

ChangeAccount ==
  /\ ShowsRepos /\ Pick /\ account' = None /\ repos' = {} /\ picked' = None
  /\ UNCHANGED <<link_, open, manage, lists, owner, repo, loadingRepos, branches, current,
                 pending, loads, prompt, crossed>>
  /\ Rendered

\* The form that connects an account; a second click connects another.
handleAccountConnect ==
  /\ ShowsForm /\ Pick
  /\ \E a \in Accounts \ stored : Ask([kind |-> "connect", account |-> a])
  /\ UNCHANGED <<link_, open, manage, lists, choice, current, form, pending, prompt, picked>>

Connected ==
  \E l \in loads :
    /\ l.kind = "connect"
    /\ \/ /\ stored' = stored \union {l.account} /\ listed' = listed \union {l.account}
          /\ showAccountForm' = FALSE
          /\ StartRepos(l.account, "pick", None, loads \ {l})
          /\ UNCHANGED <<open, manage, loadingAccounts, current>> /\ Rendered
       \/ /\ Hide /\ loads' = loads \ {l}
          /\ UNCHANGED <<stored, listed, loadingAccounts, owner, repo, loadingRepos, branches,
                         picked>>
    /\ UNCHANGED <<link_, pending, prompt, crossed, picks>>

\* openManageRepoDrawer goes on: the details and the accounts, then the repositories.
DetailsLoaded ==
  /\ [kind |-> "details"] \in loads
  /\ \/ /\ link # None /\ listed' = stored /\ UNCHANGED loadingAccounts
        /\ StartRepos(link.account, "manage", link, loads \ {[kind |-> "details"]})
     \/ /\ loads' = loads \ {[kind |-> "details"]} /\ loadingAccounts' = FALSE
        /\ UNCHANGED <<listed, choice, picked>>
  /\ UNCHANGED <<link_, open, manage, showAccountForm, stored, current, pending, prompt,
                 crossed, picks>>
  /\ Rendered

-------------------------------------------------------------------------------
(* Repositories and branches. *)

Branching(r, then, of) == [kind |-> "branches", repo |-> r, then |-> then, of |-> of]

\* The end of openManageRepoDrawer, once the list is there: the registered repository is
\* selected, its branches loaded, and only then does the drawer show anything.
ManageGoesOn(of, rs, others) ==
  /\ current' = [branch |-> of.branch, path |-> of.path] /\ loadingRepos' = FALSE
  /\ IF of.repo \in rs
       THEN /\ repo' = of.repo /\ UNCHANGED <<loadingAccounts, showAccountForm>>
            /\ loads' = others \union {Branching(of.repo, "manage", of)}
       ELSE /\ loadingAccounts' = FALSE /\ showAccountForm' = FALSE /\ loads' = others
            /\ UNCHANGED repo

\* The list arrives: the only owner, and its only repository, are selected by themselves.
ReposLoaded ==
  \E l \in loads :
    LET only == Only(Owners(ReposOf(l.account)))
        one == IF only = None THEN None ELSE Only(Owned(ReposOf(l.account), only))
    IN /\ l.kind = "repos"
       /\ repos' = ReposOf(l.account)
       /\ owner' = (IF only # None THEN only ELSE owner)
       /\ branches' = branches
       /\ IF one # None
            THEN /\ repo' = one
                 /\ loads' = (loads \ {l}) \union
                      {Branching(one, IF l.then = "manage" THEN "both" ELSE "repos", l.of)}
                 /\ UNCHANGED <<current, loadingRepos, loadingAccounts, showAccountForm>>
          ELSE IF l.then = "manage" THEN ManageGoesOn(l.of, repos', loads \ {l})
          ELSE /\ loadingRepos' = FALSE /\ loads' = loads \ {l}
               /\ UNCHANGED <<repo, current, loadingAccounts, showAccountForm>>
       /\ UNCHANGED <<listed, stored, account>>
       /\ UNCHANGED <<link_, open, manage, pending, prompt, picked, crossed, picks>>
       /\ Rendered

ReposFail ==
  \E l \in loads :
    /\ l.kind = "repos"
    /\ IF l.then = "manage" THEN ManageGoesOn(l.of, {}, loads \ {l})
       ELSE /\ loadingRepos' = FALSE /\ loads' = loads \ {l}
            /\ UNCHANGED <<repo, current, loadingAccounts, showAccountForm>>
    /\ UNCHANGED <<listed, stored, account, repos, owner, branches>>
    /\ UNCHANGED <<link_, open, manage, pending, prompt, picked, crossed, picks>>
    /\ Rendered

\* GitTokenPrompt.run: a refused token asks for another.  One dialog: a second refusal
\* takes it over, and the load that opened it is never settled.
TokenRefused ==
  \E l \in loads :
    /\ l.kind = "repos" /\ prompt' = l /\ loads' = loads \ {l}
    /\ UNCHANGED <<link_, open, manage, lists, choice, current, form, pending, picked,
                   crossed, picks>>

\* The retry is the call again, for the account it was made for.
ConfirmToken ==
  /\ prompt # None /\ Cardinality(loads) < MaxLoads /\ Pick
  /\ loads' = loads \union {prompt} /\ prompt' = None
  /\ UNCHANGED <<link_, open, manage, lists, choice, current, form, pending, picked, crossed>>

CancelToken ==
  /\ prompt # None /\ prompt' = None
  /\ IF prompt.then = "manage" THEN ManageGoesOn(prompt.of, {}, loads)
     ELSE /\ loadingRepos' = FALSE
          /\ UNCHANGED <<repo, loads, current, loadingAccounts, showAccountForm>>
  /\ UNCHANGED <<listed, stored, account, repos, owner, branches>>
  /\ UNCHANGED <<link_, open, manage, pending, picked, crossed, picks>>
  /\ Rendered

\* _loadBranchesForRepo; when it fails the default branch is offered alone.
BranchesLoaded ==
  \E l \in loads :
    /\ l.kind = "branches" /\ branches' = l.repo
    /\ CASE l.then = "none" ->
              /\ loads' = loads \ {l}
              /\ UNCHANGED <<owner, repo, loadingRepos, current, loadingAccounts, showAccountForm>>
         [] l.then = "repos" ->
              /\ loads' = loads \ {l} /\ loadingRepos' = FALSE
              /\ UNCHANGED <<owner, repo, current, loadingAccounts, showAccountForm>>
         [] l.then = "both" ->
              ManageGoesOn(l.of, repos, loads \ {l}) /\ UNCHANGED owner
         [] l.then = "manage" ->
              /\ owner' = OwnerOf[l.repo] /\ loadingAccounts' = FALSE /\ showAccountForm' = FALSE
              /\ loads' = loads \ {l} /\ UNCHANGED <<repo, loadingRepos, current>>
    /\ UNCHANGED <<listed, stored, account, repos>>
    /\ UNCHANGED <<link_, open, manage, pending, prompt, picked, crossed, picks>>
    /\ Rendered

handleOwnerSelect ==
  /\ ShowsRepos /\ Pick
  /\ \E o \in Owners(repos) \ {owner} :
       LET one == Only(Owned(repos, o))
       IN /\ owner' = o /\ repo' = one /\ branches' = None /\ picked' = None
          /\ IF one = None THEN UNCHANGED <<loads, crossed>>
             ELSE Ask(Branching(one, "none", None))
  /\ UNCHANGED <<link_, open, manage, lists, account, repos, loadingRepos, current, form,
                 pending, prompt>>

handleRepoSelect ==
  /\ ShowsRepos /\ ~loadingRepos /\ owner # None /\ Pick
  /\ \E r \in Owned(repos, owner) \ {repo} :
       /\ repo' = r /\ picked' = None
       /\ Ask(Branching(r, "none", None))
  /\ UNCHANGED <<link_, open, manage, lists, account, repos, owner, loadingRepos, branches,
                 current, form, pending, prompt>>

handleBranchSelect ==
  /\ ShowsRepos /\ repo # None /\ branches # None /\ Pick
  /\ \E b \in Branches : picked' = b /\ form' = [form EXCEPT !.branch = b]
  /\ UNCHANGED <<link_, open, manage, lists, choice, current, pending, loads, prompt, crossed>>

TypePath ==
  /\ ShowsRepos /\ Pick
  /\ \E p \in Paths \ {form.path} : form' = [form EXCEPT !.path = p]
  /\ UNCHANGED <<link_, open, manage, lists, choice, current, pending, loads, prompt, picked,
                 crossed>>

-------------------------------------------------------------------------------
(* Registering and changing the link. *)

Filled(v, d) == IF v # None THEN v ELSE d
Request(f) ==
  [account |-> account, repo |-> repo,
   branch |-> Filled(f.branch, DefaultBranch[repo]), path |-> Filled(f.path, Root)]
Selected == ShowsRepos /\ ~loadingRepos /\ repo \in repos

handleRepoRegister ==
  /\ Selected /\ ~manage
  /\ Ask([kind |-> "register", request |-> Request(form)])
  /\ UNCHANGED <<link_, open, manage, lists, choice, current, form, pending, prompt, picked, picks>>

\* checkRepoChanges: the select shows the registered branch until another is picked.
HasRepoChanges ==
  \/ repo # repoId
  \/ current # None /\ (Filled(picked, current.branch) # current.branch
                        \/ Filled(form.path, Root) # current.path)

handleRepoUpdate ==
  /\ Selected /\ manage /\ pending = None /\ HasRepoChanges /\ pending' = form
  /\ UNCHANGED <<link_, open, manage, lists, choice, current, form, loads, prompt, picked,
                 crossed, picks>>

confirmRepoUpdate ==
  /\ pending # None /\ account # None /\ repo # None
  /\ Ask([kind |-> "register", request |-> Request(pending)])
  /\ pending' = None
  /\ UNCHANGED <<link_, open, manage, lists, choice, current, form, prompt, picked, picks>>

CancelUpdate ==
  /\ pending # None /\ pending' = None
  /\ UNCHANGED <<link_, open, manage, lists, choice, current, form, loads, prompt, picked,
                 crossed, picks>>

\* registerRepo answers: the account is the one selected by then.
Registered ==
  \E l \in loads :
    /\ l.kind = "register" /\ loads' = loads \ {l}
    /\ \/ /\ link' = l.request /\ repoId' = l.request.repo /\ repoAccountId' = account
          /\ Hide
       \/ UNCHANGED <<link_, open, manage, showAccountForm, account, repos, current, form>>
    /\ UNCHANGED <<listed, loadingAccounts, stored, owner, repo, loadingRepos, branches,
                   pending, prompt, picked, crossed, picks>>

Next ==
  \/ openAccountDrawer \/ AccountsLoaded \/ openManageRepoDrawer \/ CloseDrawer
  \/ SelectAccount \/ ConnectNewAccount \/ ChangeAccount \/ handleAccountConnect \/ Connected
  \/ DetailsLoaded \/ ReposLoaded \/ ReposFail \/ TokenRefused \/ ConfirmToken \/ CancelToken
  \/ BranchesLoaded \/ handleOwnerSelect \/ handleRepoSelect \/ handleBranchSelect \/ TypePath
  \/ handleRepoRegister \/ handleRepoUpdate \/ confirmRepoUpdate \/ CancelUpdate \/ Registered

Spec == Init /\ [][Next]_vars

-------------------------------------------------------------------------------
Links == [account : Accounts, repo : Repos, branch : Branches, path : Paths]

TypeOK ==
  /\ link \in Links \union {None} /\ stored \subseteq Accounts /\ listed \subseteq Accounts
  /\ repos \subseteq Repos /\ repo \in Repos \union {None} /\ account \in Accounts \union {None}
  /\ Cardinality(loads) <= MaxLoads /\ (form # None => form.branch \in Branches \union {None})

(* design-list.ts: the drawer offers repositories of the account that is selected, and  *)
(* the branches of the repository that is selected, once they are there - as long as no  *)
(* two calls were under way at once, for no answer is matched to the selection.           *)
OffersAreOfTheChoice ==
  ~crossed =>
    /\ account # None => repos \subseteq ReposOf(account)
    /\ loads = {} /\ ShowsRepos /\ repo # None /\ branches # None => branches = repo

(* What is registered is a repository of the account it is registered with, and the      *)
(* screen knows the registration, but not with which account if the drawer was closed     *)
(* before the answer.                                                                      *)
LinkHoldsTogether ==
  ~crossed /\ link # None =>
    /\ AccountOf[link.repo] = link.account
    /\ repoId = link.repo /\ repoAccountId \in {link.account, None}

(* An update changes what was changed in the drawer: with another path alone, the branch *)
(* stays.                                                                                  *)
UpdateKeepsTheBranchStep ==
  manage /\ link' # link /\ link # None /\ link'.repo = link.repo /\ picked = None
    => link'.branch = link.branch
UpdateKeepsTheBranch == [][UpdateKeepsTheBranchStep]_vars

(* The branch that is registered is the one picked for that repository, or its default. *)
BranchIsTheOnePickedStep ==
  \A l \in loads' \ loads : l.kind = "register" /\ ~manage
    => l.request.branch = Filled(picked, DefaultBranch[repo])
BranchIsTheOnePicked == [][BranchIsTheOnePickedStep]_vars
===============================================================================
