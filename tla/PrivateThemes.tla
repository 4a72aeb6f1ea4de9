---------------------------- MODULE PrivateThemes ----------------------------
(***************************************************************************)
(* Private themes (guif/theme_store.py, runtime/private_theme.py): version *)
(* files that are meant to be immutable, an index file with the latest     *)
(* version, and the binding files of a conversation and of its project,    *)
(* which name a version and the hash of its content.                       *)
(*                                                                         *)
(* A call reads what it needs and then makes one write after another:      *)
(* `todo' holds the writes that are left of it.  Processes take turns      *)
(* between any two writes, and one that dies leaves the rest undone.  What  *)
(* a call reads only just before a write is read by that write's step.     *)
(***************************************************************************)
EXTENDS Naturals, Sequences, FiniteSets

CONSTANTS
    Themes,      \* identities of themes
    Sources,     \* identities (hashes) of imported images
    MaxVersions, \* bound of the model: versions of one theme
    MaxLooks,    \* bound of the model: contents that are made
    Scopes,      \* bound of the model: the sets of features that are explored
                 \* together; a behaviour keeps to one of them
    None

host == "host"          \* serves the conversation
cli == "cli"            \* a command line beside it
operator == "operator"  \* makes and restores backups
Processes == {host, cli, operator}
Kinds == {"conversation", "project"}

VARIABLES
    versions, \* [Themes -> [1..MaxVersions -> the look in the file, or None]]
    index,    \* [Themes -> latest_version in index.json, 0 without the file]
    bound,    \* [Kinds -> the theme_ref of the binding file, or None]
    looks,    \* every content made so far, each the sources it refers to; a
              \* look is a place in this sequence and stands for its hash too
    legacy,   \* the project still has a theme file of its own
    todo,     \* [Processes -> the writes left of the call]
    scope     \* the features of this behaviour

themeVars == <<versions, index, bound, looks, legacy>>

(***************************************************************************)
(* Calls                                                                   *)
(***************************************************************************)

On(feature) == feature \in scope
Idle(p) == todo[p] = <<>>
Call(p, writes) == Idle(p) /\ writes # <<>> /\ todo' = [todo EXCEPT ![p] = writes]

Next1(p) == Head(todo[p])
Writes(p, file) == ~Idle(p) /\ Next1(p).file = file
Goes(p) == todo' = [todo EXCEPT ![p] = Tail(@)]
Raises(p) == todo' = [todo EXCEPT ![p] = <<>>]

(***************************************************************************)
(* Reading                                                                 *)
(***************************************************************************)

Refs == [theme : Themes, n : 1..MaxVersions, look : Nat \ {0}]

\* A theme has a first version, and None is no reference and no look.
ASSUME ThemesAssumption ==
    /\ MaxVersions \in Nat \ {0} /\ MaxLooks \in Nat \ {0}
    /\ None \notin Nat \cup Refs

\* PrivateThemeStore.get finds the version.
Known(t, n) == index[t] # 0 /\ n \in 1..MaxVersions /\ versions[t][n] # None
Ref(t, n) == [theme |-> t, n |-> n, look |-> versions[t][n]]

\* Mutant: the hash is not compared.
Good_AnyContent(ref) == ref # None /\ Known(ref.theme, ref.n)

\* A reference is good if its version still has the content it was made for:
\* resolve() for bindings, _rehydrate_theme() for tasks.
Good(ref) == ref # None /\ Known(ref.theme, ref.n) /\ versions[ref.theme][ref.n] = ref.look

\* resolve: the binding of the conversation, or else of the project.
Binding == IF bound["conversation"] # None THEN bound["conversation"] ELSE bound["project"]
Resolves == Binding = None \/ Good(Binding)

\* prepare_conversation: without a binding of its own the conversation needs
\* the user's choice; a binding that is not good makes it raise.
Selected == bound["conversation"] # None
Viewable == Selected => Good(bound["conversation"])

(***************************************************************************)
(* The writes of a call                                                    *)
(***************************************************************************)

Version(t, n, srcs) == [file |-> "version", theme |-> t, n |-> n, srcs |-> srcs]
Index(t, n) == [file |-> "index", theme |-> t, n |-> n]
Bind(k, t, n) == [file |-> "binding", kind |-> k, theme |-> t, n |-> n]

Bindings(kinds, t, n) ==
    (IF "conversation" \in kinds THEN <<Bind("conversation", t, n)>> ELSE <<>>) \o
    (IF "project" \in kinds THEN <<Bind("project", t, n)>> ELSE <<>>)

CanMake == Len(looks) < MaxLooks

\* create: a new identity, its first version, its index.
CanCreate(t) == CanMake /\ index[t] = 0 /\ versions[t][1] = None
Create(t, srcs, kinds) == <<Version(t, 1, srcs), Index(t, 1)>> \o Bindings(kinds, t, 1)

\* derive: the version after the one that the index has now.
CanDerive(t, n) == CanMake /\ Known(t, n) /\ index[t] < MaxVersions
Derive(t, n, srcs, kinds) ==
    LET next == index[t] + 1
    IN  <<Version(t, next, looks[versions[t][n]] \cup srcs), Index(t, next)>>
        \o Bindings(kinds, t, next)

WriteVersion(p) ==
    /\ Writes(p, "version") /\ CanMake /\ Goes(p)
    /\ looks' = Append(looks, Next1(p).srcs)
    /\ versions' = [versions EXCEPT ![Next1(p).theme][Next1(p).n] = Len(looks) + 1]
    /\ UNCHANGED <<index, bound, legacy>>

WriteIndex(p) ==
    /\ Writes(p, "index") /\ Goes(p)
    /\ index' = [index EXCEPT ![Next1(p).theme] = Next1(p).n]
    /\ UNCHANGED <<versions, bound, looks, legacy>>

\* _bind reads the version that it binds to.
WriteBinding(p) ==
    /\ Writes(p, "binding") /\ Goes(p)
    /\ bound' = [bound EXCEPT ![Next1(p).kind] = Ref(Next1(p).theme, Next1(p).n)]
    /\ UNCHANGED <<versions, index, looks, legacy>>

\* The legacy theme file is removed once it is a private theme.
Unlink(p) ==
    /\ Writes(p, "legacy") /\ Goes(p)
    /\ legacy' = FALSE
    /\ UNCHANGED <<versions, index, bound, looks>>

WriteTheme(p) == WriteVersion(p) \/ WriteIndex(p) \/ WriteBinding(p) \/ Unlink(p)

(***************************************************************************)
(* Calls of the command line                                               *)
(***************************************************************************)

DeriveFromCli(t, n, kinds) == CanDerive(t, n) /\ Call(cli, Derive(t, n, {}, kinds))

\* Mutant: a version that is not there is bound to.
BindFromCli_Unknown(k, t, n) == Call(cli, Bindings({k}, t, n))

BindFromCli(k, t, n) == Known(t, n) /\ Call(cli, Bindings({k}, t, n))

\* migrate_legacy_project: create, remove the file, then bind the project.
Migrate(t) ==
    /\ legacy /\ CanCreate(t)
    /\ Call(cli, Create(t, {}, {}) \o <<[file |-> "legacy"], Bind("project", t, 1)>>)

CliThemes ==
    /\ On("cli")
    /\ \E t \in Themes :
          \/ \E n \in 1..MaxVersions, kinds \in {{}, {"project"}, {"conversation"}} :
                DeriveFromCli(t, n, kinds)
          \/ \E n \in 1..MaxVersions, k \in Kinds : BindFromCli(k, t, n)
          \/ Migrate(t)
    /\ UNCHANGED themeVars

(***************************************************************************)
(* States                                                                  *)
(***************************************************************************)

\* Either a theme was made before, or there is none and the project may have a
\* theme file of its own to migrate.
InitThemes ==
    \E t \in Themes :
       \/ /\ versions = [u \in Themes |-> [n \in 1..MaxVersions |-> IF u = t /\ n = 1 THEN 1 ELSE None]]
          /\ index = [u \in Themes |-> IF u = t THEN 1 ELSE 0]
          /\ looks = <<{}>>
          /\ legacy = FALSE
          /\ bound \in {[k \in Kinds |-> None],
                        [k \in Kinds |-> IF k = "conversation" THEN Ref(t, 1) ELSE None]}
       \/ /\ On("cli") \/ On("sources")
          /\ legacy = On("cli")
          /\ versions = [u \in Themes |-> [n \in 1..MaxVersions |-> None]]
          /\ index = [u \in Themes |-> 0] /\ looks = <<>>
          /\ bound = [k \in Kinds |-> None]

ThemesOK ==
    /\ versions \in [Themes -> [1..MaxVersions -> (1..Len(looks)) \cup {None}]]
    /\ index \in [Themes -> 0..MaxVersions]
    /\ bound \in [Kinds -> Refs \cup {None}]
    /\ looks \in Seq(SUBSET Sources) /\ legacy \in BOOLEAN /\ scope \in Scopes
=============================================================================
