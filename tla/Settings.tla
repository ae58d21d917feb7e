------------------------------ MODULE Settings ------------------------------
(***************************************************************************)
(* The settings of client/config.py and the `cpip config` command: a TOML  *)
(* file that every command loads, with defaults for what is missing and    *)
(* environment variables on top, and that the command writes back whole.   *)
(*                                                                         *)
(* Commands in several terminals overlap: each loads the file, changes its *)
(* copy and writes it, truncating the file first.  Of the settings four    *)
(* are told apart: the API URL, offline mode, one (timeout, cache size...) *)
(* that only a hand-written file changes, and one (auto_cleanup) that is   *)
(* saved and never loaded.                                                 *)
(***************************************************************************)
EXTENDS Naturals, Sequences

CONSTANTS Terminals,
          Urls,        \* values of the API URL
          Quoting,     \* those with a quote or backslash, after which the file does not parse
          DefaultUrl,
          Other,       \* values of the third setting
          DefaultOther,
          Fractions,   \* those that are floats, which the serializer leaves out
          EnvUrl,      \* CPIP_API_URL in each terminal, if any
          EnvOffline,  \* whether CPIP_OFFLINE is set there
          Unset

\* What a command works with: auto_cleanup is always the default there.
Config == [url : Urls, offline : BOOLEAN, other : Other]
Defaults == [url |-> DefaultUrl, offline |-> FALSE, other |-> DefaultOther]

\* What config.toml says, as far as it says it.
File == [url : Urls \union {Unset}, offline : BOOLEAN \union {Unset},
         other : Other \union {Unset}, auto : BOOLEAN \union {Unset}]

ASSUME SettingsAssumption ==
  /\ DefaultUrl \in Urls \ Quoting /\ DefaultOther \in Other \ Fractions
  /\ Unset \notin Urls \union Other /\ Unset \notin BOOLEAN /\ Unset \notin File
  /\ EnvUrl \in [Terminals -> Urls \union {Unset}] /\ EnvOffline \in [Terminals -> BOOLEAN]

\* The changes one command line makes, in their order: --init saves what was loaded.
Changes ==
  LET SetUrl == {<<"url", u>> : u \in Urls}
      SetOffline == {<<"offline", b>> : b \in BOOLEAN}
  IN {<< <<"init">> >>} \union {<<c>> : c \in SetUrl \union SetOffline}
     \union {<<c, d>> : c \in SetUrl, d \in SetOffline}

VARIABLES
  toml,      \* config.toml: the settings, or Unset if it is missing, empty or broken
  copy,      \* CpipConfig of each command
  todo,      \* the changes it has still to save
  writing,   \* terminals that have truncated the file and not written it yet
  mixed,     \* those of them that had it open together with another one
  expected,  \* ghost: the settings as the commands announced them, one after the other, while calm
  calm       \* ghost: no overlap, kill, override or value the file cannot hold since a command
             \* started alone or the file was written by hand

settingVars == <<toml, copy, todo, writing, mixed, expected, calm>>

SettingsInit ==
  /\ toml = Unset
  /\ copy = [t \in Terminals |-> Defaults]
  /\ todo = [t \in Terminals |-> << >>]
  /\ writing = {}
  /\ mixed = {}
  /\ expected = Defaults
  /\ calm = TRUE

Or(value, default) == IF value = Unset THEN default ELSE value

\* A mutation: offline mode is saved and not loaded.
LoadTomlNotOffline(f) ==
  IF f = Unset THEN Defaults
  ELSE [url |-> Or(f.url, DefaultUrl), offline |-> FALSE, other |-> Or(f.other, DefaultOther)]

\* _load_toml and the defaults of what the file lacks; a file that cannot be read is as good
\* as absent, and auto_cleanup is not looked at.
LoadToml(f) ==
  IF f = Unset THEN Defaults
  ELSE [url |-> Or(f.url, DefaultUrl), offline |-> Or(f.offline, FALSE), other |-> Or(f.other, DefaultOther)]

\* load_config
LoadConfig(t) ==
  [LoadToml(toml) EXCEPT !.url = IF EnvUrl[t] = Unset THEN @ ELSE EnvUrl[t],
                         !.offline = @ \/ EnvOffline[t]]

\* save_config and _save_toml: strings are written between quotes as they are, floats are not
\* written, and auto_cleanup is written as the default it has.
SaveToml(c) ==
  IF c.url \in Quoting THEN Unset
  ELSE [url |-> c.url, offline |-> c.offline,
        other |-> IF c.other \in Fractions THEN Unset ELSE c.other, auto |-> TRUE]

With(c, change) ==
  CASE change[1] = "url" -> [c EXCEPT !.url = change[2]]
    [] change[1] = "offline" -> [c EXCEPT !.offline = change[2]]
    [] OTHER -> c

\* A command loads the settings.  One that starts alone goes by what it finds.
RunConfig(t, changes) ==
  /\ todo[t] = << >>
  /\ copy' = [copy EXCEPT ![t] = LoadConfig(t)]
  /\ todo' = [todo EXCEPT ![t] = changes]
  /\ calm' = (\A u \in Terminals : todo[u] = << >>)
  /\ expected' = IF ~calm' THEN Defaults ELSE IF calm THEN expected ELSE LoadToml(toml)
  /\ UNCHANGED <<toml, writing, mixed>>

\* It makes the next change to its copy; write_text empties the file.
Truncate(t) ==
  /\ todo[t] # << >> /\ t \notin writing
  /\ copy' = [copy EXCEPT ![t] = With(@, Head(todo[t]))]
  /\ toml' = Unset
  /\ writing' = writing \union {t}
  /\ mixed' = IF writing = {} THEN mixed ELSE mixed \union writing'
  /\ UNCHANGED <<todo, expected, calm>>

\* The file is written, and the command announces the change; after its last one it ends.  Of
\* what another command wrote there meanwhile a longer text sticks out at the end, and the file
\* may not parse.
WriteConfig(t) ==
  /\ t \in writing
  /\ toml' \in {SaveToml(copy[t])} \union (IF t \in mixed THEN {Unset} ELSE {})
  /\ writing' = writing \ {t}
  /\ mixed' = mixed \ {t}
  /\ LET next == With(expected, Head(todo[t])) IN
     /\ calm' = (calm /\ copy[t].url \notin Quoting /\ copy[t].other \notin Fractions
                      /\ EnvUrl[t] \in {Unset, next.url} /\ (EnvOffline[t] => next.offline))
     /\ expected' = IF calm' THEN next ELSE Defaults
  /\ todo' = [todo EXCEPT ![t] = Tail(@)]
  /\ copy' = IF todo'[t] = << >> THEN [copy EXCEPT ![t] = Defaults] ELSE copy

\* A command is killed.
KillConfig(t) ==
  /\ todo[t] # << >>
  /\ todo' = [todo EXCEPT ![t] = << >>]
  /\ writing' = writing \ {t}
  /\ mixed' = mixed \ {t}
  /\ copy' = [copy EXCEPT ![t] = Defaults]
  /\ calm' = FALSE /\ expected' = Defaults
  /\ UNCHANGED toml

\* The user writes the file.
EditByHand(f) ==
  /\ \A t \in Terminals : todo[t] = << >>
  /\ f.url \notin Quoting
  /\ toml' = f
  /\ expected' = LoadToml(f)
  /\ calm' = TRUE
  /\ UNCHANGED <<copy, todo, writing, mixed>>

SettingsNext ==
  \/ \E f \in File : EditByHand(f)
  \/ \E t \in Terminals : \/ Truncate(t) \/ WriteConfig(t) \/ KillConfig(t)
                          \/ \E changes \in Changes : RunConfig(t, changes)

SettingsSpec == SettingsInit /\ [][SettingsNext]_settingVars

-----------------------------------------------------------------------------

\* What the commands announced is what the next command loads, with every other setting as it
\* was loaded from the hand-written file, through any sequence of commands that neither overlap
\* nor are killed, write what the file cannot hold, or run under an override; after one that
\* did, from the next command on.
SettingKept == calm /\ writing = {} => LoadToml(toml) = expected
=============================================================================
