---------------------------- MODULE Installation ----------------------------
(***************************************************************************)
(* The operator's commands around the bootstrap grant: `pangi init` plans,    *)
(* writes the configuration and the block in .gitignore, loads what is        *)
(* installed and asks for the first grant; `pangi bootstrap rotate` loads the *)
(* configuration and asks for another; each prints the URL of its grant       *)
(* (init_command, bootstrap_rotate_command, FileSystemInitializer).  Several  *)
(* commands may overlap, the operator may write files of their own in         *)
(* between, and a command may stop anywhere: it is killed, or the disk fills. *)
(* Directories are left out: making one that is there is not an error.        *)
(***************************************************************************)
EXTENDS AdminBootstrap

CONSTANTS
  Inits,         \* the requests that are init commands
  Operator,      \* who wrote a file by hand
  MaxStops       \* bound on the commands that stop half-way

ASSUME InstallAssumption ==
  Inits \subseteq Requests /\ Operator \notin Requests \union {NoGrant} /\ MaxStops \in Nat

VARIABLES
  config,     \* the configuration file: who made it, whether its text is all there and loads
  ignore,     \* .gitignore: the blocks of Pangi, and whether one of them is not as it should be
  command,    \* the step of a command
  shown,      \* grants whose URL was printed
  stops

fileVarsOfInit == <<config, ignore, stops>>
installVars == <<bootVars, fileVarsOfInit, command, shown>>

NoConfig == [by |-> NoGrant, whole |-> FALSE, loads |-> FALSE]

(* PangiConfig.load, of the file as it is.                                    *)
Loads == config.loads

(* to_toml: a name with a DEL in it is read from an escape and written as it  *)
(* is, which TOML forbids, so that a whole text need not load either.         *)
Rendered(r) == {[by |-> r, whole |-> TRUE, loads |-> loads] : loads \in BOOLEAN}

InstallInit ==
  /\ BootInit
  /\ config = NoConfig
  /\ ignore = [blocks |-> 0, broken |-> FALSE]
  /\ command = [r \in Requests |-> "idle"]
  /\ shown = {}
  /\ stops = 0

Turns(r, step) == command' = [command EXCEPT ![r] = step]

-----------------------------------------------------------------------------
(* pangi init *)

(* plan finds no conflict, and an installed configuration loads.              *)
PlanInit(r) ==
  /\ r \in Inits /\ command[r] = "idle"
  /\ ~ignore.broken
  /\ config = NoConfig \/ Loads
  /\ Turns(r, IF config = NoConfig THEN "create" ELSE "ignore")
  /\ UNCHANGED <<bootVars, fileVarsOfInit, shown>>

(* Mutant: the file is opened for writing, whoever made it.                   *)
CreateOver(r) ==
  /\ command[r] = "create"
  /\ \E loads \in BOOLEAN : config' = [by |-> r, whole |-> FALSE, loads |-> loads]
  /\ Turns(r, "write")
  /\ UNCHANGED <<bootVars, ignore, stops, shown>>

(* The configuration is created exclusively, and filled afterwards; one that  *)
(* has come since the plan is preserved.  What a reader makes of a text that  *)
(* is not all there is open: an empty one is a configuration of defaults.     *)
CreateConfig(r) ==
  /\ command[r] = "create"
  /\ \/ /\ config = NoConfig
        /\ \E loads \in BOOLEAN : config' = [by |-> r, whole |-> FALSE, loads |-> loads]
        /\ Turns(r, "write")
     \/ /\ config # NoConfig
        /\ Turns(r, "ignore")
        /\ UNCHANGED config
  /\ UNCHANGED <<bootVars, ignore, stops, shown>>

WriteConfig(r) ==
  /\ command[r] = "write"
  /\ config' \in Rendered(r)
  /\ Turns(r, "ignore")
  /\ UNCHANGED <<bootVars, ignore, stops, shown>>

(* _append_gitignore looks again, and then appends.                           *)
LookAtIgnore(r) ==
  /\ command[r] = "ignore"
  /\ Turns(r, IF ignore.broken THEN "done" ELSE IF ignore.blocks > 0 THEN "load" ELSE "append")
  /\ UNCHANGED <<bootVars, fileVarsOfInit, shown>>

AppendIgnore(r) ==
  /\ command[r] = "append"
  /\ ignore' = [ignore EXCEPT !.blocks = @ + 1]
  /\ Turns(r, "load")
  /\ UNCHANGED <<bootVars, config, stops, shown>>

(* What is installed is loaded, whoever wrote it, before a grant is asked for. *)
LoadInstalled(r) ==
  /\ command[r] = "load"
  /\ \/ /\ Loads
        /\ AskGrant(r, "issue")
        /\ Turns(r, "ask")
     \/ /\ ~Loads
        /\ Turns(r, "done")
        /\ UNCHANGED bootVars
  /\ UNCHANGED <<fileVarsOfInit, shown>>

-----------------------------------------------------------------------------
(* pangi bootstrap rotate --yes, and what both commands do at the end *)

AskRotation(r) ==
  /\ r \notin Inits /\ command[r] = "idle"
  /\ Loads
  /\ AskGrant(r, "rotate")
  /\ Turns(r, "ask")
  /\ UNCHANGED <<fileVarsOfInit, shown>>

(* issue_url, while the command holds the storage.                            *)
Grants(r) ==
  /\ command[r] = "ask"
  /\ Rotate(r) \/ IssueFirst(r) \/ IssueRefused(r)
  /\ UNCHANGED <<fileVarsOfInit, command, shown>>

PrintUrl(r) ==
  /\ command[r] = "ask"
  /\ request[r].at \in {"done", "refused"}
  /\ shown' = IF request[r].at = "done" THEN shown \union {r} ELSE shown
  /\ Turns(r, "done")
  /\ UNCHANGED <<bootVars, fileVarsOfInit>>

-----------------------------------------------------------------------------
(* The browser, the operator, and commands that stop *)

(* A browser presents a token that was printed.                               *)
Browse(r) ==
  /\ command[r] = "idle" /\ r \notin Inits
  /\ \/ \E g \in shown : AskAdmin(r, g)
     \/ ValidateGrant(r) \/ CreateAdmin(r)
  /\ UNCHANGED <<fileVarsOfInit, command, shown>>

OperatorWrites ==
  /\ \/ ~config.loads /\ UNCHANGED ignore
        /\ config' = [by |-> Operator, whole |-> TRUE, loads |-> TRUE]
     \/ ignore.broken /\ ignore' = [blocks |-> 1, broken |-> FALSE] /\ UNCHANGED config
  /\ \A r \in Requests : command[r] \notin {"write", "append"}
  /\ UNCHANGED <<bootVars, command, shown, stops>>

(* The block may be there in part; a grant that was issued stays.             *)
Stop(r) ==
  /\ command[r] \notin {"idle", "done"}
  /\ stops < MaxStops
  /\ stops' = stops + 1
  /\ \/ UNCHANGED ignore
     \/ command[r] = "append" /\ ignore' = [ignore EXCEPT !.broken = TRUE]
  /\ Turns(r, "done")
  /\ UNCHANGED <<bootVars, config, shown>>

InstallNext ==
  \/ \E r \in Requests :
       \/ PlanInit(r) \/ CreateConfig(r) \/ WriteConfig(r) \/ LookAtIgnore(r) \/ AppendIgnore(r)
       \/ LoadInstalled(r) \/ AskRotation(r) \/ Grants(r) \/ PrintUrl(r) \/ Browse(r) \/ Stop(r)
  \/ OperatorWrites
  \/ BootTick /\ UNCHANGED <<fileVarsOfInit, command, shown>>

InstallSpec == InstallInit /\ [][InstallNext]_installVars

-----------------------------------------------------------------------------
(* Properties *)

InstallTypeOK ==
  /\ BootTypeOK
  /\ config \in [by : Requests \union {NoGrant, Operator}, whole : BOOLEAN, loads : BOOLEAN]
  /\ ignore \in [blocks : Nat, broken : BOOLEAN]
  /\ command \in [Requests -> {"idle", "create", "write", "ignore", "append", "load", "ask", "done"}]
  /\ shown \subseteq Requests
  /\ stops \in 0..MaxStops

(* Nothing that was installed is written over (apply): a configuration that   *)
(* is whole and loads stays as it is, and one that is not changes hands only  *)
(* when the operator replaces it, whatever commands overlap and wherever they *)
(* stop; and nobody asks for a grant, nor becomes administrator, without a    *)
(* configuration that loads and a URL that was printed.                       *)
InstalledStays ==
  [][ /\ config.whole /\ config.loads => config' = config
      /\ config.by # NoGrant /\ config'.by # config.by => config'.by = Operator
      /\ \A r \in Requests : command[r] # "ask" /\ command'[r] = "ask" => config.loads
      /\ \A a \in admins' \ admins : request[a].token \in shown ]_installVars
=============================================================================
