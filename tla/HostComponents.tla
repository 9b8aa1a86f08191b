--------------------------- MODULE HostComponents ---------------------------
(***************************************************************************)
(* The components of a Pangi host that share its process but neither rows,    *)
(* locks nor calls with one another: the way from a decision to an answer,    *)
(* the retries of a model call, model policies, installation and the          *)
(* administrator, browser sessions, connections, the lists that clients page  *)
(* through, the file vault, and the storage below all of them.  No step of    *)
(* one can enable or disable a step of another, so every interleaving of them *)
(* is a shuffle of behaviours that one component has alone; a behaviour of    *)
(* this module is that of one component, its subject.                         *)
(***************************************************************************)
EXTENDS RunAnswer, ModelPolicies, Installation, LoginSessions, ConnectionRegistry, Listings,
        FileVault, SqliteStorage, ModelRetry

VARIABLE subject

hostVars ==
  <<subject, answerVars, policyVars, installVars, loginVars, registryVars, listVars, vaultVars,
    storageVars, retryVars>>

HostInit ==
  /\ AnswerInit /\ PolicyInit /\ InstallInit /\ LoginInit /\ RegistryInit /\ ListInit
  /\ VaultInit /\ StorageInit /\ RetryInit
  /\ subject \in {"answer", "policies", "bootstrap", "sessions", "connections", "lists", "vault",
                 "storage", "retry"}

HostNext ==
  /\ UNCHANGED subject
  /\ \/ /\ subject = "answer" /\ AnswerNext
        /\ UNCHANGED <<policyVars, installVars, loginVars, registryVars, listVars,
                        vaultVars, storageVars, retryVars>>
     \/ /\ subject = "policies" /\ PolicyNext
        /\ UNCHANGED <<answerVars, installVars, loginVars, registryVars, listVars,
                        vaultVars, storageVars, retryVars>>
     \/ /\ subject = "bootstrap" /\ InstallNext
        /\ UNCHANGED <<answerVars, policyVars, loginVars, registryVars, listVars,
                        vaultVars, storageVars, retryVars>>
     \/ /\ subject = "sessions" /\ LoginNext
        /\ UNCHANGED <<answerVars, policyVars, installVars, registryVars, listVars,
                        vaultVars, storageVars, retryVars>>
     \/ /\ subject = "connections" /\ RegistryNext
        /\ UNCHANGED <<answerVars, policyVars, installVars, loginVars, listVars,
                        vaultVars, storageVars, retryVars>>
     \/ /\ subject = "lists" /\ ListNext
        /\ UNCHANGED <<answerVars, policyVars, installVars, loginVars, registryVars,
                        vaultVars, storageVars, retryVars>>
     \/ /\ subject = "vault" /\ VaultNext
        /\ UNCHANGED <<answerVars, policyVars, installVars, loginVars, registryVars,
                        listVars, storageVars, retryVars>>
     \/ /\ subject = "storage" /\ StorageNext
        /\ UNCHANGED <<answerVars, policyVars, installVars, loginVars, registryVars,
                        listVars, vaultVars, retryVars>>
     \/ /\ subject = "retry" /\ RetryNext
        /\ UNCHANGED <<answerVars, policyVars, installVars, loginVars, registryVars,
                        listVars, vaultVars, storageVars>>

HostSpec == HostInit /\ [][HostNext]_hostVars

-----------------------------------------------------------------------------
(* Properties *)

(* Every component keeps its types.                                           *)
HostTypeOK ==
  /\ AnswerTypeOK /\ PolicyTypeOK /\ InstallTypeOK /\ LoginTypeOK /\ RegistryTypeOK
  /\ ListTypeOK /\ VaultTypeOK /\ StorageTypeOK /\ RetryTypeOK
=============================================================================
