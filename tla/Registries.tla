---------------------------- MODULE Registries ----------------------------
(***************************************************************************)
(* The package registry and the application principals: each publishes its *)
(* state as a snapshot, with a process and a file of its own.              *)
(***************************************************************************)
EXTENDS PackageStore, PrincipalStore

(* The registries keep what they reported, also across a power cut: an      *)
(* announced package generation (PackageStore: persist_candidate() of       *)
(* core/ospkg), and the principal of an application for ever                *)
(* (PrincipalStore: persist_candidate() of core/osapp).                     *)
RegistriesAreKept == PackagesAreKept /\ PrincipalsAreForever
===========================================================================
