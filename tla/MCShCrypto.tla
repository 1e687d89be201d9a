----------------------------- MODULE MCShCrypto -----------------------------
(***************************************************************************)
(* Key generation and segment encryption under the settings of the policy  *)
(* row that an application can make.                                       *)
(***************************************************************************)
EXTENDS ShCrypto, TLC

(* The row as it is initialised; a binary key whose fifth byte is zero; a  *)
(* key without zero bytes, before its terminator and at its full length.   *)
AllStores ==
  { [key_store_type |-> t, unsecure_key |-> k] :
      t \in {TPM_STORE, MEMORY_STORE}, k \in {Null, 4, KeySize - 1, KeySize} }

KeySymmetry == Permutations(KeyAddr)
=============================================================================
