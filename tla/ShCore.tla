------------------------------- MODULE ShCore -------------------------------
(***************************************************************************)
(* The constant tables of include/sh_core.h and the functions that look    *)
(* things up in them.  Enumerators keep their C values, because the lookup *)
(* of a policy depends on them; cipher algorithms and modes are names.     *)
(***************************************************************************)
EXTENDS Integers, Sequences

(* enum sh_protection_grade and enum key_store_type *)
SH_PROTECT_HIGH   == 0
SH_PROTECT_MEDIUM == 1
SH_PROTECT_LOW    == 2
SH_PROTECT_NONE   == 3
Grades == 0 .. 3

TPM_STORE    == 0
MEMORY_STORE == 1

(* One initialiser of the policy table.  The initialisers stop after the   *)
(* cipher flag, so C zero-initialises the key store type (TPM_STORE) and   *)
(* the local key (a null pointer, here "no key").                          *)
Policy(grade, seg, enc, eras, aslr, noise, segsz, algo, md) ==
  [ protection_grade |-> grade, segmentation_enabled |-> seg,
    encryption_enabled |-> enc, erasure_enabled |-> eras,
    aslr_enabled |-> aslr, noise_enabled |-> noise, segment_size |-> segsz,
    algorithm |-> algo, mode |-> md, key_store_type |-> TPM_STORE ]

sh_protection_policies ==
  << Policy(SH_PROTECT_HIGH,   TRUE,  TRUE,  TRUE, TRUE,  TRUE,   5, "AES256", "GCM"),
     Policy(SH_PROTECT_MEDIUM, TRUE,  TRUE,  TRUE, FALSE, TRUE,  10, "AES192", "GCM"),
     Policy(SH_PROTECT_LOW,    TRUE,  FALSE, TRUE, FALSE, FALSE, 15, "NONE",   "NONE"),
     Policy(SH_PROTECT_NONE,   FALSE, FALSE, TRUE, FALSE, TRUE,   0, "NONE",   "NONE") >>

(* The lookup as the code does it: the loop tests each row's own grade for *)
(* being non-zero and never looks at its argument.                         *)
sh_get_protection_policy(protection) ==
  LET hit(p) == sh_protection_policies[p].protection_grade # 0
  IN  sh_protection_policies[CHOOSE p \in 1 .. 4 : hit(p) /\ \A q \in 1 .. p - 1 : ~hit(q)]

sh_ciphertext_sz_diff_table ==
  << [mode |-> "GCM", de_inc_recommend |-> 16], [mode |-> "CCM", de_inc_recommend |-> 16] >>

(* The loop returns in its first round: the first row, whatever the mode.  *)
sh_get_cipher_outsize_diff(algorithm, mode) ==
  sh_ciphertext_sz_diff_table[1].de_inc_recommend

=============================================================================
