----------------------------- MODULE Negotiation -----------------------------
(***************************************************************************)
(* The negotiation of algorithms: what the KEXINIT of a side offers        *)
(* (write_kex), and what a side makes of the KEXINIT of the other          *)
(* (read_kex).  The names of the extensions travel in the list of key      *)
(* exchange methods.  Languages and the cookie are left out.               *)
(*                                                                         *)
(* A list is a function from positions to names.  The names that are left  *)
(* out of a list leave their positions empty: only the order counts.       *)
(***************************************************************************)
EXTENDS Naturals, Sequences, Functions

(* Algorithm::Rsa, which any RSA key serves; other keys serve their own name. *)
RsaAlgorithms == {"rsa-sha2-512", "rsa-sha2-256"}

(* The key exchange methods that are implemented. *)
KEXES == {"curve25519", "dh-gex"}

(* Ciphers that carry no MAC of their own. *)
CiphersWithMac == {"aes256-ctr"}

KEX_EXTENSION_NAMES(side) ==
  IF side = "client" THEN {"ext-info-c", "kex-strict-c"} ELSE {"ext-info-s", "kex-strict-s"}

StrictName(side) == IF side = "client" THEN "kex-strict-c" ELSE "kex-strict-s"

Otherwise(side) == IF side = "client" THEN "server" ELSE "client"

Has(list, name) == \E i \in DOMAIN list : list[i] = name

Least(S) == CHOOSE i \in S : \A j \in S : i <= j

FirstIn(list) == list[Least(DOMAIN list)]

-----------------------------------------------------------------------------
(* The first of client_list that is in server_list, and whether it was the   *)
(* first comparison that found it.                                           *)
FirstCommon(client_list, server_list) ==
  LET common == {i \in DOMAIN client_list : Has(server_list, client_list[i])} IN
  IF common = {}
  THEN [found |-> FALSE, name |-> "none", both_first |-> FALSE]
  ELSE [found |-> TRUE,
        name |-> client_list[Least(common)],
        both_first |-> FirstIn(client_list) = FirstIn(server_list)]

(* Mutant: the server goes by its own preferences. *)
ServerSelectOwn(ours, theirs) == FirstCommon(ours, theirs)

ServerSelect(ours, theirs) == FirstCommon(theirs, ours)

ClientSelect(ours, theirs) == FirstCommon(ours, theirs)

select(side, ours, theirs) ==
  IF side = "server" THEN ServerSelect(ours, theirs) ELSE ClientSelect(ours, theirs)

is_key_compatible_with_algo(key, algo) ==
  IF algo \in RsaAlgorithms THEN key = "rsa" ELSE key = algo

(* The preferred algorithms that one of the keys serves. *)
possible_host_key_algos_for_keys(pref, keys) ==
  LET served(a) == \E i \in DOMAIN keys : is_key_compatible_with_algo(keys[i], a) IN
  RestrictValues(pref.key, served)

(* The lists of a KEXINIT.  A side leaves out the extensions of the other    *)
(* side, and the server the host key algorithms it has no key for.           *)
write_kex(side, pref, keys) ==
  LET mine(k) == k \notin KEX_EXTENSION_NAMES(Otherwise(side)) IN
  [kex |-> RestrictValues(pref.kex, mine),
   key |-> IF side = "server" THEN possible_host_key_algos_for_keys(pref, keys) ELSE pref.key,
   cipher |-> pref.cipher, mac |-> pref.mac, compression |-> pref.compression]

(* What a side makes of the other's lists and its announcement of a guess;   *)
(* not ok if an algorithm that is needed is missing.  The other's methods    *)
(* that are not implemented are left out before the first ones are compared. *)
(* The lists of the two directions are equal, as write_kex makes them.       *)
read_kex(side, theirs, follows, pref, keys, strict_rekey) ==
  LET method(k) == k \in KEXES
      ownKeys == IF side = "server" THEN possible_host_key_algos_for_keys(pref, keys)
                                    ELSE pref.key
      kex == select(side, RestrictValues(pref.kex, method),
                    RestrictValues(theirs.kex, method))
      key == select(side, ownKeys, theirs.key)
      cipher == select(side, pref.cipher, theirs.cipher)
      mac == select(side, pref.mac, theirs.mac)
      compression == select(side, pref.compression, theirs.compression) IN
  [ok |-> /\ kex.found /\ key.found /\ cipher.found /\ compression.found
          /\ cipher.name \in CiphersWithMac => mac.found,
   kex |-> kex.name, key |-> key.name, cipher |-> cipher.name,
   client_mac |-> mac.name, server_mac |-> mac.name,
   compression |-> compression.name,
   ignore_guessed |-> follows /\ ~(kex.both_first /\ key.both_first),
   strict_kex |-> \/ /\ Has(pref.kex, StrictName(side))
                     /\ Has(theirs.kex, StrictName(Otherwise(side)))
                  \/ strict_rekey]
=============================================================================
