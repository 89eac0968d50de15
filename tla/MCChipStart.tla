---------------------------- MODULE MCChipStart ----------------------------
(* Every version that re_check_mac_version has a case for, and one it refuses.   *)
EXTENDS ChipStart

EveryVersion ==
    UNION {t[2] : t \in TypesPci \cup TypesPcie \cup Types8168 \cup Types8125} \cup {\hFFF}

=============================================================================
