----------------------------- MODULE MCPayment -----------------------------
EXTENDS Payment

\* Every number of mils up to half a yuan; those around the powers of two at which
\* floatValue loses a bit, up to a million yuan; some just below whole fen and
\* whole yuan, and some beyond the size at which floats keep fen or products yuan.
MCTexts ==
    8..500
        \cup UNION {(1000 * 2^i - 12)..(1000 * 2^i + 15) : i \in {0, 1, 4, 7, 10, 13, 16, 17, 18, 19, 20}}
        \cup {1999, 2675, 8990, 19999, 999999, 43210000, 99999990, 131072020, 262144020,
              671091000, 700000125, 1234567890}
=============================================================================
