------------------------------ MODULE CacheView ------------------------------
(* UserCache under names that do not clash with those of UserFlags, so that a *)
(* module can be about both.                                                *)
EXTENDS Naturals

CONSTANTS Readers, Reporters, Editors, CacheDecayers, Repairers, NoRow, MaxVersion, SlowRequests,
          CacheFaults

VARIABLES row, cached, stver, neg, cpc, inHand, cacheFaults

Cache == INSTANCE UserCache WITH
    Decayers <- CacheDecayers, None <- NoRow, MaxFaults <- CacheFaults,
    pc <- cpc, seen <- inHand, faults <- cacheFaults

ASSUME CacheAssumption == Cache!UserCacheConstants

\* See UserCache: a stored profile was committed, and is guarded by its version.
EntryIsGuarded == Cache!EntryIsGuarded

\* See UserCache: a report never replaces a profile by an older one.
ReportNeverGoesBack == Cache!ReportNeverGoesBack
=============================================================================
