----------------------------- MODULE StreamView -----------------------------
(* ActivityStream under names that do not clash with those of Moderation, so *)
(* that a module can be about both.                                         *)
EXTENDS Integers

CONSTANTS MaxRows, Polls, Lag, Recent, PageSize, Kept, NoStamp, MaxClock

VARIABLES clock, stamp, committed, stream, watermark, ppc, since, items, wire,
          initial, seen, shown, from, newest, overtaken

Stream == INSTANCE ActivityStream WITH None <- NoStamp, rows <- shown

ASSUME StreamAssumption == Stream!ActivityStreamConstants

\* See ActivityStream: a row that commits while the stream is open is not lost.
NothingIsSkipped == Stream!NothingIsSkipped

\* See ActivityStream: the feed is in order and has no row twice.
FeedIsInOrder == Stream!FeedIsInOrder
=============================================================================
