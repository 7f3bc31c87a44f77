------------------------------ MODULE Retention ------------------------------
(***************************************************************************)
(* How long an hour is written into, kept on the local disk and kept in S3 *)
(* (metrics_storage/retention.rs), and the time a metric is kept at        *)
(* (metrics_storage/pending.rs).  Times are integers of one unit: the code *)
(* counts microseconds, the models count ticks.                            *)
(***************************************************************************)
EXTENDS Integers

CONSTANTS
  HOUR_MICROS,            \* the length of an hour
  LOCAL_HOURS,            \* how many hours after its end an hour stays local
  MAX_TIME_AHEAD_MICROS   \* a time further ahead than this is a wrong one

ASSUME RetentionAssumption ==
  /\ HOUR_MICROS \in Nat \ {0}
  /\ LOCAL_HOURS \in Nat
  /\ MAX_TIME_AHEAD_MICROS \in Nat

hour_start_of(time) == time - (time % HOUR_MICROS)

local_time_is_over(hour_start, now) ==
  hour_start + HOUR_MICROS + LOCAL_HOURS * HOUR_MICROS <= now

expired_up_to(now, hours_to_gc) == hour_start_of(now - hours_to_gc * HOUR_MICROS)

is_expired(hour_start, now, hours_to_gc) ==
  hour_start <= expired_up_to(now, hours_to_gc)

is_to_upload(hour_start, now, hours_to_gc) ==
  /\ local_time_is_over(hour_start, now)
  /\ ~ is_expired(hour_start, now, hours_to_gc)

is_to_delete_locally(hour_start, now, hours_to_gc, has_s3) ==
  /\ local_time_is_over(hour_start, now)
  /\ ~ has_s3 \/ is_expired(hour_start, now, hours_to_gc)

(* A metric which names no time, or one too far ahead, is kept at `now`. *)
time_to_keep(started_at, now) ==
  IF started_at <= 0 \/ started_at > now + MAX_TIME_AHEAD_MICROS
  THEN now
  ELSE started_at

==============================================================================
