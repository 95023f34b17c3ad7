--------------------------- MODULE CalendarQueue ----------------------------
(***************************************************************************)
(* The calendar queue behind Scheduler/Calendar, the default, and          *)
(* Scheduler/RealTime (common/scheduler.cc). A bucket's circular list is a *)
(* sequence that starts at list_. width_ is the fraction wn/wd and times   *)
(* are whole, so hashing and the width estimates are exact.                *)
(*                                                                         *)
(* Left out: the resize to the same number of buckets, which needs more    *)
(* than 20 rounds (round_num_) and takes a square root.                    *)
(***************************************************************************)
EXTENDS Integers, Sequences, SequencesExt

CONSTANT AdjustWidth   \* adjust_new_width_interval_ is not zero

CalHash(t, wn, wd, nbuck) == ((t * wd) \div wn) % nbuck
Hash(c, t) == CalHash(t, c.wn, c.wd, c.nbuckets)

EmptyBucket == [list |-> <<>>, count |-> 0]

reinit(c, nbuck, wn, wd, start) ==
  [c EXCEPT !.nbuckets = nbuck, !.wn = wn, !.wd = wd,
            !.buckets = [i \in 0..(nbuck - 1) |-> EmptyBucket],
            !.qsize = 0, !.stat_qsize = 0,
            !.lastbucket = CalHash(start, wn, wd, nbuck)]

EmptyCalendar ==
  reinit([nbuckets |-> 4, wn |-> 1, wd |-> 1, buckets |-> <<>>, qsize |-> 0,
          stat_qsize |-> 0, lastbucket |-> 0, cal_clock |-> 0,
          last_time |-> -2, gap_num |-> 0, avg_gap |-> <<-2, 1>>], 4, 1, 1, 0)

bot_threshold(c) == (c.nbuckets \div 2) - 2
top_threshold(c) == 2 * c.nbuckets

(* Put n into bucket i at position p; unique says that no event of the     *)
(* bucket has its time.                                                    *)
Link(c, i, p, n, unique) ==
  LET one == IF unique THEN 1 ELSE 0
  IN [c EXCEPT !.buckets[i] = [list |-> InsertAt(@.list, p, n), count |-> @.count + one],
               !.stat_qsize = @ + one,
               !.qsize = @ + 1]

(* insert2, used by resize: before the events of the same time.            *)
insert2(c, n) ==
  LET i == Hash(c, n.time)
      list == c.buckets[i].list
      notBefore == {j \in DOMAIN list : list[j].time >= n.time}
      p == IF notBefore = {} THEN Len(list) + 1 ELSE Min(notBefore)
  IN Link(c, i, p, n, notBefore = {} \/ list[p].time # n.time)

(* newwidth: four average gaps, or the spread of the fullest bucket.       *)
newwidth(c, newsize) ==
  LET fullest == CHOOSE i \in 0..(c.nbuckets - 1) :
                   /\ \A j \in 0..(c.nbuckets - 1) : c.buckets[j].count <= c.buckets[i].count
                   /\ \A j \in 0..(i - 1) : c.buckets[j].count < c.buckets[i].count
      list == c.buckets[fullest].list
      nsamples == c.buckets[fullest].count
  IN IF AdjustWidth /\ c.avg_gap[1] > 0
       THEN <<4 * c.avg_gap[1], c.avg_gap[2]>>
     ELSE IF nsamples <= 4 THEN <<c.wn, c.wd>>
     ELSE <<4 * (Last(list).time - Head(list).time), Min({newsize, nsamples})>>

(* resize: every old bucket from its tail, so that equal times keep their  *)
(* order.                                                                  *)
resize(c, newsize, start) ==
  LET w == newwidth(c, newsize)
      old == FlattenSeq([i \in 1..c.nbuckets |-> Reverse(c.buckets[i - 1].list)])
  IN FoldLeft(insert2, reinit(c, Max({newsize, 4}), w[1], w[2], start), old)

insert(c, n) ==
  LET c1 == IF c.cal_clock > n.time
              THEN [c EXCEPT !.cal_clock = n.time, !.lastbucket = Hash(c, n.time)] ELSE c
      i == Hash(c, n.time)
      list == c.buckets[i].list
      notAfter == {j \in DOMAIN list : list[j].time <= n.time}
      c2 == IF list = <<>> \/ n.time < Head(list).time
              THEN Link(c1, i, 1, n, TRUE)
              ELSE Link(c1, i, Max(notAfter) + 1, n, list[Max(notAfter)].time < n.time)
  IN IF c2.stat_qsize > top_threshold(c2) THEN resize(c2, 2 * c2.nbuckets, c2.cal_clock) ELSE c2

(* head(): the k-th bucket after lastbucket_. The first half year and a    *)
(* day are tested by diff0_ and diff1_, the others but the last by diff2_. *)
Bucket(c, k) == (c.lastbucket + k) % c.nbuckets

WithinYear(c, k) ==
  LET diff == (c.buckets[Bucket(c, k)].list[1].time - c.cal_clock) * 2 * c.wd
  IN CASE k = 0 -> diff < c.wn * c.nbuckets
       [] k = 1 -> diff < c.wn * (c.nbuckets + 2)
       [] OTHER -> diff < 2 * c.wn * c.nbuckets

HeadBucket(c) ==
  LET head(k) == c.buckets[Bucket(c, k)].list[1]
      full == {k \in 0..(c.nbuckets - 1) : c.buckets[Bucket(c, k)].list # <<>>}
      seen == full \ {c.nbuckets - 1}
      found == {k \in seen : WithinYear(c, k)}
      earliest == {k \in seen : \A j \in seen : head(k).time <= head(j).time}
  IN IF found # {} THEN Bucket(c, Min(found))
     ELSE IF seen # {} /\ (seen = full \/ head(Min(earliest)).time < head(c.nbuckets - 1).time)
       THEN Bucket(c, Min(earliest))
       ELSE Bucket(c, c.nbuckets - 1)

cal_head(c) == c.buckets[HeadBucket(c)].list[1]

(* What head() leaves behind.                                              *)
AfterHead(c) == [c EXCEPT !.lastbucket = HeadBucket(c), !.cal_clock = cal_head(c).time]

(* The average gap is measured over qsize_ events.                         *)
MeasureGap(c, e) ==
  IF ~AdjustWidth THEN c
  ELSE IF c.last_time < 0 THEN [c EXCEPT !.last_time = e.time]
  ELSE IF c.gap_num + 1 >= c.qsize
    THEN [c EXCEPT !.avg_gap = <<e.time - c.last_time, c.gap_num + 1>>,
                   !.gap_num = 0, !.last_time = e.time]
    ELSE [c EXCEPT !.gap_num = @ + 1]

cal_deque(c) ==
  LET c1 == MeasureGap(AfterHead(c), cal_head(c))
      l == c1.lastbucket
      list == c1.buckets[l].list
      one == IF Len(list) = 1 \/ list[2].time # list[1].time THEN 1 ELSE 0
      c2 == [c1 EXCEPT !.buckets[l] = [list |-> Tail(list), count |-> @.count - one],
                       !.stat_qsize = @ - one, !.qsize = @ - 1]
  IN IF c2.stat_qsize < bot_threshold(c2)
       THEN resize(c2, c2.nbuckets \div 2, c2.cal_clock) ELSE c2

(* Mutant: looks at next_ only.                                            *)
MutCalCancel(c, n) ==
  LET i == Hash(c, n.time)
      list == c.buckets[i].list
      p == CHOOSE j \in DOMAIN list : list[j] = n
      next == list[(p % Len(list)) + 1]
      one == IF Len(list) = 1 \/ next.time # n.time THEN 1 ELSE 0
  IN [c EXCEPT !.buckets[i] = [list |-> RemoveAt(list, p), count |-> @.count - one],
               !.stat_qsize = @ - one, !.qsize = @ - 1]

(* cancel(): next_ and prev_ go round the bucket's circle.                 *)
cal_cancel(c, n) ==
  LET i == Hash(c, n.time)
      list == c.buckets[i].list
      p == CHOOSE j \in DOMAIN list : list[j] = n
      next == list[(p % Len(list)) + 1]
      prev == list[IF p = 1 THEN Len(list) ELSE p - 1]
      one == IF Len(list) = 1 \/ (next.time # n.time /\ prev.time # n.time) THEN 1 ELSE 0
  IN [c EXCEPT !.buckets[i] = [list |-> RemoveAt(list, p), count |-> @.count - one],
               !.stat_qsize = @ - one, !.qsize = @ - 1]
=============================================================================
