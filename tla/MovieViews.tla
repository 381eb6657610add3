----------------------------- MODULE MovieViews -----------------------------
(***************************************************************************)
(* zero_copy/zero_copy.go: reading a list of movies in a Cap'n Proto       *)
(* message in batches, looking movies up and adding them up.  A movie is   *)
(* [id, year, runtime, genres].                                            *)
(***************************************************************************)
EXTENDS SequencesExt, Integers

CONSTANTS
  Movies,         \* the movies a message may hold
  MaxMovies,      \* bound on the movies of a message
  BatchSizes      \* with 0 the iterator would give empty batches for ever

ASSUME MoviesAssumption == MaxMovies \in Nat /\ BatchSizes \subseteq Nat \ {0}

VARIABLES
  movies,         \* the list
  batchSize, current,      \* of the iterator; batchSize 0: there is none
  batches         \* history: what it gave since it was made or reset

movieVars == <<movies, batchSize, current, batches>>

MovieInit == movies = <<>> /\ batchSize = 0 /\ current = 0 /\ batches = <<>>

AddMovie ==
  /\ batchSize = 0 /\ Len(movies) < MaxMovies
  /\ \E m \in Movies : movies' = Append(movies, m)
  /\ UNCHANGED <<batchSize, current, batches>>

NewZeroCopyIterator ==
  /\ batchSize = 0
  /\ batchSize' \in BatchSizes
  /\ UNCHANGED <<movies, current, batches>>

HasNext == current < Len(movies)

BatchEnd == Min({current + batchSize, Len(movies)})

(* Slip: every batch ends before its last movie (QueriesAgree). *)
NextBatchSkipping ==
  /\ batchSize > 0 /\ HasNext
  /\ batches' = Append(batches, SubSeq(movies, current + 1, BatchEnd - 1))
  /\ current' = BatchEnd
  /\ UNCHANGED <<movies, batchSize>>

NextBatch ==
  /\ batchSize > 0 /\ HasNext
  /\ batches' = Append(batches, SubSeq(movies, current + 1, BatchEnd))
  /\ current' = BatchEnd
  /\ UNCHANGED <<movies, batchSize>>

Reset ==
  /\ batchSize > 0
  /\ current' = 0 /\ batches' = <<>>
  /\ UNCHANGED <<movies, batchSize>>

MovieNext == AddMovie \/ NewZeroCopyIterator \/ NextBatch \/ Reset

MovieSpec == MovieInit /\ [][MovieNext]_movieVars

-----------------------------------------------------------------------------
(* What a caller asks of a list, the whole one or a batch. *)
FindMovieById(list, id) ==
  LET found == SelectSeq(list, LAMBDA m : m.id = id)
  IN IF found = <<>> THEN <<>> ELSE <<Head(found)>>

FilterMoviesByYear(list, year) == SelectSeq(list, LAMBDA m : m.year = year)

NoStats == [total |-> 0, count |-> 0]

(* The sums AverageRuntimeByYear divides at its end. *)
YearStats(list) ==
  FoldLeft(LAMBDA stats, m : [stats EXCEPT ![m.year] =
                                [total |-> @.total + m.runtime, count |-> @.count + 1]],
           [year \in {m.year : m \in Movies} |-> NoStats], list)

CountByGenre(list) ==
  FoldLeft(LAMBDA counts, genre : [counts EXCEPT ![genre] = @ + 1],
           [genre \in UNION {ToSet(m.genres) : m \in Movies} |-> 0],
           FlattenSeq([i \in DOMAIN list |-> list[i].genres]))

-----------------------------------------------------------------------------
Batchwise(ask(_)) == FlattenSeq([b \in DOMAIN batches |-> ask(batches[b])])
SumOver(number(_)) == FoldLeft(LAMBDA sum, batch : sum + number(batch), 0, batches)

(***************************************************************************)
(* An iteration that ends has given every movie once and in order: asking  *)
(* batch by batch for an id, a year, the runtimes of a year or a genre     *)
(* adds up to what asking for the whole list gives, whatever the batch     *)
(* size leaves for the last batch, and again after a Reset.                *)
(***************************************************************************)
BatchesAddUp ==
  batchSize > 0 /\ ~HasNext =>
    \A m \in Movies :
      LET byId(list) == FindMovieById(list, m.id)
          byYear(list) == FilterMoviesByYear(list, m.year)
          runtime(list) == YearStats(list)[m.year].total
          number(list) == YearStats(list)[m.year].count
      IN /\ FindMovieById(Batchwise(byId), m.id) = byId(movies)
         /\ Batchwise(byYear) = byYear(movies)
         /\ SumOver(runtime) = runtime(movies)
         /\ SumOver(number) = number(movies) /\ number(movies) = Len(byYear(movies))
         /\ \A g \in ToSet(m.genres) :
              LET inGenre(list) == CountByGenre(list)[g] IN SumOver(inGenre) = inGenre(movies)
=============================================================================
