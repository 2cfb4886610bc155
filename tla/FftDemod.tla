------------------------------ MODULE FftDemod ------------------------------
(***************************************************************************)
(* lib/fft_demod_impl.cc: demodulates one symbol per call and hands on     *)
(* whole blocks, 8 symbols for the header and 4 + cr for the payload.      *)
(***************************************************************************)
EXTENDS RxLinks

VARIABLES
  is_header, demod_cr,   \* the mode set by the last "frame_info" tag read
  output,                \* symbols of the block being collected
  demod_tags             \* tags added at its nitems_written(0)

demodVars == <<is_header, demod_cr, output, demod_tags>>

DemodInit ==
  /\ is_header \in BOOLEAN   \* not initialised by the constructor
  /\ demod_cr = 0
  /\ output = <<>>
  /\ demod_tags = <<>>

\* Mutant: a header block is taken to be as long as a block of the last payload.
BlockSizeOfPayload(of_header, cr) == 4 + cr

BlockSize(of_header, cr) == 4 + (IF of_header THEN 4 ELSE cr)

\* Only tags[0] of the item is looked at.
ReadTag(item) ==
  IF IsTagged(item)
  THEN /\ is_header' = FirstTag(item).is_header
       /\ demod_cr' = IF FirstTag(item).is_header THEN demod_cr ELSE FirstTag(item).cr
  ELSE UNCHANGED <<is_header, demod_cr>>

\* A header tag clears the block (new_frame_handler), a payload tag does not.
Collected(item) ==
  Append(IF OpensHeader(item) THEN <<>> ELSE output,
         [frame |-> item.frame, idx |-> item.idx])

\* The tag is added again at nitems_written(0): on the block being collected.
TagsPending(item) ==
  IF IsTagged(item) THEN Append(demod_tags, FirstTag(item)) ELSE demod_tags

FftDemodWork ==
  /\ symbols # <<>>
  /\ Len(codewords) < BlocksCapacity
  /\ LET item == Head(symbols) IN
       /\ ReadTag(item)
       /\ \/ /\ Len(Collected(item)) = BlockSize(is_header', demod_cr')
             /\ codewords' = Append(codewords, [tags |-> TagsPending(item), syms |-> Collected(item)])
             /\ output' = <<>>
             /\ demod_tags' = <<>>
          \/ /\ Len(Collected(item)) # BlockSize(is_header', demod_cr')
             /\ output' = Collected(item)
             /\ demod_tags' = TagsPending(item)
             /\ UNCHANGED codewords
  /\ symbols' = Tail(symbols)
  /\ UNCHANGED <<m_impl_head, sync_tags, frame_info>>
============================================================================
