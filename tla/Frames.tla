------------------------------- MODULE Frames -------------------------------
(***************************************************************************)
(* The frames of a recording (src/internal/recorder.go): the lines of the  *)
(* source beside a screenshot, and the compression of the images.          *)
(***************************************************************************)
EXTENDS Integers, Sequences, SequencesExt

LineHeight == 20

\* Images are functions from pixels to colours; 0 is the transparent one.
Transparent == 0

\* Mutant: each image is compared with the first.
CompressWithFirst(images, i) ==
  [images EXCEPT ![i] = [p \in DOMAIN images[i] |->
     IF images[i][p] = images[1][p] THEN Transparent ELSE images[i][p]]]

\* One step of the loop of compressGif, on image i.
Compress(images, i) ==
  [images EXCEPT ![i] = [p \in DOMAIN images[i] |->
     IF images[i][p] = images[i - 1][p] THEN Transparent ELSE images[i][p]]]

\* The loop goes from the last image down to the second.
Order(n) == [k \in 1..n - 1 |-> n + 1 - k]

CompressGif(images) == FoldLeft(Compress, images, Order(Len(images)))

\* What a viewer of the file shows for each image: the pixels that are
\* transparent are those of the image before.
Show(images) ==
  FoldLeft(LAMBDA shown, image :
             Append(shown,
               IF shown = <<>> THEN image
               ELSE [p \in DOMAIN image |->
                       IF image[p] = Transparent THEN Last(shown)[p] ELSE image[p]]),
           <<>>, images)

----------------------------------------------------------------------------
(* LoadAsImage, for a source of `length' lines and the line to be marked,  *)
(* in an image of the given height.                                        *)

\* Mutant: the marked line is put at the bottom.
OffsetAtBottom(line, height) ==
  LET o == line + 3 IN IF o < 1 THEN 1 ELSE o

Offset(line, height) ==
  LET o == line + 3 - height \div LineHeight IN IF o < 1 THEN 1 ELSE o

\* lines[offset-1:] panics when it starts after the end.
WindowPanics(length, line, height) == Offset(line, height) - 1 > length

\* The lines that are drawn, and the place of the top of a line.
Window(length, line, height) ==
  {i \in Offset(line, height)..length : i - Offset(line, height) <= height \div LineHeight}

BottomOf(i, line, height) == LineHeight + (i - Offset(line, height)) * LineHeight

----------------------------------------------------------------------------
(* The source that is read from the standard input (src/internal/repl.go): *)
(* 0 is the end of a line, and a chunk is what one Read returns.           *)

EndOfLine == 0

\* strings.Split at the ends of lines.
Split(s) ==
  FoldLeft(LAMBDA parts, c :
             IF c = EndOfLine THEN Append(parts, <<>>)
             ELSE [parts EXCEPT ![Len(parts)] = Append(@, c)],
           <<<<>>>>, s)

\* SourceImager.RecordStdin; `known' when there is an entry already.
RecordStdin(src, lines) ==
  [known |-> TRUE, lines |-> IF src.known THEN src.lines \o lines \o <<<<>>>> ELSE lines]

\* Mutant: the end of the last chunk is forgotten.
OnlyChunk(r, chunk) == chunk

Pending(r, chunk) == r.buf \o chunk

\* SourceRecordReader.Read of one chunk, and then of the end of the stream.
ReadChunk(r, chunk) ==
  LET parts == Split(Pending(r, chunk))
  IN [buf |-> Last(parts), src |-> RecordStdin(r.src, Front(parts))]

ReadSource(chunks) ==
  LET r == FoldLeft(ReadChunk, [buf |-> <<>>, src |-> [known |-> FALSE, lines |-> <<>>]], chunks)
  IN RecordStdin(r.src, IF r.buf = <<>> THEN <<>> ELSE <<r.buf>>).lines
============================================================================
