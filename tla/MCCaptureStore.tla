--------------------------- MODULE MCCaptureStore ---------------------------
EXTENDS CaptureStore, TLC

\* Uploads are interchangeable: they are random ids.
UploadSymmetry == Permutations(Uploads)

=============================================================================
