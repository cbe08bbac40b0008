--------------------------- MODULE MCPublishReview ---------------------------
EXTENDS PublishReview, TLC
=============================================================================
