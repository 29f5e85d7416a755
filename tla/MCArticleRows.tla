---------------------------- MODULE MCArticleRows ----------------------------
EXTENDS ArticleRows, TLC

\* 1 and 2: articles of one press, to be extracted; 3: a briefing, stored with its body
CONSTANTS p1, p2, t1, t2
MCPress == [r \in Rows |-> IF r \in Pending THEN p1 ELSE p2]
MCStored == [r \in Rows \ Pending |-> t1]
MCCrawled == [r \in Rows |-> IF r = 2 THEN 1 ELSE 0]
=============================================================================
