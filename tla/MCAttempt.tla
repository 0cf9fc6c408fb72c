----------------------------- MODULE MCAttempt -----------------------------
EXTENDS Attempt

\* A genuine release and a mockbuster that rank alike; one of lower quality and unread
\* size without any mirror; one that shows its company in the title; one over the limit.
good == [quality |-> 4, codec |-> 3, size |-> 2, mock |-> "nowhere", topic |-> TRUE, mirrors |-> 2]
fake == [good EXCEPT !.mock = "page"]
poor == [quality |-> 3, codec |-> 3, size |-> 0, mock |-> "page", topic |-> FALSE, mirrors |-> 0]
odd == [quality |-> 4, codec |-> 2, size |-> 3, mock |-> "title", topic |-> TRUE, mirrors |-> 1]
huge == [quality |-> 4, codec |-> 3, size |-> 9, mock |-> "nowhere", topic |-> TRUE, mirrors |-> 1]

MCTorrents == {good, fake, poor, odd, huge}

MCPages ==
  << {<<good>>, <<poor, fake>>, <<fake, good>>, <<good, poor>>, <<huge, odd>>, <<huge>>},
     {<<good>>, <<fake>>, <<odd>>, <<poor>>, <<huge>>} >>

MCConfigs ==
  {[filter |-> TRUE, maxSize |-> <<5, 5>>, priority |-> <<1, 1>>],
   [filter |-> TRUE, maxSize |-> <<0, 5>>, priority |-> <<2, 1>>],
   [filter |-> FALSE, maxSize |-> <<5, 0>>, priority |-> <<2, 1>>]}

=============================================================================
