SPECIFICATION FairSpec
CONSTANTS
 r1 = r1
 r2 = r2
 r3 = r3
 read = read
 write = write
 Unlimited = Unlimited
 Request = {r1,r2,r3}
 Lane = {read,write}
 LaneOf <-Lanes
 WriteLane = {write}
 MinInterval <-Unit
 FailFast = {r3}
 MaxQueueWait <-Impatient
 RetryAttempts = 1
 Backoff <-Doubling
 LongBackoff = 1
 RetryAfter = {2}
 Priorities = {1}
INVARIANT TypeOK
PROPERTY Paced
PROPERTY CalledQuietHeld
PROPERTY CallsReturn
